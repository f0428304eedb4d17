--------------------------- MODULE Landing_proofs ---------------------------
(***************************************************************************)
(* Proofs about Landing, for any set of tickets, any changes others push,   *)
(* with a remote or without, any number of landings cut short.              *)
(***************************************************************************)
EXTENDS Landing, SequenceTheorems, TLAPS

(***************************************************************************)
(* Histories.                                                               *)
(***************************************************************************)

\* A commit: who made it and the changes it carries.
Commits == [by : Tickets \cup Upstream \cup {Edit}, changes : SUBSET Changes]

\* A tree holds what one of its history's commits carries.
LEMMA TreeHolds ==
  ASSUME NEW h, NEW x
  PROVE  x \in Tree(h) <=> \E i \in DOMAIN h : x \in h[i].changes
  BY DEF Tree

\* The tree of a history is made of changes.
LEMMA TreeType ==
  ASSUME NEW h \in Seq(Commits)
  PROVE  Tree(h) \subseteq Changes
  <1> SUFFICES ASSUME NEW x \in Tree(h) PROVE x \in Changes
    OBVIOUS
  <1>1. PICK i \in DOMAIN h : x \in h[i].changes
    BY TreeHolds
  <1>2. h[i] \in Commits
    BY ElementOfSeq, LenProperties
  <1> QED BY <1>1, <1>2 DEF Commits

\* A history of which another is a prefix holds all of its changes.
LEMMA TreeExtends ==
  ASSUME NEW h \in Seq(Commits), NEW g \in Seq(Commits), Extends(h, g)
  PROVE  Tree(g) \subseteq Tree(h)
  <1> SUFFICES ASSUME NEW x \in Tree(g) PROVE x \in Tree(h)
    OBVIOUS
  <1>1. PICK i \in DOMAIN g : x \in g[i].changes
    BY TreeHolds
  <1>2. i \in 1..Len(g) /\ i \in 1..Len(h) /\ SubSeq(h, 1, Len(g)) = g
    BY LenProperties DEF Extends
  <1>3. SubSeq(h, 1, Len(g))[i] = h[i]
    BY <1>2, LenProperties
  <1>4. i \in DOMAIN h /\ x \in h[i].changes
    BY <1>1, <1>2, <1>3, LenProperties
  <1> QED BY <1>4, TreeHolds

\* A commit on top of a history adds its changes to the tree.
LEMMA TreeAppend ==
  ASSUME NEW h \in Seq(Commits), NEW c \in Commits
  PROVE  /\ Append(h, c) \in Seq(Commits)
         /\ Tree(Append(h, c)) = Tree(h) \cup c.changes
  <1>1. /\ Append(h, c) \in Seq(Commits)
        /\ DOMAIN Append(h, c) = DOMAIN h \cup {Len(h) + 1}
        /\ \A i \in DOMAIN h : Append(h, c)[i] = h[i]
        /\ Append(h, c)[Len(h) + 1] = c
    BY AppendProperties, LenProperties
  <1>2. \A x : x \in Tree(Append(h, c)) <=> x \in Tree(h) \cup c.changes
    BY <1>1, TreeHolds
  <1> QED BY <1>1, <1>2

\* A history in which no ticket is twice and, undisturbed, no ticket's commit
\* carries anything else.
Tidy(h, undisturbed) == Once(h) /\ (undisturbed => Pure(h))

\* A commit keeps a history tidy when it repeats no ticket and, undisturbed,
\* carries its own alone.
LEMMA TidyAppend ==
  ASSUME NEW h \in Seq(Commits), NEW undisturbed, Tidy(h, undisturbed), NEW c \in Commits,
         \A t \in Tickets : t \in c.changes => t \notin Tree(h),
         undisturbed => (c.by \in Tickets => c.changes = {c.by})
  PROVE  Tidy(Append(h, c), undisturbed)
  <1>1. /\ DOMAIN Append(h, c) = DOMAIN h \cup {Len(h) + 1}
        /\ \A i \in DOMAIN h : Append(h, c)[i] = h[i]
        /\ Append(h, c)[Len(h) + 1] = c
    BY AppendProperties, LenProperties
  <1>2. \A t \in Tickets : t \in c.changes => \A i \in DOMAIN h : t \notin h[i].changes
    BY TreeHolds
  <1>3. Once(Append(h, c))
    <2> SUFFICES ASSUME NEW t \in Tickets,
                        NEW i \in DOMAIN Append(h, c), NEW j \in DOMAIN Append(h, c),
                        t \in Append(h, c)[i].changes, t \in Append(h, c)[j].changes
                 PROVE  i = j
      BY DEF Once
    <2>1. CASE i \in DOMAIN h /\ j \in DOMAIN h
      BY <1>1, <2>1 DEF Tidy, Once
    <2>2. CASE i \in DOMAIN h /\ j = Len(h) + 1
      BY <1>1, <1>2, <2>2
    <2>3. CASE i = Len(h) + 1 /\ j \in DOMAIN h
      BY <1>1, <1>2, <2>3
    <2>4. CASE i = Len(h) + 1 /\ j = Len(h) + 1
      BY <2>4
    <2> QED BY <1>1, <2>1, <2>2, <2>3, <2>4
  <1>4. ASSUME undisturbed PROVE Pure(Append(h, c))
    BY <1>1, <1>4 DEF Tidy, Pure
  <1> QED BY <1>3, <1>4 DEF Tidy

(***************************************************************************)
(* What the variables hold, and what a step leaves alone.                   *)
(***************************************************************************)
Steps == {"idle", "fetch", "clean", "rebase", "validate", "handoff", "squash", "checkout",
          "forward", "stage", "commit", "push", "landed", "remove"}

Shape ==
  /\ state \in [Tickets -> {"ready", "review", "landing", "handed_off", "needs_you",
                            "done", "rejected"}]
  /\ hist \in [Branches -> Seq(Commits)]
  /\ origin \in Seq(Commits) /\ tracking \in Seq(Commits)
  /\ branch \in [Tickets -> BOOLEAN]
  /\ base \in [Tickets -> Seq(Commits)]
  /\ head \in Branches /\ index \subseteq Changes
  /\ lpc \in [Tickets -> Steps]
  /\ how \in [Tickets -> {"none", "push", "local", "hand_off"}]
  /\ green \in [Tickets -> SUBSET Changes]
  /\ restore \in [Tickets -> BOOLEAN]
  /\ unseen \in [Tickets -> SUBSET Changes]

\* The histories of the target and of what a landing squashes onto are histories.
LEMMA HistoryTypes ==
  ASSUME Shape
  PROVE  /\ hist["target"] \in Seq(Commits) /\ hist["own"] \in Seq(Commits)
         /\ hist[head] \in Seq(Commits) /\ TargetRef \in Seq(Commits)
         /\ \A t \in Tickets : base[t] \in Seq(Commits)
         /\ Tree(hist["target"]) \subseteq Changes
         /\ \A t \in Tickets : Tree(base[t]) \subseteq Changes
  <1>1. /\ hist["target"] \in Seq(Commits) /\ hist["own"] \in Seq(Commits)
        /\ hist[head] \in Seq(Commits) /\ TargetRef \in Seq(Commits)
        /\ \A t \in Tickets : base[t] \in Seq(Commits)
    BY DEF Shape, Branches, TargetRef
  <1> QED BY <1>1, TreeType

\* Nothing of the other tickets changes.
Spares(t) ==
  \A u \in Tickets \ {t} :
    /\ state'[u] = state[u] /\ branch'[u] = branch[u] /\ base'[u] = base[u]
    /\ lpc'[u] = lpc[u] /\ how'[u] = how[u] /\ green'[u] = green[u]
    /\ restore'[u] = restore[u]

\* Parking a landing, or moving it on, keeps the tickets' states and the stages of
\* their landings in shape, and spares the others.
LEMMA GoesOrParks ==
  ASSUME Shape, NEW t \in Tickets, NEW s \in Steps,
         Park(t) \/ (goto(t, s) /\ state' = state)
  PROVE  /\ lpc' \in [Tickets -> Steps]
         /\ state' \in [Tickets -> {"ready", "review", "landing", "handed_off", "needs_you",
                                    "done", "rejected"}]
         /\ green' \in [Tickets -> SUBSET Changes] /\ unseen' \in [Tickets -> SUBSET Changes]
         /\ \A u \in Tickets \ {t} : /\ state'[u] = state[u] /\ lpc'[u] = lpc[u]
                                      /\ green'[u] = green[u]
  <1>1. /\ lpc' = [lpc EXCEPT ![t] = "idle"] \/ lpc' = [lpc EXCEPT ![t] = s]
        /\ state' = [state EXCEPT ![t] = Parked(@)] \/ state' = state
        /\ green' = [green EXCEPT ![t] = {}] \/ green' = green
        /\ unseen' = [unseen EXCEPT ![t] = {}] \/ unseen' = unseen
    BY DEF Park, goto
  <1>2. lpc' \in [Tickets -> Steps] /\ \A u \in Tickets \ {t} : lpc'[u] = lpc[u]
    BY <1>1 DEF Shape, Steps
  <1>3. /\ state' \in [Tickets -> {"ready", "review", "landing", "handed_off", "needs_you",
                                   "done", "rejected"}]
        /\ \A u \in Tickets \ {t} : state'[u] = state[u]
    BY <1>1 DEF Shape, Parked
  <1>4. green' \in [Tickets -> SUBSET Changes] /\ \A u \in Tickets \ {t} : green'[u] = green[u]
    BY <1>1 DEF Shape
  <1>5. unseen' \in [Tickets -> SUBSET Changes]
    BY <1>1 DEF Shape
  <1> QED BY <1>2, <1>3, <1>4, <1>5

\* Giving the owner's branch back, or owing it, keeps the checkout in shape.
LEMMA ReturnShape ==
  ASSUME Shape, NEW t \in Tickets, Return(t)
  PROVE  /\ restore' \in [Tickets -> BOOLEAN] /\ head' \in Branches
         /\ \A u \in Tickets \ {t} : restore'[u] = restore[u]
         /\ restore'[t] = FALSE
         /\ head' = "own" \/ head' = head
  BY DEF Shape, Return, Restored, Branches

\* A step of a landing before it comes to the main checkout.
WorktreeStep(t) == Fetch(t) \/ CheckClean(t) \/ Rebase(t) \/ Validate(t) \/ HandOff(t)

\* A landing in its ticket's worktree leaves the main checkout alone.
LEMMA WorktreeStepShape ==
  ASSUME Shape, NEW t \in Tickets, WorktreeStep(t)
  PROVE  /\ Shape' /\ Spares(t)
         /\ UNCHANGED <<hist, origin, branch, head, index, how, restore>>
  <1> USE DEF checkout, repoVars
  <1>1. /\ UNCHANGED <<hist, origin, branch, head, index, how, restore>>
        /\ tracking' = tracking \/ tracking' = origin
    BY DEF WorktreeStep, Fetch, CheckClean, Rebase, Validate, HandOff
  <1>2. Tree(base[t]) \cup {t} \subseteq Changes /\ Tree(hist["target"]) \subseteq Changes
    BY HistoryTypes DEF Changes
  <1>3. /\ lpc' \in [Tickets -> Steps]
        /\ state' \in [Tickets -> {"ready", "review", "landing", "handed_off", "needs_you",
                                   "done", "rejected"}]
        /\ green' \in [Tickets -> SUBSET Changes] /\ unseen' \in [Tickets -> SUBSET Changes]
        /\ \A u \in Tickets \ {t} : /\ state'[u] = state[u] /\ lpc'[u] = lpc[u]
                                     /\ green'[u] = green[u]
    <2>1. ASSUME Park(t) \/ (\E s \in Steps : goto(t, s) /\ state' = state)
          PROVE  /\ lpc' \in [Tickets -> Steps]
                 /\ state' \in [Tickets -> {"ready", "review", "landing", "handed_off",
                                            "needs_you", "done", "rejected"}]
                 /\ green' \in [Tickets -> SUBSET Changes]
                 /\ unseen' \in [Tickets -> SUBSET Changes]
                 /\ \A u \in Tickets \ {t} : /\ state'[u] = state[u] /\ lpc'[u] = lpc[u]
                                              /\ green'[u] = green[u]
      <3>1. "idle" \in Steps
        BY DEF Steps
      <3> QED BY <2>1, <3>1, GoesOrParks
    <2>2. CASE Fetch(t) \/ CheckClean(t)
      BY <2>1, <2>2 DEF Fetch, CheckClean, Steps
    <2>3. CASE HandOff(t)
      BY <2>3 DEF HandOff, goto, Shape, Steps
    <2>4. CASE Rebase(t)
      <3>1. CASE Park(t)
        BY <2>1, <3>1
      <3>2. CASE ~Park(t)
        <4>1. /\ lpc' = [lpc EXCEPT ![t] = "validate"] /\ UNCHANGED <<state, green>>
              /\ unseen' = [unseen EXCEPT ![t] = Tree(hist["target"]) \ Tree(TargetRef)]
          BY <2>4, <3>2 DEF Rebase
        <4>2. unseen' \in [Tickets -> SUBSET Changes]
          BY <1>2, <4>1 DEF Shape
        <4> QED BY <4>1, <4>2 DEF Shape, Steps
      <3> QED BY <3>1, <3>2
    <2>5. CASE Validate(t)
      <3>1. CASE Park(t)
        BY <2>1, <3>1
      <3>2. CASE ~Park(t)
        <4>1. /\ lpc' = [lpc EXCEPT ![t] = IF how[t] = "hand_off" THEN "handoff" ELSE "squash"]
              /\ green' = [green EXCEPT ![t] = Tree(base[t]) \cup {t}]
              /\ UNCHANGED <<state, unseen>>
          BY <2>5, <3>2 DEF Validate
        <4>2. green' \in [Tickets -> SUBSET Changes] /\ \A u \in Tickets \ {t} : green'[u] = green[u]
          BY <1>2, <4>1 DEF Shape
        <4> QED BY <4>1, <4>2 DEF Shape, Steps
      <3> QED BY <3>1, <3>2
    <2> QED BY <2>2, <2>3, <2>4, <2>5 DEF WorktreeStep
  <1>4. base' \in [Tickets -> Seq(Commits)] /\ \A u \in Tickets \ {t} : base'[u] = base[u]
    <2>1. base' = base \/ base' = [base EXCEPT ![t] = TargetRef]
      BY DEF WorktreeStep, Fetch, CheckClean, Rebase, Validate, HandOff
    <2> QED BY <2>1, HistoryTypes DEF Shape
  <1> QED BY <1>1, <1>3, <1>4 DEF Shape, Spares

\* A step of a landing in the main checkout, or after it.
SquashStep(t) ==
  \/ Squash(t) \/ Checkout(t) \/ Forward(t) \/ Stage(t) \/ Commit(t)
  \/ Push(t) \/ Landed(t) \/ Remove(t)

\* A commit a landing makes is one, whatever was staged.
LEMMA CommitType ==
  ASSUME Shape, NEW t \in Tickets
  PROVE  [by |-> t, changes |-> index] \in Commits
  BY DEF Shape, Commits

\* A landing in the main checkout spares the other tickets too.
LEMMA SquashStepShape ==
  ASSUME Shape, NEW t \in Tickets, SquashStep(t)
  PROVE  /\ Shape' /\ Spares(t)
         /\ UNCHANGED <<base, how>>
  <1> USE DEF checkout, repoVars
  <1>1. UNCHANGED <<base, how>>
    BY DEF SquashStep, Squash, Checkout, Forward, Stage, Commit, Push, Landed, Remove
  <1>2. \/ Park(t) \/ (\E s \in Steps : goto(t, s) /\ state' = state)
        \/ goto(t, "remove") /\ state' = [state EXCEPT ![t] = "done"]
    BY DEF SquashStep, Squash, Checkout, Forward, Stage, Commit, Push, Landed, Remove, Rejected, Steps
  <1>3. /\ lpc' \in [Tickets -> Steps]
        /\ state' \in [Tickets -> {"ready", "review", "landing", "handed_off", "needs_you",
                                   "done", "rejected"}]
        /\ green' \in [Tickets -> SUBSET Changes] /\ unseen' \in [Tickets -> SUBSET Changes]
        /\ \A u \in Tickets \ {t} : /\ state'[u] = state[u] /\ lpc'[u] = lpc[u]
                                     /\ green'[u] = green[u]
    <2>1. CASE Park(t) \/ (\E s \in Steps : goto(t, s) /\ state' = state)
      <3>1. "idle" \in Steps
        BY DEF Steps
      <3> QED BY <2>1, <3>1, GoesOrParks
    <2>2. CASE goto(t, "remove") /\ state' = [state EXCEPT ![t] = "done"]
      BY <2>2 DEF goto, Shape, Steps
    <2> QED BY <1>2, <2>1, <2>2
  <1>4. /\ restore' \in [Tickets -> BOOLEAN] /\ head' \in Branches
        /\ \A u \in Tickets \ {t} : restore'[u] = restore[u]
    <2>1. \/ UNCHANGED <<restore, head>> \/ Return(t)
          \/ restore' = [restore EXCEPT ![t] = FALSE] /\ head' = head
          \/ restore' = [restore EXCEPT ![t] = head # "target"] /\ head' = "target"
      BY DEF SquashStep, Squash, Checkout, Forward, Stage, Commit, Push, Landed, Remove
    <2> QED BY <2>1, ReturnShape DEF Shape, Branches
  <1>5. branch' \in [Tickets -> BOOLEAN] /\ \A u \in Tickets \ {t} : branch'[u] = branch[u]
    <2>1. branch' = branch \/ branch' = [branch EXCEPT ![t] = FALSE]
      BY DEF SquashStep, Squash, Checkout, Forward, Stage, Commit, Push, Landed, Remove
    <2> QED BY <2>1 DEF Shape
  <1>6. hist' \in [Branches -> Seq(Commits)]
    <2>1. \/ hist' = hist \/ hist' = [hist EXCEPT ![head] = tracking]
          \/ hist' = [hist EXCEPT ![head] = Append(hist[head], [by |-> t, changes |-> index])]
      BY DEF SquashStep, Squash, Checkout, Forward, Stage, Commit, Push, Landed, Remove
    <2>2. Append(hist[head], [by |-> t, changes |-> index]) \in Seq(Commits)
      BY HistoryTypes, CommitType, TreeAppend
    <2> HIDE DEF Commits
    <2> QED BY <2>1, <2>2 DEF Shape
  <1>7. origin' \in Seq(Commits) /\ tracking' \in Seq(Commits)
    <2>1. UNCHANGED <<origin, tracking>> \/ (origin' = hist["target"] /\ tracking' = origin')
      BY DEF SquashStep, Squash, Checkout, Forward, Stage, Commit, Push, Landed, Remove
    <2> QED BY <2>1, HistoryTypes DEF Shape
  <1>8. index' \subseteq Changes
    <2>1. \/ index' = index \/ index' = index \cup Work(t) \/ index' = {}
          \/ index' = index \cup {Unmerged}
      BY DEF SquashStep, Squash, Checkout, Forward, Stage, Commit, Push, Landed, Remove
    <2>2. Work(t) \subseteq Changes
      BY HistoryTypes DEF Work, Changes
    <2> QED BY <2>1, <2>2 DEF Shape, Changes
  <1> QED BY <1>1, <1>3, <1>4, <1>5, <1>6, <1>7, <1>8 DEF Shape, Spares

\* A step of a ticket outside its landing: its run, the human, the beginning of a
\* landing, its death and its recovery.
TicketStep(t) ==
  \/ Cut(t) \/ Rework(t) \/ SendBack(t) \/ Reject(t) \/ MarkMerged(t)
  \/ Approve(t) \/ Die(t) \/ Cancel(t) \/ Recover(t) \/ OwnerRebases(t)

\* A step of everybody else.
WorldStep ==
  \/ UpstreamPush \/ FetchByRun
  \/ OwnerEdits \/ OwnerCommits \/ OwnerTidies \/ OwnerSwitches \/ OwnerPushes

\* The repository keeps its remote, or its lack of one, and its owner's ways.
SameRepo == Remote' = Remote /\ Untouched' = Untouched

\* No step changes the repository for another.
LEMMA RepoStays ==
  ASSUME [Next]_vars
  PROVE  SameRepo
  BY DEF Next, vars, SameRepo, Remote, Untouched

\* Next, sorted by whose step it is.
LEMMA NextCases ==
  ASSUME [Next]_vars
  PROVE  \/ WorldStep \/ UNCHANGED vars
         \/ \E t \in Tickets : TicketStep(t) \/ WorktreeStep(t) \/ SquashStep(t)
  BY DEF Next, WorldStep, TicketStep, WorktreeStep, SquashStep, LandStep

\* While its landing is under way a ticket is in Landing, and Done while the
\* landing cleans up; a ticket with work that is not Done has its branch.
PhaseInv ==
  \A t \in Tickets :
    /\ lpc[t] \notin {"idle", "remove"} => state[t] = "landing"
    /\ lpc[t] = "remove" => state[t] = "done"
    /\ state[t] \in {"review", "landing", "handed_off", "needs_you"} => branch[t]

\* What the landings under way have not seen is made of changes.
LEMMA MeanwhileType ==
  ASSUME Shape, NEW changes \in SUBSET Changes, Meanwhile(changes)
  PROVE  unseen' \in [Tickets -> SUBSET Changes]
  <1>1. unseen' = [t \in Tickets |-> IF Landing(t) THEN unseen[t] \cup changes ELSE unseen[t]]
    BY DEF Meanwhile
  <1>2. \A t \in Tickets : unseen[t] \in SUBSET Changes
    BY DEF Shape
  <1>3. \A t \in Tickets : (IF Landing(t) THEN unseen[t] \cup changes ELSE unseen[t]) \in SUBSET Changes
    BY <1>2
  <1> QED BY <1>1, <1>3

\* A run's fetch shows the landings under way what origin has by now.
LEMMA RunFetchesShape ==
  ASSUME Shape, RunFetches
  PROVE  /\ tracking' = tracking \/ tracking' = origin
         /\ unseen' \in [Tickets -> SUBSET Changes]
  <1>1. Tree(origin) \subseteq Changes
    BY TreeType DEF Shape
  <1> QED BY <1>1, MeanwhileType DEF RunFetches, Shape

\* A step of a ticket outside its landing leaves the histories and what is staged
\* alone, and leaves the ticket without a landing or with one at its start.
LEMMA TicketStepShape ==
  ASSUME Shape, PhaseInv, NEW t \in Tickets, TicketStep(t)
  PROVE  /\ Shape' /\ PhaseInv' /\ Spares(t)
         /\ UNCHANGED <<hist, origin, index>>
         /\ head' = head \/ (Landing(t) /\ head' = "own")
         /\ tracking' = tracking \/ tracking' = origin
         /\ lpc'[t] \in {"idle", "fetch"}
         /\ state'[t] = "done" => state[t] = "done" \/ state[t] = "handed_off"
         /\ state'[t] = "handed_off" => state[t] = "handed_off"
         /\ state'[t] \in {"done", "handed_off"} => how'[t] = how[t] /\ branch'[t] = branch[t]
  <1> USE DEF checkout, repoVars, landVars
  <1>1. CASE Cut(t)
    <2>1. base'[t] \in Seq(Commits) /\ \A u \in Tickets \ {t} : base'[u] = base[u]
      <3>1. base' = [base EXCEPT ![t] = IF Remote THEN origin ELSE hist["target"]]
        BY <1>1 DEF Cut
      <3> QED BY <3>1, HistoryTypes DEF Shape
    <2>2. base' \in [Tickets -> Seq(Commits)]
      <3>1. base' = [base EXCEPT ![t] = IF Remote THEN origin ELSE hist["target"]]
        BY <1>1 DEF Cut
      <3> QED BY <3>1, HistoryTypes DEF Shape
    <2>3. /\ state' = [state EXCEPT ![t] = "review"] /\ branch' = [branch EXCEPT ![t] = TRUE]
          /\ UNCHANGED <<hist, origin, head, index, lpc, how, green, restore>>
          /\ tracking' = tracking \/ tracking' = origin
          /\ unseen' \in [Tickets -> SUBSET Changes]
          /\ state[t] = "ready"
      BY <1>1, RunFetchesShape DEF Cut
    <2>4. lpc[t] = "idle"
      BY <2>3 DEF PhaseInv
    <2>5. Shape'
      BY <2>2, <2>3 DEF Shape
    <2>6. PhaseInv'
      BY <2>3, <2>4 DEF PhaseInv, Shape
    <2> QED BY <2>1, <2>3, <2>4, <2>5, <2>6 DEF Spares, Shape
  <1>2. CASE Rework(t) \/ SendBack(t) \/ Recover(t) \/ MarkMerged(t)
    <2>1. /\ UNCHANGED <<hist, origin, head, index, branch, base, lpc, how, green, restore>>
          /\ tracking' = tracking \/ tracking' = origin
          /\ unseen' \in [Tickets -> SUBSET Changes]
      BY <1>2, RunFetchesShape DEF Rework, SendBack, Recover, MarkMerged, Shape
    <2>2. \/ state[t] = "ready" /\ branch[t] /\ state' = [state EXCEPT ![t] = "review"]
          \/ state[t] \in {"review", "needs_you"} /\ state' = [state EXCEPT ![t] = "ready"]
          \/ state[t] = "landing" /\ lpc[t] = "idle" /\ state' = [state EXCEPT ![t] = "needs_you"]
          \/ state[t] = "handed_off" /\ state' = [state EXCEPT ![t] = "done"]
      BY <1>2 DEF Rework, SendBack, Recover, MarkMerged, Landing
    <2>3. lpc[t] = "idle"
      BY <2>2 DEF PhaseInv
    <2>4. Shape'
      BY <2>1, <2>2 DEF Shape
    <2>5. PhaseInv'
      BY <2>1, <2>2, <2>3 DEF PhaseInv, Shape
    <2> QED BY <2>1, <2>2, <2>3, <2>4, <2>5 DEF Spares, Shape
  <1>3. CASE Reject(t)
    <2>1. /\ UNCHANGED <<hist, origin, tracking, head, index, base, lpc, how, green, restore, unseen>>
          /\ state[t] \in {"ready", "review", "needs_you"}
          /\ state' = [state EXCEPT ![t] = "rejected"]
          /\ branch' = [branch EXCEPT ![t] = FALSE]
      BY <1>3 DEF Reject
    <2>2. lpc[t] = "idle"
      BY <2>1 DEF PhaseInv
    <2>3. Shape'
      BY <2>1 DEF Shape
    <2>4. PhaseInv'
      BY <2>1, <2>2 DEF PhaseInv, Shape
    <2> QED BY <2>1, <2>2, <2>3, <2>4 DEF Spares, Shape
  <1>4. CASE Approve(t)
    <2>1. /\ UNCHANGED <<hist, origin, tracking, head, index, branch, base, restore>>
          /\ state[t] \in {"review", "needs_you"} /\ lpc[t] = "idle"
          /\ state' = [state EXCEPT ![t] = "landing"]
          /\ lpc' = [lpc EXCEPT ![t] = "fetch"]
          /\ UNCHANGED <<green, unseen>>
      BY <1>4 DEF Approve, Landing, goto
    <2>2. PICK a \in {"push", "local", "hand_off"} : how' = [how EXCEPT ![t] = a]
      BY <1>4, ApprovalAssumption DEF Approve
    <2>3. Shape'
      BY <2>1, <2>2 DEF Shape, Steps
    <2>4. PhaseInv'
      BY <2>1 DEF PhaseInv, Shape
    <2> QED BY <2>1, <2>2, <2>3, <2>4 DEF Spares, Shape
  <1>5. CASE Die(t) \/ Cancel(t)
    <2>1. /\ Landing(t)
          /\ UNCHANGED <<hist, origin, tracking, index, branch, base, how>>
          /\ lpc' = [lpc EXCEPT ![t] = "idle"]
          /\ restore' = [restore EXCEPT ![t] = FALSE]
          /\ green' = [green EXCEPT ![t] = {}] /\ unseen' = [unseen EXCEPT ![t] = {}]
          /\ head' = head \/ head' = "own"
          /\ state' = state \/ state' = [state EXCEPT ![t] = @]
             \/ state' = [state EXCEPT ![t] = Parked(@)]
      BY <1>5 DEF Die, Cancel, CutShort, goto
    <2>2. Shape'
      <3>1. green' \in [Tickets -> SUBSET Changes] /\ unseen' \in [Tickets -> SUBSET Changes]
        BY <2>1 DEF Shape
      <3>2. /\ lpc' \in [Tickets -> Steps] /\ restore' \in [Tickets -> BOOLEAN]
            /\ head' \in Branches
            /\ state' \in [Tickets -> {"ready", "review", "landing", "handed_off", "needs_you",
                                       "done", "rejected"}]
        BY <2>1 DEF Shape, Steps, Branches, Parked
      <3> QED BY <2>1, <3>1, <3>2 DEF Shape
    <2>3. PhaseInv'
      BY <2>1 DEF PhaseInv, Shape, Parked
    <2>4. Spares(t)
      BY <2>1 DEF Spares, Shape
    <2>5. /\ lpc'[t] = "idle"
          /\ state'[t] \in {"done", "handed_off"} => state'[t] = state[t]
      BY <2>1 DEF Shape, Parked
    <2> QED BY <2>1, <2>2, <2>3, <2>4, <2>5
  <1>6. CASE OwnerRebases(t)
    <2>1. /\ UNCHANGED <<state, hist, origin, tracking, head, index, branch, landVars>>
          /\ base' = [base EXCEPT ![t] = TargetRef]
          /\ state[t] = "needs_you"
      BY <1>6 DEF OwnerRebases
    <2>2. base' \in [Tickets -> Seq(Commits)] /\ \A u \in Tickets \ {t} : base'[u] = base[u]
      BY <2>1, HistoryTypes DEF Shape
    <2>3. lpc[t] = "idle"
      BY <2>1 DEF PhaseInv
    <2>4. Shape'
      BY <2>1, <2>2 DEF Shape
    <2>5. PhaseInv'
      BY <2>1 DEF PhaseInv
    <2> QED BY <2>1, <2>2, <2>3, <2>4, <2>5 DEF Spares
  <1> QED BY <1>1, <1>2, <1>3, <1>4, <1>5, <1>6 DEF TicketStep

(***************************************************************************)
(* The histories stay tidy and only grow.                                   *)
(***************************************************************************)

\* The target is tidy here and on origin, what was fetched is on origin, and what is
\* staged on the target is not on it yet.
TidyInv ==
  /\ Tidy(hist["target"], Untouched) /\ Tidy(origin, Untouched) /\ Tidy(tracking, Untouched)
  /\ Tree(tracking) \subseteq Tree(origin)
  /\ head = "target" => \A u \in Tickets : u \in index => u \notin Tree(hist["target"])

\* No history loses a change.
Grows ==
  /\ Tree(hist["target"]) \subseteq Tree(hist'["target"])
  /\ Tree(origin) \subseteq Tree(origin')
  /\ Tree(tracking) \subseteq Tree(tracking')

\* What the owner may do to a checkout in use: edit, and commit what is there.
OwnersHand ==
  /\ head' = head
  /\ \/ hist' = hist /\ (index' = index \/ index' = index \cup {Edit})
     \/ /\ index' = {}
        /\ IF head = "target" THEN Tree(hist'["target"]) = Tree(hist["target"]) \cup index
                              ELSE hist'["target"] = hist["target"]
  /\ Untouched => UNCHANGED <<hist, index>>

\* An owner's commit keeps the target tidy and adds what was staged, if it is on the
\* target at all.
LEMMA OwnerCommitsShape ==
  ASSUME SameRepo, Shape, TidyInv, OwnerCommits
  PROVE  Shape' /\ TidyInv' /\ Grows /\ OwnersHand
  <1> USE DEF SameRepo, checkout, repoVars, landVars, Others
  <1> DEFINE c == [by |-> Edit, changes |-> index]
  <1>1. /\ UNCHANGED <<state, branch, base, lpc, how, green, restore, origin, tracking, head>>
        /\ index' = {} /\ Meanwhile(index) /\ ~Untouched
        /\ hist' = [hist EXCEPT ![head] = Append(hist[head], c)]
    BY DEF OwnerCommits
  <1>2. c \in Commits /\ c.by = Edit /\ c.changes = index
    BY DEF Commits, Shape
  <1> HIDE DEF c
  <1>3. hist[head] \in Seq(Commits) /\ head \in Branches /\ hist["target"] \in Seq(Commits)
    BY HistoryTypes DEF Shape
  <1>4. /\ Append(hist[head], c) \in Seq(Commits)
        /\ Tree(Append(hist[head], c)) = Tree(hist[head]) \cup index
    BY <1>2, <1>3, TreeAppend
  <1>5. hist' \in [Branches -> Seq(Commits)]
    <2> HIDE DEF Commits
    <2> QED BY <1>1, <1>3, <1>4 DEF Shape
  <1>6. unseen' \in [Tickets -> SUBSET Changes]
    BY <1>1, MeanwhileType DEF Shape
  <1>7. Shape'
    BY <1>1, <1>5, <1>6 DEF Shape
  <1>8. OwnersHand /\ Tree(hist["target"]) \subseteq Tree(hist'["target"])
    BY <1>1, <1>3, <1>4 DEF OwnersHand, Shape, Branches
  <1>9. Tidy(hist'["target"], Untouched)
    <2>1. CASE head = "target"
      <3>1. \A u \in Tickets : u \in c.changes => u \notin Tree(hist["target"])
        BY <1>2, <2>1 DEF TidyInv
      <3>2. Tidy(Append(hist["target"], c), Untouched)
        BY <1>1, <1>2, <1>3, <3>1, TidyAppend DEF TidyInv
      <3> QED BY <1>1, <1>3, <2>1, <3>2 DEF Shape
    <2>2. CASE head # "target"
      BY <1>1, <1>3, <2>2 DEF Shape, TidyInv, Branches
    <2> QED BY <2>1, <2>2
  <1>10. TidyInv' /\ Grows
    BY <1>1, <1>8, <1>9 DEF TidyInv, Grows
  <1> QED BY <1>7, <1>8, <1>10

\* Everybody else leaves the tickets alone and keeps the histories tidy; while a
\* landing is under way they touch the main checkout at most by the owner's hand.
LEMMA WorldStepShape ==
  ASSUME SameRepo, Shape, TidyInv, WorldStep
  PROVE  /\ Shape' /\ TidyInv' /\ Grows
         /\ UNCHANGED <<state, branch, base, lpc, how, green, restore>>
         /\ ~Quiet => OwnersHand
  <1> USE DEF SameRepo, checkout, repoVars, landVars, Others
  <1>1. CASE UpstreamPush
    <2>1. PICK u \in Upstream : origin' = Append(origin, [by |-> u, changes |-> {u}])
      BY <1>1 DEF UpstreamPush
    <2>2. /\ UNCHANGED <<state, branch, base, lpc, how, green, restore, hist, tracking, head, index>>
          /\ UNCHANGED unseen
      BY <1>1 DEF UpstreamPush
    <2> DEFINE c == [by |-> u, changes |-> {u}]
    <2>3. c \in Commits /\ c.by = u /\ c.changes = {u} /\ u \notin Tickets
      BY ChangesAssumption DEF Commits, Changes
    <2>4. origin' = Append(origin, c)
      BY <2>1
    <2> HIDE DEF c
    <2>5. origin \in Seq(Commits) /\ Tidy(origin, Untouched)
      BY DEF Shape, TidyInv
    <2>6. origin' \in Seq(Commits) /\ Tree(origin') = Tree(origin) \cup {u}
      BY <2>3, <2>4, <2>5, TreeAppend
    <2>7. Tidy(origin', Untouched)
      BY <2>3, <2>4, <2>5, TidyAppend
    <2>8. TidyInv'
      BY <2>2, <2>6, <2>7 DEF TidyInv
    <2>9. Grows
      BY <2>2, <2>6 DEF Grows
    <2>10. Shape'
      BY <2>2, <2>6 DEF Shape
    <2> QED BY <2>2, <2>8, <2>9, <2>10 DEF OwnersHand
  <1>2. CASE FetchByRun
    <2>1. /\ UNCHANGED <<state, branch, base, lpc, how, green, restore, hist, origin, head, index>>
          /\ tracking' = origin
          /\ unseen' \in [Tickets -> SUBSET Changes]
      BY <1>2, RunFetchesShape DEF FetchByRun, RunFetches
    <2> QED BY <2>1 DEF Shape, TidyInv, Grows, OwnersHand
  <1>3. CASE OwnerEdits \/ OwnerTidies \/ OwnerSwitches
    <2>1. /\ UNCHANGED <<state, branch, base, lpc, how, green, restore, hist, origin, tracking>>
          /\ \/ index' = index \cup {Edit} /\ head' = head
             \/ Quiet /\ index' = {} /\ head' \in Branches
          /\ Untouched /\ ~Quiet => index' = index
      BY <1>3 DEF OwnerEdits, OwnerTidies, OwnerSwitches, Shape
    <2>2. index' \subseteq Changes /\ Edit \notin Tickets
      BY <2>1, ChangesAssumption DEF Shape, Changes, Edit
    <2>3. unseen' \in [Tickets -> SUBSET Changes]
      <3>1. {Edit} \in SUBSET Changes
        BY DEF Changes
      <3> QED BY <1>3, <3>1, MeanwhileType DEF OwnerEdits, OwnerTidies, OwnerSwitches, Shape
    <2>4. Shape'
      BY <2>1, <2>2, <2>3 DEF Shape
    <2> QED BY <2>1, <2>2, <2>4 DEF TidyInv, Grows, OwnersHand
  <1>4. CASE OwnerPushes
    <2>1. /\ UNCHANGED <<state, branch, base, lpc, how, green, restore, hist, head, index>>
          /\ origin' = hist["target"] /\ tracking' = origin'
          /\ Extends(hist["target"], origin)
      BY <1>4 DEF OwnerPushes
    <2>2. hist["target"] \in Seq(Commits) /\ origin \in Seq(Commits)
      BY HistoryTypes DEF Shape
    <2>3. Tree(origin) \subseteq Tree(hist["target"])
      BY <2>1, <2>2, TreeExtends
    <2>4. Grows
      BY <2>1, <2>3 DEF Grows, TidyInv
    <2>5. UNCHANGED unseen /\ Quiet
      BY <1>4 DEF OwnerPushes
    <2> QED BY <2>1, <2>2, <2>4, <2>5 DEF Shape, TidyInv
  <1>5. CASE OwnerCommits
    <2>1. UNCHANGED <<state, branch, base, lpc, how, green, restore>>
      BY <1>5 DEF OwnerCommits
    <2> QED BY <1>5, <2>1, OwnerCommitsShape
  <1> QED BY <1>1, <1>2, <1>3, <1>4, <1>5 DEF WorldStep

(***************************************************************************)
(* What a landing has established at each of its steps, with no other       *)
(* landing beside it.                                                       *)
(***************************************************************************)

\* At most one landing is under way.
Alone == \A t, u \in Tickets : Landing(t) /\ Landing(u) => t = u

\* What holds of the repository while a landing is at a step.
LandInv(t) ==
  /\ lpc[t] \in {"checkout", "forward", "stage", "push"} =>
       index \subseteq {Edit} /\ (Untouched => index = {})
  /\ lpc[t] \in {"forward", "stage", "commit", "push"} => head = "target"
  /\ lpc[t] \in {"validate", "handoff", "squash", "checkout", "forward"} =>
       Tree(base[t]) \subseteq Tree(TargetRef)
  /\ lpc[t] \in {"stage", "commit"} => Tree(base[t]) \subseteq Tree(hist["target"])
  /\ lpc[t] = "commit" =>
       /\ t \in index \cup Tree(hist["target"])
       /\ index \subseteq {t, Edit} /\ (Untouched => index \subseteq {t})
  /\ lpc[t] \in {"push", "landed", "remove"} => t \in Tree(hist["target"])
  /\ lpc[t] \in {"landed", "remove"} /\ how[t] = "push" /\ Remote => t \in Tree(origin)
  /\ lpc[t] = "handoff" => how[t] = "hand_off"

\* What holds of a ticket that has left its landing behind.
EndInv(t) ==
  /\ state[t] = "handed_off" => how[t] = "hand_off"
  /\ state[t] = "done" /\ how[t] # "hand_off" =>
       /\ t \in Tree(hist["target"])
       /\ how[t] = "push" /\ Remote => t \in Tree(origin)
  /\ state[t] = "done" => branch[t] \/ t \in Tree(hist["target"])

\* Somebody else's step disturbs no landing.
LEMMA Undisturbed ==
  ASSUME SameRepo, Shape, NEW t \in Tickets, LandInv(t), Grows,
         lpc'[t] = lpc[t], base'[t] = base[t], how'[t] = how[t], lpc[t] # "idle" => OwnersHand
  PROVE  LandInv(t)'
  <1> USE DEF SameRepo
  <1>1. Tree(TargetRef) \subseteq Tree(TargetRef')
    BY DEF TargetRef, Grows
  <1> QED BY <1>1 DEF LandInv, Grows, OwnersHand

\* What a ticket has reached stays reached as the histories grow.
LEMMA EndStands ==
  ASSUME SameRepo, NEW t \in Tickets, EndInv(t), Grows,
         state'[t] = state[t], how'[t] = how[t], branch'[t] = branch[t]
  PROVE  EndInv(t)'
  BY DEF EndInv, Grows, SameRepo

\* What a landing's own step must keep.
Kept(t) ==
  /\ PhaseInv' /\ TidyInv' /\ Grows
  /\ LandInv(t)' /\ EndInv(t)'

\* The phases of the tickets after a landing's step, when the other tickets are spared.
LEMMA PhasesKept ==
  ASSUME PhaseInv, NEW t \in Tickets, Spares(t),
         lpc'[t] \notin {"idle", "remove"} => state'[t] = "landing",
         lpc'[t] = "remove" => state'[t] = "done",
         state'[t] \in {"review", "landing", "handed_off", "needs_you"} => branch'[t]
  PROVE  PhaseInv'
  BY DEF PhaseInv, Spares

\* A landing that parks leaves its ticket to the human with its branch, and
\* nothing more is asked of it.
LEMMA ParkKeeps ==
  ASSUME SameRepo, Shape, PhaseInv, TidyInv', Grows, NEW t \in Tickets, Spares(t),
         Landing(t), lpc[t] # "remove", Park(t), branch' = branch
  PROVE  Kept(t)
  <1> USE DEF SameRepo
  <1>1. state[t] = "landing" /\ branch[t]
    BY DEF PhaseInv, Landing
  <1>2. lpc'[t] = "idle" /\ state'[t] = "needs_you"
    BY <1>1 DEF Park, Parked, goto, Shape
  <1>3. PhaseInv'
    BY <1>1, <1>2, PhasesKept
  <1>4. LandInv(t)' /\ EndInv(t)'
    BY <1>2 DEF LandInv, EndInv
  <1> QED BY <1>3, <1>4 DEF Kept

\* The changes of the owner and of git are not tickets, nor each other.
LEMMA Marks == Edit \notin Tickets /\ Unmerged \notin Tickets /\ Edit # Unmerged
  BY ChangesAssumption DEF Edit, Unmerged

\* A landing in its ticket's worktree keeps what it has established (Lander.land
\* up to the squash).
LEMMA WorktreeStepKeeps ==
  ASSUME SameRepo, Shape, PhaseInv, TidyInv, NEW t \in Tickets, LandInv(t), EndInv(t), WorktreeStep(t)
  PROVE  Kept(t)
  <1> USE DEF SameRepo
  <1>1. /\ Shape' /\ Spares(t)
        /\ UNCHANGED <<hist, origin, branch, head, index, how, restore>>
    BY WorktreeStepShape
  <1>2. tracking' = tracking \/ tracking' = origin
    BY DEF WorktreeStep, Fetch, CheckClean, Rebase, Validate, HandOff, repoVars
  <1>3. TidyInv' /\ Grows
    BY <1>1, <1>2 DEF TidyInv, Grows
  <1>4. lpc[t] \in {"fetch", "clean", "rebase", "validate", "handoff"}
    BY DEF WorktreeStep, Fetch, CheckClean, Rebase, Validate, HandOff
  <1>5. state[t] = "landing" /\ branch[t]
    BY <1>4 DEF PhaseInv
  <1>6. CASE Park(t)
    BY <1>1, <1>3, <1>4, <1>6, ParkKeeps DEF Landing
  <1>7. CASE Fetch(t) /\ ~Park(t)
    <2>1. lpc'[t] = "clean" /\ state' = state
      BY <1>7 DEF Fetch, goto, Shape
    <2>2. PhaseInv'
      BY <1>1, <1>5, <2>1, PhasesKept
    <2>3. LandInv(t)' /\ EndInv(t)'
      BY <1>5, <2>1 DEF LandInv, EndInv
    <2> QED BY <1>3, <2>2, <2>3 DEF Kept
  <1>8. CASE CheckClean(t) /\ ~Park(t)
    <2>1. lpc'[t] = "rebase" /\ state' = state
      BY <1>8 DEF CheckClean, goto, Shape
    <2>2. PhaseInv'
      BY <1>1, <1>5, <2>1, PhasesKept
    <2>3. LandInv(t)' /\ EndInv(t)'
      BY <1>5, <2>1 DEF LandInv, EndInv
    <2> QED BY <1>3, <2>2, <2>3 DEF Kept
  <1>9. CASE Rebase(t) /\ ~Park(t)
    <2>1. lpc'[t] = "validate" /\ state' = state /\ base'[t] = TargetRef /\ tracking' = tracking
      BY <1>9 DEF Rebase, goto, Shape
    <2>2. PhaseInv'
      BY <1>1, <1>5, <2>1, PhasesKept
    <2>3. TargetRef' = TargetRef
      BY <1>1, <2>1 DEF TargetRef
    <2>4. LandInv(t)' /\ EndInv(t)'
      BY <1>5, <2>1, <2>3 DEF LandInv, EndInv
    <2> QED BY <1>3, <2>2, <2>4 DEF Kept
  <1>10. CASE Validate(t) /\ ~Park(t)
    <2>1. /\ lpc'[t] = IF how[t] = "hand_off" THEN "handoff" ELSE "squash"
          /\ state' = state /\ UNCHANGED <<base, tracking>> /\ lpc[t] = "validate"
      BY <1>10 DEF Validate, goto, Shape, repoVars
    <2>2. PhaseInv'
      BY <1>1, <1>5, <2>1, PhasesKept
    <2>3. TargetRef' = TargetRef
      BY <1>1, <2>1 DEF TargetRef
    <2>4. LandInv(t)'
      BY <1>1, <2>1, <2>3 DEF LandInv
    <2>5. EndInv(t)'
      BY <1>5, <2>1 DEF EndInv
    <2> QED BY <1>3, <2>2, <2>4, <2>5 DEF Kept
  <1>11. CASE HandOff(t)
    <2>1. lpc[t] = "handoff" /\ lpc'[t] = "idle" /\ state'[t] = "handed_off"
      BY <1>5, <1>11 DEF HandOff, goto, Shape
    <2>2. PhaseInv'
      BY <1>1, <1>5, <2>1, PhasesKept
    <2>3. LandInv(t)' /\ EndInv(t)'
      BY <1>1, <2>1 DEF LandInv, EndInv
    <2> QED BY <1>3, <2>2, <2>3 DEF Kept
  <1> QED BY <1>6, <1>7, <1>8, <1>9, <1>10, <1>11 DEF WorktreeStep

\* A landing that squashes, commits, pushes and cleans up keeps what it has
\* established (SquashMerge, and Lander.land from there on).
LEMMA SquashStepKeeps ==
  ASSUME SameRepo, Shape, PhaseInv, TidyInv, NEW t \in Tickets, LandInv(t), EndInv(t), SquashStep(t)
  PROVE  Kept(t)
  <1> USE DEF SameRepo
  <1> USE DEF checkout, repoVars
  <1>1. Shape' /\ Spares(t) /\ UNCHANGED <<base, how>>
    BY SquashStepShape
  <1>2. lpc[t] \in {"squash", "checkout", "forward", "stage", "commit", "push", "landed", "remove"}
    BY DEF SquashStep, Squash, Checkout, Forward, Stage, Commit, Push, Landed, Remove
  <1>3. lpc[t] # "remove" => state[t] = "landing" /\ branch[t]
    BY <1>2 DEF PhaseInv
  <1>4. /\ hist["target"] \in Seq(Commits) /\ tracking \in Seq(Commits) /\ origin \in Seq(Commits)
        /\ Tree(hist["target"]) \subseteq Changes
    BY HistoryTypes DEF Shape
  <1>5. ASSUME UNCHANGED <<hist, origin, tracking>>
        PROVE  /\ Grows /\ TargetRef' = TargetRef
               /\ (head' = head \/ head' = "own") /\ (index' = index \/ index' = index \cup {Unmerged})
                    => TidyInv'
               /\ index' \subseteq {Edit} => TidyInv'
    BY <1>5, Marks DEF TidyInv, Grows, TargetRef
  <1>6. ASSUME Park(t), lpc[t] # "remove", UNCHANGED <<hist, origin, tracking, branch>>,
               head' = head \/ Return(t), index' = index \/ index' = index \cup {Unmerged}
        PROVE  Kept(t)
    <2>1. head' = head \/ head' = "own"
      BY <1>6, ReturnShape
    <2> QED BY <1>1, <1>2, <1>5, <1>6, <2>1, ParkKeeps DEF Landing
  <1>7. CASE Squash(t)
    <2>1. CASE Park(t)
      BY <1>6, <1>7, <2>1 DEF Squash
    <2>2. CASE ~Park(t)
      <3>1. /\ lpc[t] = "squash" /\ lpc'[t] = "checkout" /\ index = {}
            /\ UNCHANGED <<state, hist, origin, tracking, branch, index, head>>
        BY <1>7, <2>2 DEF Squash, TrackedChanges, goto, Shape
      <3>2. PhaseInv'
        BY <1>1, <1>3, <3>1, PhasesKept
      <3>3. LandInv(t)' /\ EndInv(t)'
        BY <1>1, <1>3, <1>5, <3>1 DEF LandInv, EndInv
      <3> QED BY <1>5, <3>1, <3>2, <3>3 DEF Kept
    <2> QED BY <2>1, <2>2
  <1>8. CASE Checkout(t)
    <2>1. CASE Park(t)
      <3>1. UNCHANGED <<hist, origin, tracking, branch, head, index>> /\ lpc[t] = "checkout"
        BY <1>8, <2>1 DEF Checkout, Park, goto, Shape
      <3> QED BY <1>6, <2>1, <3>1
    <2>2. CASE ~Park(t)
      <3>1. /\ lpc[t] = "checkout" /\ lpc'[t] = "forward" /\ head' = "target"
            /\ UNCHANGED <<state, hist, origin, tracking, branch, index>> /\ index \subseteq {Edit}
        BY <1>8, <2>2 DEF Checkout, goto, Shape, LandInv
      <3>2. PhaseInv'
        BY <1>1, <1>3, <3>1, PhasesKept
      <3>3. LandInv(t)' /\ EndInv(t)'
        BY <1>1, <1>3, <1>5, <3>1 DEF LandInv, EndInv
      <3> QED BY <1>5, <3>1, <3>2, <3>3 DEF Kept
    <2> QED BY <2>1, <2>2
  <1>9. CASE Forward(t)
    <2>1. /\ lpc[t] = "forward" /\ head = "target"
          /\ UNCHANGED <<origin, tracking, branch, index>>
      BY <1>9 DEF Forward, LandInv
    <2>2. CASE Park(t) /\ hist' = hist /\ Return(t)
      BY <1>6, <2>1, <2>2
    <2>3. CASE /\ ~Remote \/ Extends(hist["target"], tracking)
               /\ goto(t, "stage") /\ UNCHANGED <<hist, state, head>>
      <3>1. lpc'[t] = "stage"
        BY <2>3 DEF goto, Shape
      <3>2. Tree(base[t]) \subseteq Tree(hist["target"])
        <4>1. Tree(base[t]) \subseteq Tree(TargetRef)
          BY <2>1 DEF LandInv
        <4>2. CASE Remote
          <5>1. Tree(tracking) \subseteq Tree(hist["target"])
            BY <1>4, <2>3, <4>2, TreeExtends
          <5> QED BY <4>1, <4>2, <5>1 DEF TargetRef
        <4>3. CASE ~Remote
          BY <4>1, <4>3 DEF TargetRef
        <4> QED BY <4>2, <4>3
      <3>3. PhaseInv'
        BY <1>1, <1>3, <2>1, <2>3, <3>1, PhasesKept
      <3>4. LandInv(t)' /\ EndInv(t)'
        BY <1>1, <1>3, <2>1, <2>3, <3>1, <3>2 DEF LandInv, EndInv
      <3> QED BY <1>5, <2>1, <2>3, <3>3, <3>4 DEF Kept
    <2>4. CASE /\ Remote /\ Extends(tracking, hist["target"])
               /\ hist' = [hist EXCEPT !["target"] = tracking]
               /\ goto(t, "stage") /\ UNCHANGED <<state, head>>
      <3>1. lpc'[t] = "stage"
        BY <2>4 DEF goto, Shape
      <3>2. hist'["target"] = tracking /\ hist'["own"] = hist["own"]
        BY <2>4 DEF Shape, Branches
      <3>3. Tree(base[t]) \subseteq Tree(hist'["target"])
        BY <2>1, <2>4, <3>2 DEF LandInv, TargetRef
      <3>4. Tree(hist["target"]) \subseteq Tree(tracking)
        BY <1>4, <2>4, TreeExtends
      <3>5. TidyInv' /\ Grows
        BY <2>1, <3>2, <3>4, Marks DEF TidyInv, Grows, LandInv
      <3>6. PhaseInv'
        BY <1>1, <1>3, <2>1, <2>4, <3>1, PhasesKept
      <3>7. LandInv(t)' /\ EndInv(t)'
        BY <1>1, <1>3, <2>1, <2>4, <3>1, <3>3 DEF LandInv, EndInv
      <3> QED BY <3>5, <3>6, <3>7 DEF Kept
    <2> QED BY <1>9, <2>1, <2>2, <2>3, <2>4 DEF Forward
  <1>10. CASE Stage(t)
    <2>1. CASE Park(t)
      <3>1. /\ UNCHANGED <<hist, origin, tracking, branch>> /\ lpc[t] = "stage"
            /\ head' = head \/ Return(t)
            /\ index' = index \/ index' = index \cup {Unmerged}
        BY <1>10, <2>1 DEF Stage, Park, goto, Shape
      <3> QED BY <1>6, <2>1, <3>1
    <2>2. CASE ~Park(t)
      <3>1. /\ lpc[t] = "stage" /\ lpc'[t] = "commit" /\ head = "target"
            /\ index' = index \cup Work(t)
            /\ UNCHANGED <<state, hist, origin, tracking, branch, head>>
        BY <1>10, <2>2 DEF Stage, goto, Shape, LandInv
      <3>2. /\ index \subseteq {Edit} /\ (Untouched => index = {})
            /\ Tree(base[t]) \subseteq Tree(hist["target"])
        BY <3>1 DEF LandInv
      <3>3. Work(t) = {t} \ Tree(hist["target"])
        BY <3>1, <3>2 DEF Work
      <3>4. Grows /\ TidyInv'
        <4>1. Grows
          BY <3>1 DEF Grows
        <4>2. \A u \in Tickets : u \in index' => u \notin Tree(hist["target"])
          BY <3>1, <3>2, <3>3, Marks
        <4> QED BY <3>1, <4>1, <4>2 DEF TidyInv
      <3>5. PhaseInv'
        BY <1>1, <1>3, <3>1, PhasesKept
      <3>6. LandInv(t)'
        BY <1>1, <3>1, <3>2, <3>3 DEF LandInv
      <3>7. EndInv(t)'
        BY <1>3, <3>1 DEF EndInv
      <3> QED BY <3>4, <3>5, <3>6, <3>7 DEF Kept
    <2> QED BY <2>1, <2>2
  <1>11. CASE Commit(t)
    <2>1. CASE ~Committable
      BY <1>6, <1>11, <2>1 DEF Commit
    <2>2. CASE Committable
      <3> DEFINE c == [by |-> t, changes |-> index]
      <3>1. /\ lpc[t] = "commit" /\ lpc'[t] = "push" /\ head = "target"
            /\ hist' = [hist EXCEPT !["target"] = Append(hist["target"], c)]
            /\ UNCHANGED <<state, head, origin, tracking, branch>> /\ index' = {}
        BY <1>11, <2>2 DEF Commit, goto, Shape, LandInv
      <3>2. c \in Commits /\ c.by = t /\ c.changes = index
        BY CommitType
      <3> HIDE DEF c
      <3>3. hist'["target"] = Append(hist["target"], c) /\ hist'["own"] = hist["own"]
        BY <3>1 DEF Shape, Branches
      <3>4. Tree(hist'["target"]) = Tree(hist["target"]) \cup index
        BY <1>4, <3>2, <3>3, TreeAppend
      <3>5. /\ t \in index \cup Tree(hist["target"])
            /\ \A u \in Tickets : u \in index => u \notin Tree(hist["target"])
            /\ Untouched => index = {t}
        BY <2>2, <3>1 DEF LandInv, Committable, TidyInv
      <3>6. Tidy(hist'["target"], Untouched)
        <4>1. Tidy(hist["target"], Untouched)
          BY DEF TidyInv
        <4>2. \A u \in Tickets : u \in c.changes => u \notin Tree(hist["target"])
          BY <3>2, <3>5
        <4>3. Untouched => c.changes = {c.by}
          BY <3>2, <3>5
        <4> QED BY <1>4, <3>2, <3>3, <4>1, <4>2, <4>3, TidyAppend
      <3>7. TidyInv' /\ Grows
        BY <3>1, <3>3, <3>4, <3>6 DEF TidyInv, Grows
      <3>8. PhaseInv'
        BY <1>1, <1>3, <3>1, PhasesKept
      <3>9. LandInv(t)' /\ EndInv(t)'
        BY <1>3, <3>1, <3>4, <3>5 DEF LandInv, EndInv
      <3> QED BY <3>7, <3>8, <3>9 DEF Kept
    <2> QED BY <2>1, <2>2
  <1>12. CASE Push(t)
    <2>1. /\ lpc[t] = "push" /\ t \in Tree(hist["target"]) /\ UNCHANGED <<hist, branch, index>>
          /\ index \subseteq {Edit} /\ Return(t)
      BY <1>12 DEF Push, LandInv
    <2>2. CASE Park(t)
      BY <1>6, <1>12, <2>1, <2>2 DEF Push, goto, Park, Shape
    <2>3. CASE /\ how[t] # "push" \/ ~Remote
               /\ goto(t, "landed") /\ UNCHANGED <<state, origin, tracking>>
      <3>1. lpc'[t] = "landed"
        BY <2>3 DEF goto, Shape
      <3>2. PhaseInv'
        BY <1>1, <1>3, <2>1, <2>3, <3>1, PhasesKept
      <3>3. LandInv(t)' /\ EndInv(t)'
        BY <1>1, <1>3, <2>1, <2>3, <3>1 DEF LandInv, EndInv
      <3> QED BY <1>5, <2>1, <2>3, <3>2, <3>3 DEF Kept
    <2>4. CASE /\ Extends(hist["target"], origin)
               /\ origin' = hist["target"] /\ tracking' = origin'
               /\ goto(t, "landed") /\ state' = state
      <3>1. lpc'[t] = "landed"
        BY <2>4 DEF goto, Shape
      <3>2. Tree(origin) \subseteq Tree(hist["target"])
        BY <1>4, <2>4, TreeExtends
      <3>3. TidyInv' /\ Grows
        BY <2>1, <2>4, <3>2, Marks DEF TidyInv, Grows
      <3>4. PhaseInv'
        BY <1>1, <1>3, <2>1, <2>4, <3>1, PhasesKept
      <3>5. LandInv(t)' /\ EndInv(t)'
        BY <1>3, <2>1, <2>4, <3>1 DEF LandInv, EndInv
      <3> QED BY <3>3, <3>4, <3>5 DEF Kept
    <2> QED BY <1>12, <2>2, <2>3, <2>4 DEF Push, Rejected
  <1>13. CASE Landed(t)
    <2>1. /\ lpc[t] = "landed" /\ state[t] = "landing" /\ branch[t]
          /\ lpc'[t] = "remove" /\ state'[t] = "done"
          /\ UNCHANGED <<hist, origin, tracking, branch, head, index>>
      BY <1>3, <1>13 DEF Landed, goto, Shape
    <2>2. PhaseInv'
      BY <1>1, <2>1, PhasesKept
    <2>3. LandInv(t)' /\ EndInv(t)'
      BY <1>1, <2>1 DEF LandInv, EndInv
    <2> QED BY <1>5, <2>1, <2>2, <2>3 DEF Kept
  <1>14. CASE Remove(t)
    <2>1. /\ lpc[t] = "remove" /\ state[t] = "done" /\ t \in Tree(hist["target"])
          /\ lpc'[t] = "idle" /\ UNCHANGED <<state, hist, origin, tracking, head, index>>
      BY <1>14 DEF Remove, goto, Shape, PhaseInv, LandInv
    <2>2. PhaseInv'
      BY <1>1, <2>1, PhasesKept
    <2>3. LandInv(t)' /\ EndInv(t)'
      BY <1>1, <2>1 DEF LandInv, EndInv
    <2> QED BY <1>5, <2>1, <2>2, <2>3 DEF Kept
  <1> QED BY <1>7, <1>8, <1>9, <1>10, <1>11, <1>12, <1>13, <1>14 DEF SquashStep

(***************************************************************************)
(* The inductive invariant.                                                 *)
(***************************************************************************)
IInv ==
  /\ Shape /\ PhaseInv /\ TidyInv /\ Alone
  /\ \A t \in Tickets : LandInv(t) /\ EndInv(t)

\* Approvals one at a time keep landings one at a time.
LEMMA AloneInductive ==
  ASSUME OneAtATime, Shape, TidyInv, PhaseInv, Alone, [Next]_vars
  PROVE  Alone'
  <1> USE DEF checkout, repoVars, landVars
  <1>1. ASSUME \A u \in Tickets : Landing(u)' => Landing(u)
        PROVE  Alone'
    BY <1>1 DEF Alone
  <1>2. CASE UNCHANGED lpc
    BY <1>1, <1>2 DEF Landing
  <1>3. ASSUME NEW t \in Tickets, TicketStep(t)
        PROVE  Alone'
    <2>1. CASE Approve(t)
      <3>1. \A u \in Tickets : ~Landing(u)
        BY <2>1 DEF Approve, MayBegin
      <3>2. \A u \in Tickets : Landing(u)' => u = t
        BY <2>1, <3>1 DEF Approve, goto, Landing, Shape
      <3> QED BY <3>2 DEF Alone
    <2>2. CASE Die(t) \/ Cancel(t)
      <3>1. \A u \in Tickets : Landing(u)' => Landing(u)
        BY <2>2 DEF Die, Cancel, CutShort, goto, Landing, Shape
      <3> QED BY <1>1, <3>1
    <2>3. CASE ~Approve(t) /\ ~Die(t) /\ ~Cancel(t)
      <3>1. UNCHANGED lpc
        BY <1>3, <2>3 DEF TicketStep, Cut, Rework, SendBack, Reject, MarkMerged, Recover, OwnerRebases
      <3> QED BY <1>2, <3>1
    <2> QED BY <2>1, <2>2, <2>3
  <1>4. ASSUME NEW t \in Tickets, WorktreeStep(t) \/ SquashStep(t)
        PROVE  Alone'
    <2>1. Landing(t)
      BY <1>4 DEF Landing, WorktreeStep, SquashStep, Fetch, CheckClean, Rebase, Validate, HandOff,
                  Squash, Checkout, Forward, Stage, Commit, Push, Landed, Remove
    <2>2. Spares(t)
      BY <1>4, WorktreeStepShape, SquashStepShape
    <2>3. \A u \in Tickets : Landing(u)' => Landing(u)
      BY <2>1, <2>2 DEF Spares, Landing
    <2> QED BY <1>1, <2>3
  <1>5. CASE WorldStep
    BY <1>2, <1>5, WorldStepShape, RepoStays
  <1>6. CASE UNCHANGED vars
    BY <1>2, <1>6 DEF vars
  <1> QED BY <1>3, <1>4, <1>5, <1>6, NextCases

\* A ticket outside its landing carries what it reached with it.
LEMMA TicketStepKeeps ==
  ASSUME SameRepo, Shape, PhaseInv, TidyInv, NEW t \in Tickets, TicketStep(t), EndInv(t)
  PROVE  TidyInv' /\ Grows /\ LandInv(t)' /\ EndInv(t)'
  <1> USE DEF SameRepo
  <1>1. /\ UNCHANGED <<hist, origin, index>>
        /\ head' = head \/ head' = "own"
        /\ tracking' = tracking \/ tracking' = origin
        /\ lpc'[t] \in {"idle", "fetch"}
        /\ state'[t] = "done" => state[t] = "done" \/ state[t] = "handed_off"
        /\ state'[t] = "handed_off" => state[t] = "handed_off"
        /\ state'[t] \in {"done", "handed_off"} => how'[t] = how[t] /\ branch'[t] = branch[t]
    BY TicketStepShape
  <1>2. TidyInv' /\ Grows
    BY <1>1 DEF TidyInv, Grows
  <1>3. LandInv(t)'
    BY <1>1 DEF LandInv
  <1>4. state[t] = "handed_off" => branch[t]
    BY DEF PhaseInv
  <1>5. EndInv(t)'
    BY <1>1, <1>4 DEF EndInv
  <1> QED BY <1>2, <1>3, <1>5

\* Every step keeps the inductive invariant.
LEMMA IInvInductive ==
  ASSUME OneAtATime, IInv, [Next]_vars
  PROVE  IInv'
  <1> USE DEF IInv
  <1> SameRepo
    BY RepoStays
  <1>1. Alone'
    BY AloneInductive
  <1>2. CASE UNCHANGED vars
    BY <1>2 DEF vars, repoVars, checkout, landVars, Shape, PhaseInv, TidyInv, Alone,
                Landing, LandInv, EndInv, TargetRef, SameRepo
  <1>3. CASE WorldStep
    <2>1. /\ Shape' /\ TidyInv' /\ Grows
          /\ UNCHANGED <<state, branch, base, lpc, how, green, restore>>
          /\ ~Quiet => OwnersHand
      BY <1>3, WorldStepShape
    <2>2. PhaseInv'
      BY <2>1 DEF PhaseInv
    <2>3. ASSUME NEW t \in Tickets
          PROVE  LandInv(t)' /\ EndInv(t)'
      <3>1. lpc[t] # "idle" => ~Quiet
        BY DEF Quiet, Landing
      <3>2. EndInv(t)'
        BY <2>1, EndStands
      <3>3. LandInv(t)'
        BY <2>1, <3>1, Undisturbed
      <3> QED BY <3>2, <3>3
    <2> QED BY <1>1, <2>1, <2>2, <2>3
  <1>4. ASSUME NEW t \in Tickets, TicketStep(t)
        PROVE  IInv'
    <2>1. /\ Shape' /\ PhaseInv' /\ Spares(t) /\ UNCHANGED <<hist, index>>
          /\ head' = head \/ Landing(t)
      BY <1>4, TicketStepShape
    <2>2. TidyInv' /\ Grows /\ LandInv(t)' /\ EndInv(t)'
      BY <1>4, TicketStepKeeps
    <2>3. ASSUME NEW u \in Tickets \ {t}
          PROVE  LandInv(u)' /\ EndInv(u)'
      <3>1. /\ state'[u] = state[u] /\ branch'[u] = branch[u] /\ base'[u] = base[u]
            /\ lpc'[u] = lpc[u] /\ how'[u] = how[u]
        BY <2>1 DEF Spares
      <3>2. EndInv(u)'
        BY <2>2, <3>1, EndStands
      <3>3. lpc[u] # "idle" => OwnersHand
        BY <2>1 DEF Alone, Landing, OwnersHand
      <3>4. LandInv(u)'
        BY <2>2, <3>1, <3>3, Undisturbed
      <3> QED BY <3>2, <3>4
    <2> QED BY <1>1, <2>1, <2>2, <2>3
  <1>5. ASSUME NEW t \in Tickets, WorktreeStep(t) \/ SquashStep(t)
        PROVE  IInv'
    <2>1. Shape' /\ Spares(t)
      BY <1>5, WorktreeStepShape, SquashStepShape
    <2>2. Kept(t)
      BY <1>5, WorktreeStepKeeps, SquashStepKeeps
    <2>3. Landing(t)
      BY <1>5 DEF Landing, WorktreeStep, SquashStep, Fetch, CheckClean, Rebase, Validate, HandOff,
                  Squash, Checkout, Forward, Stage, Commit, Push, Landed, Remove
    <2>4. ASSUME NEW u \in Tickets \ {t}
          PROVE  LandInv(u)' /\ EndInv(u)'
      <3>1. /\ state'[u] = state[u] /\ branch'[u] = branch[u]
            /\ lpc'[u] = lpc[u] /\ how'[u] = how[u]
        BY <2>1 DEF Spares
      <3>2. lpc'[u] = "idle"
        BY <2>3, <3>1 DEF Alone, Landing
      <3>3. EndInv(u)'
        BY <2>2, <3>1, EndStands DEF Kept
      <3>4. LandInv(u)'
        BY <3>2 DEF LandInv
      <3> QED BY <3>3, <3>4
    <2> QED BY <1>1, <2>1, <2>2, <2>4 DEF Kept
  <1> QED BY <1>2, <1>3, <1>4, <1>5, NextCases

\* Nothing has landed, nothing is landing.
LEMMA InitIInv ==
  ASSUME Init
  PROVE  IInv
  <1>1. /\ state = [t \in Tickets |-> "ready"] /\ hist = [b \in Branches |-> <<>>]
        /\ origin = <<>> /\ tracking = <<>>
        /\ branch = [t \in Tickets |-> FALSE] /\ base = [t \in Tickets |-> <<>>]
        /\ head \in Branches /\ index = {}
        /\ lpc = [t \in Tickets |-> "idle"] /\ how = [t \in Tickets |-> "none"]
        /\ green = [t \in Tickets |-> {}] /\ restore = [t \in Tickets |-> FALSE]
        /\ unseen = [t \in Tickets |-> {}]
    BY DEF Init
  <1>2. <<>> \in Seq(Commits) /\ Tidy(<<>>, Untouched)
    BY EmptySeq DEF Tidy, Once, Pure
  <1>3. Shape
    BY <1>1, <1>2 DEF Shape, Steps
  <1>4. PhaseInv /\ Alone
    BY <1>1 DEF PhaseInv, Alone, Landing
  <1>5. TidyInv
    <2>1. hist["target"] = <<>>
      BY <1>1 DEF Branches
    <2> QED BY <1>1, <1>2, <2>1 DEF TidyInv
  <1>6. \A t \in Tickets : LandInv(t) /\ EndInv(t)
    BY <1>1 DEF LandInv, EndInv
  <1> QED BY <1>3, <1>4, <1>5, <1>6 DEF IInv

\* However often a landing is cut short, parked, rejected and continued, a ticket
\* is squashed onto the target once, with nothing else in its commit as long as
\* nobody edits the checkout meanwhile (git.SquashMerge under agentrun.Lander).
THEOREM SquashedOnce ==
  ASSUME OneAtATime
  PROVE  Spec => []LandsItselfOnce
  <1>1. IInv => LandsItselfOnce
    BY DEF IInv, TidyInv, Tidy, LandsItselfOnce
  <1> QED BY <1>1, InitIInv, IInvInductive, PTL DEF Spec

\* Done by landing is merged, and pushed if that was approved, and work that is not
\* Done and not rejected is on its branch: no step of a landing, of its death or of
\* its owner loses work (agentrun.Lander.land and git.SquashMerge).
THEOREM NoWorkLost ==
  ASSUME OneAtATime
  PROVE  Spec => []DoneIsMergedElseKept
  <1>1. IInv => DoneIsMergedElseKept
    <2> SUFFICES ASSUME IInv PROVE DoneIsMerged /\ WorkKept
      BY DEF DoneIsMergedElseKept
    <2>1. DoneIsMerged
      BY DEF IInv, EndInv, DoneIsMerged
    <2>2. ASSUME NEW t \in Tickets
          PROVE  \/ state[t] \in {"ready", "rejected"} \/ branch[t]
                 \/ \E b \in Branches : t \in Tree(hist[b])
      <3>1. state[t] \in {"ready", "review", "landing", "handed_off", "needs_you",
                          "done", "rejected"}
        BY DEF IInv, Shape
      <3>2. state[t] = "done" => branch[t] \/ t \in Tree(hist["target"])
        BY DEF IInv, EndInv
      <3>3. state[t] \in {"review", "landing", "handed_off", "needs_you"} => branch[t]
        BY DEF IInv, PhaseInv
      <3> QED BY <3>1, <3>2, <3>3 DEF Branches
    <2> QED BY <2>1, <2>2 DEF WorkKept
  <1> QED BY <1>1, InitIInv, IInvInductive, PTL DEF Spec

(***************************************************************************)
(* The gate: what lands is what was green, and what nobody could have seen.  *)
(***************************************************************************)
Validated == {"squash", "checkout", "forward", "stage", "commit"}

\* From its rebase on, what a landing will squash onto is its base and the unseen;
\* once it is green, the green tree is its base with its work, and what is staged
\* beside the work is unseen too.
GateInv(t) ==
  /\ lpc[t] \in Validated \cup {"validate"} => Tree(hist["target"]) \subseteq Tree(base[t]) \cup unseen[t]
  /\ lpc[t] \in {"validate", "squash", "checkout", "forward"} =>
       Tree(TargetRef) \subseteq Tree(base[t]) \cup unseen[t]
  /\ lpc[t] \in Validated => green[t] = Tree(base[t]) \cup {t}
  /\ lpc[t] \in {"checkout", "forward", "stage", "commit"} => index \subseteq unseen[t] \cup {t}

\* A landing's step that is its commit lands the green tree and the unseen.
GateAt(t) ==
  lpc[t] = "commit" /\ lpc'[t] = "push" =>
    /\ green[t] \subseteq Tree(hist'["target"])
    /\ Tree(hist'["target"]) \subseteq green[t] \cup unseen[t]

\* A landing in its worktree rests on the target as it knows it and validates the
\* tree it will land.
LEMMA WorktreeStepGate ==
  ASSUME SameRepo, Shape, NEW t \in Tickets, GateInv(t), WorktreeStep(t)
  PROVE  GateInv(t)' /\ GateAt(t)
  <1> USE DEF SameRepo
  <1>1. /\ UNCHANGED <<hist, head, index>>
        /\ lpc[t] \in {"fetch", "clean", "rebase", "validate", "handoff"}
    BY DEF WorktreeStep, Fetch, CheckClean, Rebase, Validate, HandOff, repoVars, checkout
  <1>2. GateAt(t)
    BY <1>1 DEF GateAt
  <1>3. CASE lpc'[t] \in {"idle", "clean", "rebase", "handoff"}
    BY <1>2, <1>3 DEF GateInv, Validated
  <1>4. CASE lpc'[t] \notin {"idle", "clean", "rebase", "handoff"}
    <2>1. ~Park(t)
      BY <1>4 DEF Park, goto, Shape
    <2>2. CASE Rebase(t)
      <3>1. /\ lpc'[t] = "validate" /\ base'[t] = TargetRef /\ tracking' = tracking
            /\ unseen'[t] = Tree(hist["target"]) \ Tree(TargetRef)
        BY <2>1, <2>2 DEF Rebase, Shape
      <3>2. TargetRef' = TargetRef
        BY <1>1, <3>1 DEF TargetRef
      <3> QED BY <1>1, <1>2, <3>1, <3>2 DEF GateInv, Validated
    <2>3. CASE Validate(t)
      <3>1. /\ lpc[t] = "validate" /\ lpc'[t] \in {"handoff", "squash"}
            /\ UNCHANGED <<base, tracking, unseen>> /\ green'[t] = Tree(base[t]) \cup {t}
        BY <2>1, <2>3 DEF Validate, Shape, repoVars
      <3>2. TargetRef' = TargetRef
        BY <1>1, <3>1 DEF TargetRef
      <3> QED BY <1>1, <1>2, <1>4, <3>1, <3>2 DEF GateInv, Validated
    <2>4. ~Fetch(t) /\ ~CheckClean(t) /\ ~HandOff(t)
      BY <1>4, <2>1 DEF Fetch, CheckClean, HandOff, goto, Shape
    <2> QED BY <2>2, <2>3, <2>4 DEF WorktreeStep
  <1> QED BY <1>2, <1>3, <1>4

\* A landing in the main checkout stages nothing beside its work, and commits what is
\* staged.
LEMMA SquashStepGate ==
  ASSUME SameRepo, Shape, NEW t \in Tickets, LandInv(t), GateInv(t), SquashStep(t)
  PROVE  GateInv(t)' /\ GateAt(t)
  <1> USE DEF SameRepo, checkout, repoVars
  <1>1. CASE lpc'[t] \in {"idle", "push", "landed", "remove"} /\ ~(lpc[t] = "commit" /\ lpc'[t] = "push")
    BY <1>1 DEF GateInv, GateAt, Validated
  <1>2. ASSUME lpc[t] # "commit", lpc[t] \in Validated, lpc'[t] \in Validated, lpc'[t] # lpc[t],
               UNCHANGED <<base, green, unseen>>,
               Tree(hist'["target"]) \subseteq Tree(hist["target"]) \cup Tree(TargetRef),
               lpc[t] = "stage" => Tree(hist'["target"]) \subseteq Tree(hist["target"]),
               lpc'[t] # "squash",
               lpc'[t] \in {"checkout", "forward"} => lpc[t] # "stage" /\ Tree(TargetRef') = Tree(TargetRef),
               lpc[t] # "squash" => index' \subseteq index \cup {t},
               lpc[t] = "squash" => index' = {}
        PROVE  GateInv(t)' /\ GateAt(t)
    <2>1. GateAt(t)
      BY <1>2 DEF GateAt, Validated
    <2>2. lpc[t] \in {"squash", "checkout", "forward", "stage"}
      BY <1>2 DEF Validated
    <2>3. /\ Tree(hist["target"]) \subseteq Tree(base[t]) \cup unseen[t]
          /\ lpc[t] # "stage" => Tree(TargetRef) \subseteq Tree(base[t]) \cup unseen[t]
          /\ green[t] = Tree(base[t]) \cup {t}
          /\ lpc[t] # "squash" => index \subseteq unseen[t] \cup {t}
      BY <2>2 DEF GateInv, Validated
    <2>4. Tree(hist'["target"]) \subseteq Tree(base'[t]) \cup unseen'[t]
      BY <1>2, <2>2, <2>3
    <2>5. index' \subseteq unseen'[t] \cup {t} /\ green'[t] = Tree(base'[t]) \cup {t}
      BY <1>2, <2>3
    <2>6. lpc'[t] \in {"checkout", "forward"} => Tree(TargetRef') \subseteq Tree(base'[t]) \cup unseen'[t]
      BY <1>2, <2>2, <2>3
    <2> QED BY <1>2, <2>1, <2>4, <2>5, <2>6 DEF GateInv, Validated
  <1>3. CASE Squash(t) /\ lpc'[t] # "idle"
    <2>1. /\ lpc[t] = "squash" /\ lpc'[t] = "checkout" /\ index' = {}
          /\ UNCHANGED <<hist, tracking, base, green, unseen>>
      BY <1>3 DEF Squash, TrackedChanges, Park, goto, Shape
    <2> QED BY <1>2, <2>1 DEF TargetRef, Validated
  <1>4. CASE Checkout(t) /\ lpc'[t] # "idle"
    <2>1. /\ lpc[t] = "checkout" /\ lpc'[t] = "forward" /\ index' = index
          /\ UNCHANGED <<hist, tracking, base, green, unseen>>
      BY <1>4 DEF Checkout, Park, goto, Shape
    <2> QED BY <1>2, <2>1 DEF TargetRef, Validated
  <1>5. CASE Forward(t) /\ lpc'[t] # "idle"
    <2>1. /\ lpc[t] = "forward" /\ lpc'[t] = "stage" /\ index' = index /\ head = "target"
          /\ UNCHANGED <<base, green, unseen>>
          /\ hist' = hist \/ (Remote /\ hist' = [hist EXCEPT !["target"] = tracking])
      BY <1>5 DEF Forward, Park, goto, Shape, LandInv
    <2>2. Tree(hist'["target"]) \subseteq Tree(hist["target"]) \cup Tree(TargetRef)
      BY <2>1 DEF TargetRef, Shape, Branches
    <2> QED BY <1>2, <2>1, <2>2 DEF Validated
  <1>6. CASE Stage(t) /\ lpc'[t] # "idle"
    <2>1. /\ lpc[t] = "stage" /\ lpc'[t] = "commit" /\ head = "target"
          /\ index' = index \cup Work(t)
          /\ UNCHANGED <<hist, base, green, unseen>>
      BY <1>6 DEF Stage, Park, goto, Shape, LandInv
    <2>2. Work(t) \subseteq {t}
      BY <2>1 DEF Work, LandInv
    <2> QED BY <1>2, <2>1, <2>2 DEF Validated
  <1>7. CASE Commit(t) /\ lpc'[t] # "idle"
    <2> DEFINE c == [by |-> t, changes |-> index]
    <2>1. /\ lpc[t] = "commit" /\ lpc'[t] = "push" /\ head = "target"
          /\ hist' = [hist EXCEPT !["target"] = Append(hist["target"], c)]
      BY <1>7 DEF Commit, Park, goto, Shape, LandInv
    <2>2. c \in Commits /\ c.changes = index /\ hist["target"] \in Seq(Commits)
      BY CommitType, HistoryTypes
    <2> HIDE DEF c
    <2>3. hist'["target"] = Append(hist["target"], c)
      BY <2>1 DEF Shape, Branches
    <2>4. Tree(hist'["target"]) = Tree(hist["target"]) \cup index
      BY <2>2, <2>3, TreeAppend
    <2>5. /\ Tree(base[t]) \subseteq Tree(hist["target"]) /\ t \in index \cup Tree(hist["target"])
          /\ Tree(hist["target"]) \subseteq Tree(base[t]) \cup unseen[t]
          /\ green[t] = Tree(base[t]) \cup {t} /\ index \subseteq unseen[t] \cup {t}
      BY <2>1 DEF LandInv, GateInv, Validated
    <2>6. GateAt(t)
      BY <2>4, <2>5 DEF GateAt
    <2>7. GateInv(t)'
      BY <2>1 DEF GateInv, Validated
    <2> QED BY <2>6, <2>7
  <1>8. CASE Push(t) \/ Landed(t) \/ Remove(t)
    <2>1. lpc[t] \in {"push", "landed", "remove"} /\ lpc'[t] \in {"idle", "landed", "remove"}
      BY <1>8 DEF Push, Rejected, Park, Landed, Remove, goto, Shape
    <2> QED BY <1>1, <2>1
  <1> QED BY <1>1, <1>3, <1>4, <1>5, <1>6, <1>7, <1>8 DEF SquashStep

\* What reaches the target or the checkout under a landing is recorded as unseen.
LEMMA UndisturbedGate ==
  ASSUME SameRepo, Shape, NEW t \in Tickets, GateInv(t),
         lpc'[t] = lpc[t], base'[t] = base[t], green'[t] = green[t],
         lpc[t] # "idle" =>
           /\ unseen[t] \subseteq unseen'[t]
           /\ Tree(hist'["target"]) \subseteq Tree(hist["target"]) \cup unseen'[t]
           /\ Remote => Tree(tracking') \subseteq Tree(tracking) \cup unseen'[t]
           /\ index' \subseteq index \cup unseen'[t]
  PROVE  GateInv(t)'
  <1> USE DEF SameRepo
  <1>1. lpc[t] # "idle" => Tree(TargetRef') \subseteq Tree(TargetRef) \cup unseen'[t]
    BY DEF TargetRef
  <1> QED BY <1>1 DEF GateInv, Validated

\* A fetch of a run's records what it brought.
LEMMA FetchSeen ==
  ASSUME Shape, RunFetches, NEW t \in Tickets, Landing(t)
  PROVE  /\ unseen[t] \subseteq unseen'[t]
         /\ Remote => Tree(tracking') \subseteq Tree(tracking) \cup unseen'[t]
  BY DEF RunFetches, Meanwhile, Shape

\* Every step keeps the gate.
LEMMA GateInductive ==
  ASSUME OneAtATime, IInv, \A t \in Tickets : GateInv(t), [Next]_vars
  PROVE  (\A t \in Tickets : GateInv(t)') /\ Gate
  <1> USE DEF IInv
  <1> SameRepo
    BY RepoStays
  <1>1. ASSUME NEW t \in Tickets, WorktreeStep(t) \/ SquashStep(t)
        PROVE  (\A u \in Tickets : GateInv(u)') /\ Gate
    <2>1. Spares(t) /\ GateInv(t)' /\ GateAt(t)
      BY <1>1, WorktreeStepShape, SquashStepShape, WorktreeStepGate, SquashStepGate
    <2>2. Landing(t)
      BY <1>1 DEF Landing, WorktreeStep, SquashStep, Fetch, CheckClean, Rebase, Validate, HandOff,
                  Squash, Checkout, Forward, Stage, Commit, Push, Landed, Remove
    <2>3. ASSUME NEW u \in Tickets \ {t}
          PROVE  GateInv(u)' /\ lpc'[u] = lpc[u]
      <3>1. lpc'[u] = lpc[u] /\ lpc[u] = "idle"
        BY <2>1, <2>2 DEF Alone, Landing, Spares
      <3> QED BY <3>1 DEF GateInv, Validated
    <2> QED BY <2>1, <2>3 DEF Gate, GateAt
  <1>2. ASSUME NEW t \in Tickets, TicketStep(t)
        PROVE  (\A u \in Tickets : GateInv(u)') /\ Gate
    <2>1. Spares(t) /\ UNCHANGED <<hist, index>> /\ lpc'[t] \in {"idle", "fetch"}
      BY <1>2, TicketStepShape
    <2>2. Gate
      BY <2>1 DEF Spares, Gate
    <2>3. GateInv(t)'
      BY <2>1 DEF GateInv, Validated
    <2>4. ASSUME NEW u \in Tickets \ {t}, Landing(u)
          PROVE  /\ unseen[u] \subseteq unseen'[u]
                 /\ Remote => Tree(tracking') \subseteq Tree(tracking) \cup unseen'[u]
      <3>1. CASE Cut(t) \/ Rework(t)
        BY <2>4, <3>1, FetchSeen DEF Cut, Rework
      <3>2. CASE Die(t) \/ Cancel(t)
        BY <2>4, <3>2 DEF Die, Cancel, CutShort, Alone
      <3>3. CASE Approve(t)
        BY <2>4, <3>3 DEF Approve, MayBegin
      <3>4. CASE SendBack(t) \/ Reject(t) \/ MarkMerged(t) \/ Recover(t) \/ OwnerRebases(t)
        BY <3>4 DEF SendBack, Reject, MarkMerged, Recover, OwnerRebases, repoVars, landVars
      <3> QED BY <1>2, <3>1, <3>2, <3>3, <3>4 DEF TicketStep
    <2>5. ASSUME NEW u \in Tickets \ {t}
          PROVE  GateInv(u)'
      <3>1. lpc'[u] = lpc[u] /\ base'[u] = base[u] /\ green'[u] = green[u]
        BY <2>1 DEF Spares
      <3> QED BY <2>1, <2>4, <3>1, UndisturbedGate DEF Landing
    <2> QED BY <2>2, <2>3, <2>5
  <1>3. CASE WorldStep
    <2>1. UNCHANGED <<lpc, base, green>>
      BY <1>3, WorldStepShape
    <2>2. ASSUME NEW u \in Tickets, Landing(u)
          PROVE  /\ unseen[u] \subseteq unseen'[u]
                 /\ Tree(hist'["target"]) \subseteq Tree(hist["target"]) \cup unseen'[u]
                 /\ Remote => Tree(tracking') \subseteq Tree(tracking) \cup unseen'[u]
                 /\ index' \subseteq index \cup unseen'[u]
      <3>1. ~Quiet
        BY <2>2 DEF Quiet
      <3>2. CASE UpstreamPush
        BY <3>2 DEF UpstreamPush, checkout
      <3>3. CASE FetchByRun
        BY <2>2, <3>3, FetchSeen DEF FetchByRun, checkout
      <3>4. CASE OwnerEdits
        BY <2>2, <3>4 DEF OwnerEdits, Meanwhile, repoVars
      <3>5. CASE OwnerCommits
        <4>1. OwnersHand
          BY <3>5, OwnerCommitsShape
        <4>2. unseen'[u] = unseen[u] \cup index /\ tracking' = tracking /\ index' = {}
          BY <2>2, <3>5 DEF OwnerCommits, Meanwhile
        <4> QED BY <4>1, <4>2 DEF OwnersHand
      <3> QED BY <1>3, <3>1, <3>2, <3>3, <3>4, <3>5 DEF WorldStep, OwnerTidies, OwnerSwitches,
                                                     OwnerPushes
    <2>3. ASSUME NEW u \in Tickets
          PROVE  GateInv(u)'
      BY <2>1, <2>2, UndisturbedGate DEF Landing
    <2>4. Gate
      BY <2>1 DEF Gate
    <2> QED BY <2>3, <2>4
  <1>4. CASE UNCHANGED vars
    BY <1>4 DEF vars, repoVars, checkout, landVars, GateInv, Gate, TargetRef, SameRepo
  <1> QED BY <1>1, <1>2, <1>3, <1>4, NextCases

\* Whatever moves between the validation of a landing and its commit, on origin, in
\* the main checkout or on the target, the commit lands the tree that went green and
\* beside it only what is accounted for as unseen (the validation in Lander.land and
\* git.SquashMerge).
THEOREM GateHeld ==
  ASSUME OneAtATime
  PROVE  Spec => GateHonoured
  <1>1. Init => \A t \in Tickets : GateInv(t)
    BY DEF Init, GateInv, Validated
  <1>2. IInv /\ (\A t \in Tickets : GateInv(t)) /\ [Next]_vars =>
          Gate /\ (\A t \in Tickets : GateInv(t))'
    BY GateInductive
  <1> QED BY <1>1, <1>2, InitIInv, IInvInductive, PTL DEF Spec, GateHonoured

(***************************************************************************)
(* The main checkout is given back.                                         *)
(***************************************************************************)

\* The checkout is where its owner left it, or a landing owes it the owner's branch.
LeftInv ==
  /\ \A t \in Tickets : restore[t] => /\ lpc[t] \in {"forward", "stage", "commit", "push"}
                                      /\ left \in {"own", "anywhere"}
  /\ left # "anywhere" => head = left \/ \E t \in Tickets : restore[t]

\* A return gives the branch back, or leaves uncommitted changes and no promise.
LEMMA ReturnGives ==
  ASSUME Shape, NEW t \in Tickets, Return(t), LeftInv,
         \A u \in Tickets \ {t} : ~restore[u]
  PROVE  /\ restore'[t] = FALSE
         /\ left' # "anywhere" => head' = left'
  BY DEF Return, Restored, Mislaid, MayRefuse, MustRefuse, LeftInv, Shape

\* Every step of a landing keeps the account.
LEMMA SquashStepGives ==
  ASSUME Shape, LeftInv, NEW t \in Tickets, SquashStep(t), \A u \in Tickets \ {t} : lpc[u] = "idle"
  PROVE  LeftInv'
  <1> USE DEF checkout, repoVars
  <1>1. \A u \in Tickets \ {t} : ~restore[u] /\ restore'[u] = restore[u] /\ lpc'[u] = lpc[u]
    BY SquashStepShape DEF LeftInv, Spares
  <1>2. ASSUME restore'[t] = FALSE, left' # "anywhere" => head' = left'
        PROVE  LeftInv'
    BY <1>1, <1>2 DEF LeftInv
  <1>3. ASSUME UNCHANGED <<restore, head, left>>,
               restore[t] => lpc'[t] \in {"forward", "stage", "commit", "push"}
        PROVE  LeftInv'
    BY <1>1, <1>3 DEF LeftInv
  <1>4. CASE Squash(t) \/ Landed(t) \/ Remove(t)
    <2>1. UNCHANGED <<restore, head, left>> /\ lpc[t] \in {"squash", "landed", "remove"}
      BY <1>4 DEF Squash, Landed, Remove
    <2> QED BY <1>3, <2>1 DEF LeftInv
  <1>5. CASE Checkout(t)
    <2>1. lpc[t] = "checkout" /\ left' = left /\ ~restore[t]
      BY <1>5 DEF Checkout, LeftInv
    <2>2. CASE UNCHANGED <<head, restore>>
      BY <1>3, <2>1, <2>2
    <2>3. CASE /\ restore' = [restore EXCEPT ![t] = head # "target"] /\ head' = "target"
               /\ goto(t, "forward")
      <3>1. lpc'[t] = "forward" /\ restore'[t] = (head # "target")
        BY <2>3 DEF goto, Shape
      <3>2. left # "anywhere" => head = left
        BY <1>1, <2>1 DEF LeftInv
      <3>3. head \in {"target", "own"}
        BY DEF Shape, Branches
      <3> QED BY <1>1, <2>1, <2>3, <3>1, <3>2, <3>3 DEF LeftInv
    <2> QED BY <1>5, <2>2, <2>3 DEF Checkout
  <1>6. CASE Return(t)
    BY <1>1, <1>2, <1>6, ReturnGives
  <1>7. CASE Mislaid(t) /\ restore' = [restore EXCEPT ![t] = FALSE] /\ head' = head
    <2>1. restore'[t] = FALSE /\ (left' # "anywhere" => head' = left')
      BY <1>1, <1>7 DEF Mislaid, Shape, LeftInv
    <2> QED BY <1>2, <2>1
  <1>8. CASE (Forward(t) \/ Stage(t) \/ Commit(t)) /\ UNCHANGED <<restore, head, left>>
             /\ lpc'[t] \in {"stage", "commit", "push"}
    BY <1>3, <1>8
  <1>9. CASE Forward(t)
    BY <1>6, <1>8, <1>9 DEF Forward, goto, Shape
  <1>10. CASE Stage(t)
    BY <1>6, <1>7, <1>8, <1>10 DEF Stage, goto, Shape
  <1>11. CASE Commit(t)
    BY <1>6, <1>8, <1>11 DEF Commit, goto, Shape
  <1>12. CASE Push(t)
    BY <1>6, <1>12 DEF Push
  <1> QED BY <1>4, <1>5, <1>9, <1>10, <1>11, <1>12 DEF SquashStep

\* Every step keeps the account of where the owner left the checkout.
LEMMA LeftInductive ==
  ASSUME OneAtATime, IInv, LeftInv, [Next]_vars
  PROVE  LeftInv'
  <1> USE DEF IInv, checkout, repoVars, landVars
  <1>1. ASSUME UNCHANGED <<restore, head, left>>,
               \A t \in Tickets : restore[t] => lpc'[t] = lpc[t]
        PROVE  LeftInv'
    BY <1>1 DEF LeftInv
  <1>2. ASSUME NEW t \in Tickets, SquashStep(t)
        PROVE  LeftInv'
    <2>1. Landing(t)
      BY <1>2 DEF Landing, SquashStep, Squash, Checkout, Forward, Stage, Commit, Push, Landed, Remove
    <2> QED BY <1>2, <2>1, SquashStepGives DEF Alone, Landing
  <1>3. ASSUME NEW t \in Tickets, WorktreeStep(t)
        PROVE  LeftInv'
    <2>1. UNCHANGED <<restore, head, left>>
          /\ lpc[t] \in {"fetch", "clean", "rebase", "validate", "handoff"} /\ Spares(t)
      BY <1>3, WorktreeStepShape DEF WorktreeStep, Fetch, CheckClean, Rebase, Validate, HandOff
    <2> QED BY <1>1, <2>1 DEF Spares, LeftInv
  <1>4. ASSUME NEW t \in Tickets, Die(t) \/ Cancel(t)
        PROVE  LeftInv'
    <2>1. /\ Landing(t) /\ Mislaid(t)
          /\ restore' = [restore EXCEPT ![t] = FALSE]
          /\ head' = head \/ (Restored(t) /\ head' = "own")
      BY <1>4 DEF Die, Cancel, CutShort
    <2>2. \A u \in Tickets \ {t} : lpc[u] = "idle" /\ ~restore[u] /\ ~restore'[u]
      BY <2>1 DEF Alone, Landing, LeftInv, Shape
    <2>3. restore'[t] = FALSE /\ (left' # "anywhere" => head' = left')
      BY <2>1, <2>2 DEF Mislaid, Restored, Shape, LeftInv
    <2> QED BY <2>2, <2>3 DEF LeftInv
  <1>5. ASSUME NEW t \in Tickets, TicketStep(t), ~Die(t), ~Cancel(t)
        PROVE  LeftInv'
    <2>1. UNCHANGED <<restore, head, left>> /\ Spares(t)
      BY <1>5, TicketStepShape DEF TicketStep, Cut, Rework, SendBack, Reject, MarkMerged, Approve,
                                   Recover, OwnerRebases
    <2>2. lpc[t] = "idle" \/ lpc'[t] = lpc[t]
      BY <1>5 DEF TicketStep, Cut, Rework, SendBack, Reject, MarkMerged, Approve, Recover,
                  OwnerRebases, Landing
    <2> QED BY <1>1, <2>1, <2>2 DEF Spares, LeftInv
  <1>6. CASE WorldStep
    <2>1. UNCHANGED <<lpc, restore>>
      BY <1>6, WorldStepShape, RepoStays
    <2>2. UNCHANGED <<head, left>> \/ (Quiet /\ left' = head')
      BY <1>6 DEF WorldStep, UpstreamPush, FetchByRun, OwnerEdits, OwnerCommits, OwnerTidies,
                  OwnerSwitches, OwnerPushes
    <2>3. Quiet => \A t \in Tickets : ~restore[t]
      BY DEF Quiet, Landing, LeftInv
    <2> QED BY <1>1, <2>1, <2>2, <2>3 DEF LeftInv
  <1>7. CASE UNCHANGED vars
    BY <1>1, <1>7 DEF vars
  <1> QED BY <1>2, <1>3, <1>4, <1>5, <1>6, <1>7, NextCases

\* While nothing is landing the main checkout is on the branch its owner left it on,
\* unless a landing since was cut short in it or returned with uncommitted changes
\* there (the deferred checkout of git.SquashMerge).
THEOREM BranchGivenBack ==
  ASSUME OneAtATime
  PROVE  Spec => []CheckoutGivenBack
  <1>1. Init => LeftInv
    BY DEF Init, LeftInv
  <1>2. LeftInv => CheckoutGivenBack
    BY DEF LeftInv, CheckoutGivenBack, Quiet, Landing
  <1> QED BY <1>1, <1>2, InitIInv, IInvInductive, LeftInductive, PTL DEF Spec
=============================================================================
