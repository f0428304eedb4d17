------------------------------ MODULE Landing ------------------------------
(***************************************************************************)
(* Landing approved work: fetch, rebase, validate, squash into the target   *)
(* in the repository's main checkout, push, clean up (agentrun/land.go over  *)
(* git/repo.go).  Git is modelled by what its commands do to the refs: a     *)
(* history is a sequence of commits, a commit the set of changes it carries, *)
(* a tree the changes of its history.  The main checkout is shared by every  *)
(* landing of the repository and by its owner.                               *)
(***************************************************************************)
EXTENDS Naturals, Sequences

CONSTANTS
  Tickets,
  Upstream,     \* changes other people push to origin
  Repositories, \* [remote, untouched]: has an origin, and an owner who edits
                \* nothing in the main checkout during a landing, and commits nothing there
  Approvals,    \* what the human may choose: "push", "local", "hand_off"
  OneAtATime,   \* no landing begins while another is under way
  MaxDeaths     \* bound: landings cut short by a dying process or a cancelled context

ASSUME ChangesAssumption == /\ Tickets \cap Upstream = {}
                            /\ {"edit", "unmerged"} \cap (Tickets \cup Upstream) = {}
ASSUME RepositoryAssumption == Repositories \subseteq [remote : BOOLEAN, untouched : BOOLEAN]
ASSUME ApprovalAssumption == Approvals \subseteq {"push", "local", "hand_off"}
ASSUME CarefulAssumption == OneAtATime \in BOOLEAN
ASSUME DeathAssumption   == MaxDeaths \in Nat

Edit     == "edit"      \* a change of the owner's
Unmerged == "unmerged"  \* what a conflicting merge leaves in the index
Changes  == Tickets \cup Upstream \cup {Edit, Unmerged}
Branches == {"target", "own"}

VARIABLES
  repo,      \* the repository, the same for good
  state,     \* tickets.state
  hist,      \* local branches: the target, and one of the owner's
  origin,    \* the target on the remote
  tracking,  \* origin/<target> as last fetched or pushed
  branch,    \* the ticket's branch and worktree exist
  base,      \* the history the ticket's branch sits on
  head,      \* branch checked out in the main checkout
  index,     \* uncommitted changes of the main checkout
  left,      \* where its owner left it: history (of no code), "anywhere" once a
             \* landing was cut short in it or returned with uncommitted changes there
  lpc,       \* where the ticket's landing is
  how,       \* the approval it carries
  green,     \* the tree its validation last went green on
  restore,   \* the landing owes the checkout its own branch back
  unseen,    \* what may reach the target beside the branch that is validated: history
  deaths

repoVars == <<hist, origin, tracking, branch, base>>
checkout == <<head, index, left>>
landVars == <<lpc, how, green, restore, unseen>>
vars == <<repo, state, repoVars, checkout, landVars, deaths>>

Remote    == repo.remote
Untouched == repo.untouched

Init ==
  /\ repo \in Repositories
  /\ state = [t \in Tickets |-> "ready"]
  /\ hist = [b \in Branches |-> <<>>]
  /\ origin = <<>> /\ tracking = <<>>
  /\ branch = [t \in Tickets |-> FALSE]
  /\ base = [t \in Tickets |-> <<>>]
  /\ head \in Branches /\ left = head /\ index = {}
  /\ lpc = [t \in Tickets |-> "idle"]
  /\ how = [t \in Tickets |-> "none"]
  /\ green = [t \in Tickets |-> {}]
  /\ restore = [t \in Tickets |-> FALSE]
  /\ unseen = [t \in Tickets |-> {}]
  /\ deaths = 0

(***************************************************************************)
(* Git.                                                                     *)
(***************************************************************************)
Tree(h) == UNION {h[i].changes : i \in DOMAIN h}
Extends(h, g) == Len(g) <= Len(h) /\ SubSeq(h, 1, Len(g)) = g

\* TargetRef: origin/<target> when there is one, else the local branch.
TargetRef == IF Remote THEN tracking ELSE hist["target"]

\* Commands that need a clean enough checkout may refuse a dirty one, and
\* always refuse one with unmerged paths.
MayRefuse == index # {}
MustRefuse == Unmerged \in index

TrackedChanges == index

\* A landing moves on; what it has validated matters until it commits.
goto(t, s) ==
  /\ lpc' = [lpc EXCEPT ![t] = s]
  /\ IF s \in {"idle", "push"}
       THEN green' = [green EXCEPT ![t] = {}] /\ unseen' = [unseen EXCEPT ![t] = {}]
       ELSE UNCHANGED <<green, unseen>>

\* Mutant: the checkout stays on the target.
Restored_never(t) == FALSE
\* The deferred checkout of the original branch, best effort.
Restored(t) == restore[t] /\ ~MustRefuse

\* The owner's branch is not given back for sure.
Mislaid(t) == left' = IF restore[t] THEN "anywhere" ELSE left

\* SquashMerge returns: give the owner's branch back.
Return(t) ==
  /\ restore' = [restore EXCEPT ![t] = FALSE]
  /\ \/ Restored(t) /\ head' = "own"
     \/ (Restored(t) => MayRefuse) /\ head' = head
  /\ IF MayRefuse THEN Mislaid(t) ELSE left' = left

(***************************************************************************)
(* A ticket's work before it is approved.                                   *)
(***************************************************************************)

Landing(t) == lpc[t] # "idle"

\* What reaches the target, or the checkout, under a landing.
Meanwhile(changes) ==
  unseen' = [t \in Tickets |-> IF Landing(t) THEN unseen[t] \cup changes ELSE unseen[t]]

\* A run fetches before it opens its worktree.
RunFetches ==
  IF Remote THEN tracking' = origin /\ Meanwhile(Tree(origin)) ELSE UNCHANGED <<tracking, unseen>>

\* run: fetch, then cut the worktree from the target; the agent's commits are
\* the change named after the ticket.
Cut(t) ==
  /\ state[t] = "ready" /\ ~branch[t]
  /\ RunFetches
  /\ base' = [base EXCEPT ![t] = IF Remote THEN origin ELSE hist["target"]]
  /\ branch' = [branch EXCEPT ![t] = TRUE]
  /\ state' = [state EXCEPT ![t] = "review"]
  /\ UNCHANGED <<hist, origin, checkout, lpc, how, green, restore, deaths>>

\* A ticket sent back keeps its worktree: OpenWorktree finds it.
Rework(t) ==
  /\ state[t] = "ready" /\ branch[t]
  /\ RunFetches
  /\ state' = [state EXCEPT ![t] = "review"]
  /\ UNCHANGED <<hist, origin, branch, base, checkout, lpc, how, green, restore, deaths>>

SendBack(t) ==
  /\ state[t] \in {"review", "needs_you"}
  /\ state' = [state EXCEPT ![t] = "ready"]
  /\ UNCHANGED <<repoVars, checkout, landVars, deaths>>

\* Reject, with discardTicketWork: worktree and branch go.
Reject(t) ==
  /\ state[t] \in {"ready", "review", "needs_you"}
  /\ state' = [state EXCEPT ![t] = "rejected"]
  /\ branch' = [branch EXCEPT ![t] = FALSE]
  /\ UNCHANGED <<hist, origin, tracking, base, checkout, landVars, deaths>>

MarkMerged(t) ==
  /\ state[t] = "handed_off"
  /\ state' = [state EXCEPT ![t] = "done"]
  /\ UNCHANGED <<repoVars, checkout, landVars, deaths>>

(***************************************************************************)
(* Lander.approve and Lander.Continue, then land() step by step.            *)
(***************************************************************************)
MayBegin == OneAtATime => \A u \in Tickets : ~Landing(u)

Approve(t) ==
  /\ state[t] \in {"review", "needs_you"} /\ ~Landing(t) /\ MayBegin
  /\ state' = [state EXCEPT ![t] = "landing"]
  /\ \E a \in Approvals : how' = [how EXCEPT ![t] = a]
  /\ goto(t, "fetch")
  /\ UNCHANGED <<repoVars, checkout, restore, deaths>>

\* Lander.park and parkAfterError: the ticket goes to Needs You, unless it has
\* left Landing meanwhile.
Parked(s) == IF s = "landing" THEN "needs_you" ELSE s
Park(t) == goto(t, "idle") /\ state' = [state EXCEPT ![t] = Parked(@)]

Fetch(t) ==
  /\ lpc[t] = "fetch"
  /\ \/ tracking' = (IF Remote THEN origin ELSE tracking) /\ goto(t, "clean") /\ state' = state
     \/ Remote /\ tracking' = tracking /\ Park(t)
  /\ UNCHANGED <<hist, origin, branch, base, checkout, how, restore, deaths>>

\* DirtyFiles of the ticket's worktree, which a human may have used.
CheckClean(t) ==
  /\ lpc[t] = "clean"
  /\ (goto(t, "rebase") /\ state' = state) \/ Park(t)
  /\ UNCHANGED <<repoVars, checkout, how, restore, deaths>>

\* Rebase onto the target, aborted on conflict; a branch that is already there
\* cannot conflict.
Rebase(t) ==
  /\ lpc[t] = "rebase"
  /\ \/ /\ base' = [base EXCEPT ![t] = TargetRef]
        /\ unseen' = [unseen EXCEPT ![t] = Tree(hist["target"]) \ Tree(TargetRef)]
        /\ lpc' = [lpc EXCEPT ![t] = "validate"] /\ UNCHANGED <<state, green>>
     \/ base[t] # TargetRef /\ base' = base /\ Park(t)
  /\ UNCHANGED <<hist, origin, tracking, branch, checkout, how, restore, deaths>>

\* Mutant: validation is trusted from the run, and not made again.
Validate_trusted(t) ==
  /\ lpc[t] = "validate"
  /\ goto(t, IF how[t] = "hand_off" THEN "handoff" ELSE "squash")
  /\ UNCHANGED <<state, repoVars, checkout, how, restore, deaths>>

\* The steps of the project in the rebased worktree, on every attempt.
Validate(t) ==
  /\ lpc[t] = "validate"
  /\ \/ /\ green' = [green EXCEPT ![t] = Tree(base[t]) \cup {t}]
        /\ lpc' = [lpc EXCEPT ![t] = IF how[t] = "hand_off" THEN "handoff" ELSE "squash"]
        /\ UNCHANGED <<state, unseen>>
     \/ Park(t)
  /\ UNCHANGED <<repoVars, checkout, how, restore, deaths>>

HandOff(t) ==
  /\ lpc[t] = "handoff" /\ goto(t, "idle")
  /\ state' = [state EXCEPT ![t] = IF @ = "landing" THEN "handed_off" ELSE @]
  /\ UNCHANGED <<repoVars, checkout, how, restore, deaths>>

(***************************************************************************)
(* SquashMerge, in the main checkout.                                       *)
(***************************************************************************)
Squash(t) ==
  /\ lpc[t] = "squash"
  /\ IF TrackedChanges # {} THEN Park(t) ELSE goto(t, "checkout") /\ state' = state
  /\ UNCHANGED <<repoVars, checkout, how, restore, deaths>>

\* Remember the branch and switch to the target.
Checkout(t) ==
  /\ lpc[t] = "checkout"
  /\ \/ /\ head = "target" \/ ~MustRefuse
        /\ restore' = [restore EXCEPT ![t] = head # "target"]
        /\ head' = "target" /\ goto(t, "forward") /\ state' = state
     \/ /\ head # "target" /\ MayRefuse
        /\ Park(t) /\ UNCHANGED <<head, restore>>
  /\ UNCHANGED <<repoVars, index, left, how, deaths>>

\* merge --ff-only origin/<target>, into whatever is checked out by now.
Forward(t) ==
  /\ lpc[t] = "forward"
  /\ LET here == hist[head] IN
     \/ /\ ~Remote \/ Extends(here, tracking)
        /\ goto(t, "stage") /\ UNCHANGED <<hist, state, head, left, restore>>
     \/ /\ Remote /\ Extends(tracking, here) /\ here # tracking /\ ~MustRefuse
        /\ hist' = [hist EXCEPT ![head] = tracking]
        /\ goto(t, "stage") /\ UNCHANGED <<state, head, left, restore>>
     \/ /\ Remote /\ ~Extends(here, tracking)
        /\ MayRefuse \/ ~Extends(tracking, here)
        /\ Park(t) /\ Return(t) /\ hist' = hist
  /\ UNCHANGED <<origin, tracking, branch, base, index, how, deaths>>

\* Mutant: the branch's diff is applied as a patch.
Work_patch(t) == {t}

\* What a squash of the branch adds to the branch checked out.
Work(t) == (Tree(base[t]) \cup {t}) \ Tree(hist[head])

\* merge --squash: what the branch has and the checked-out one lacks is staged,
\* on top of what is staged already.  Changes the branch was not rebased over
\* can conflict, and a conflict stays in the checkout.
Stage(t) ==
  /\ lpc[t] = "stage"
  /\ \/ /\ ~MustRefuse
        /\ index' = index \cup Work(t)
        /\ goto(t, "commit") /\ UNCHANGED <<state, head, left, restore>>
     \/ /\ ~MustRefuse /\ Work(t) # {} /\ ~(Tree(hist[head]) \subseteq Tree(base[t]))
        /\ index' = index \cup {Unmerged}
        /\ Park(t) /\ Mislaid(t) /\ restore' = [restore EXCEPT ![t] = FALSE] /\ head' = head
     \/ MayRefuse /\ index' = index /\ Park(t) /\ Return(t)
  /\ UNCHANGED <<repoVars, how, deaths>>

Committable == index # {} /\ Unmerged \notin index

Commit(t) ==
  /\ lpc[t] = "commit"
  /\ IF Committable
       THEN /\ hist' = [hist EXCEPT ![head] = Append(@, [by |-> t, changes |-> index])]
            /\ index' = {} /\ goto(t, "push") /\ UNCHANGED <<state, head, left, restore>>
       ELSE Park(t) /\ Return(t) /\ UNCHANGED <<hist, index>>
  /\ UNCHANGED <<origin, tracking, branch, base, how, deaths>>

\* Mutant: a rejected push is left for the next landing to repeat.
Rejected_lands(t) == goto(t, "landed") /\ state' = state
\* A push that is rejected, or does not get through, loses the merge commit.
Rejected(t) == Park(t)
Push(t) ==
  /\ lpc[t] = "push" /\ Return(t)
  /\ \/ /\ how[t] # "push" \/ ~Remote
        /\ goto(t, "landed") /\ UNCHANGED <<state, origin, tracking>>
     \/ /\ how[t] = "push" /\ Remote /\ Extends(hist["target"], origin)
        /\ origin' = hist["target"] /\ tracking' = origin'
        /\ goto(t, "landed") /\ state' = state
     \/ /\ how[t] = "push" /\ Remote
        /\ Rejected(t) /\ UNCHANGED <<origin, tracking>>
  /\ UNCHANGED <<hist, branch, base, index, how, deaths>>

Landed(t) ==
  /\ lpc[t] = "landed"
  /\ IF state[t] = "landing"
       THEN state' = [state EXCEPT ![t] = "done"] /\ goto(t, "remove")
       ELSE state' = state /\ goto(t, "idle")
  /\ UNCHANGED <<repoVars, checkout, how, restore, deaths>>

\* The worktree, then the branch; a failure keeps the branch.
Remove(t) ==
  /\ lpc[t] = "remove" /\ goto(t, "idle")
  /\ branch' = [branch EXCEPT ![t] = FALSE] \/ branch' = branch
  /\ UNCHANGED <<state, hist, origin, tracking, base, checkout, how, restore, deaths>>

LandStep(t) ==
  \/ Fetch(t) \/ CheckClean(t) \/ Rebase(t) \/ Validate(t) \/ HandOff(t)
  \/ Squash(t) \/ Checkout(t) \/ Forward(t) \/ Stage(t) \/ Commit(t)
  \/ Push(t) \/ Landed(t) \/ Remove(t)

\* A landing ends at whatever step it has come to, the branch it owes with it.
CutShort(t) ==
  /\ Landing(t) /\ deaths < MaxDeaths /\ deaths' = deaths + 1
  /\ goto(t, "idle") /\ restore' = [restore EXCEPT ![t] = FALSE] /\ Mislaid(t)
  /\ UNCHANGED <<repoVars, index, how>>

\* The process that hosts the landing dies; nothing deferred runs.
Die(t) == CutShort(t) /\ UNCHANGED <<state, head>>

\* The landing's context is cancelled: the commands it starts are killed, the
\* deferred checkout as a rule with them.  The ticket is parked by a context of its
\* own, unless the squash has returned: then Landed fails and it stays in Landing.
Cancel(t) ==
  /\ CutShort(t)
  /\ state' = [state EXCEPT ![t] = IF lpc[t] = "landed" THEN @ ELSE Parked(@)]
  /\ head' = head \/ (Restored(t) /\ head' = "own")

\* Reconcile: an interrupted landing is parked.
Recover(t) ==
  /\ state[t] = "landing" /\ ~Landing(t)
  /\ state' = [state EXCEPT ![t] = "needs_you"]
  /\ UNCHANGED <<repoVars, checkout, landVars, deaths>>

(***************************************************************************)
(* Everybody else.                                                          *)
(***************************************************************************)
Others == UNCHANGED <<state, branch, base, lpc, how, green, restore, deaths>>

UpstreamPush ==
  /\ Remote
  /\ \E u \in Upstream : /\ \A i \in DOMAIN origin : origin[i].by # u
                         /\ origin' = Append(origin, [by |-> u, changes |-> {u}])
  /\ UNCHANGED <<hist, tracking, checkout, unseen>> /\ Others

\* Any other run of the project fetches before it cuts its worktree.
FetchByRun ==
  /\ Remote /\ tracking # origin /\ RunFetches
  /\ UNCHANGED <<hist, origin, checkout>> /\ Others

Quiet == \A t \in Tickets : ~Landing(t)

\* The owner edits, commits, tidies up or switches branch in the main checkout.
\* One edit is a bound: once some commit carries it, it is not made again.
OwnerEdits ==
  /\ Untouched => Quiet
  /\ \A b \in Branches : Edit \notin Tree(hist[b])
  /\ index' = index \cup {Edit} /\ Meanwhile({Edit})
  /\ UNCHANGED <<repoVars, head, left>> /\ Others

\* What is committed is what is there, the squash of a landing included.
OwnerCommits ==
  /\ ~Untouched /\ Committable
  /\ hist' = [hist EXCEPT ![head] = Append(@, [by |-> Edit, changes |-> index])]
  /\ index' = {} /\ Meanwhile(index)
  /\ UNCHANGED <<origin, tracking, head, left>> /\ Others

OwnerTidies ==
  /\ Quiet /\ index # {} /\ index' = {}
  /\ UNCHANGED <<repoVars, head, left, unseen>> /\ Others
OwnerSwitches ==
  /\ Quiet /\ index = {} /\ head' \in Branches /\ left' = head'
  /\ UNCHANGED <<repoVars, index, unseen>> /\ Others

\* The owner pushes what was landed locally, or resolves a parked rebase.
OwnerPushes ==
  /\ Remote /\ Quiet /\ Extends(hist["target"], origin)
  /\ origin' = hist["target"] /\ tracking' = origin'
  /\ UNCHANGED <<hist, checkout, unseen>> /\ Others

OwnerRebases(t) ==
  /\ state[t] = "needs_you" /\ branch[t]
  /\ base' = [base EXCEPT ![t] = TargetRef]
  /\ UNCHANGED <<state, hist, origin, tracking, branch, checkout, landVars, deaths>>

Next ==
  /\ UNCHANGED repo
  /\ \/ UpstreamPush \/ FetchByRun
     \/ OwnerEdits \/ OwnerCommits \/ OwnerTidies \/ OwnerSwitches \/ OwnerPushes
     \/ \E t \in Tickets :
          \/ Cut(t) \/ Rework(t) \/ SendBack(t) \/ Reject(t) \/ MarkMerged(t)
          \/ Approve(t) \/ LandStep(t) \/ Die(t) \/ Cancel(t) \/ Recover(t) \/ OwnerRebases(t)

Spec == Init /\ [][Next]_vars

(***************************************************************************)
(* What must hold.                                                          *)
(***************************************************************************)

\* A ticket is in at most one commit of a history.
Once(h) == \A t \in Tickets : \A i, j \in DOMAIN h :
             t \in h[i].changes /\ t \in h[j].changes => i = j

\* A ticket's commit carries the ticket and nothing else.
Pure(h) == \A i \in DOMAIN h : h[i].by \in Tickets => h[i].changes = {h[i].by}

\* A ticket's work is squashed onto the target at most once, however often its landing is cut
\* short, rejected by the remote and continued; and, where nobody edits the checkout meanwhile, its
\* commit carries nothing else that was lying there.
LandsItselfOnce == Once(hist["target"]) /\ (Untouched => Pure(hist["target"]))

\* Done by landing means merged, and pushed when that is what was approved.
DoneIsMerged ==
  \A t \in Tickets :
    state[t] = "done" /\ how[t] # "hand_off" =>
      /\ t \in Tree(hist["target"])
      /\ how[t] = "push" /\ Remote => t \in Tree(origin)

\* No work is lost: until a human rejects it, it is on its own branch or in a
\* commit of some branch, whoever interferes with the landing.
WorkKept ==
  \A t \in Tickets :
    \/ state[t] \in {"ready", "rejected"} \/ branch[t]
    \/ \E b \in Branches : t \in Tree(hist[b])

\* Done by landing means merged, and pushed when that is what was approved; until then, and whoever
\* interferes, no work is lost.
DoneIsMergedElseKept == DoneIsMerged /\ WorkKept

\* What a landing puts on the target is the tree that went green, and beside it only what its
\* validation could not have seen: what the local target had ahead of origin at the rebase, what a
\* run has fetched since, and what the owner has committed or staged since.
Gate ==
  \A t \in Tickets :
    lpc[t] = "commit" /\ lpc'[t] = "push" =>
      LET landed == Tree(hist'["target"]) IN
      green[t] \subseteq landed /\ landed \subseteq green[t] \cup unseen[t]

\* The gate is honoured by every commit a landing makes, with a remote or without.
GateHonoured == [][Gate]_vars

\* While nothing is landing the main checkout is on the branch its owner left it on, unless a
\* landing since was killed or cancelled in it, or returned with a conflict or an edit of the
\* owner's lying there.
CheckoutGivenBack == Quiet /\ left # "anywhere" => head = left
=============================================================================
