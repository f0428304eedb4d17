-------------------------------- MODULE Setup --------------------------------
(***************************************************************************)
(* The settings of a home and the projects registered in it, and those who    *)
(* change them: the settings screen, the setup wizard, the prompt that adds a   *)
(* project, a project's configuration form, and the `gravy project` commands.   *)
(* A call of the daemon reads first and writes later; only the settings have a   *)
(* lock.  The settings are two values: one the daemon is built with (workers)    *)
(* and one it reads as it goes (routes).                                     *)
(***************************************************************************)
EXTENDS Naturals, FiniteSets

CONSTANTS
    Ids,          \* project ids, given out in order and never again
    Paths,        \* directories, each with the slug its name gives
    Repos,        \* those that hold a repository to begin with
    Companies,    \* who may be about at a time: sets of callers
    MaxCommands,  \* bound on the commands of the human at the shell
    MaxEdits,     \* bound on the edits of settings and of forms
    MaxRestarts   \* bound on the daemon's deaths

ASSUME SetupAssumption ==
    Ids \subseteq Nat \ {0} /\ Repos \subseteq Paths /\ {MaxCommands, MaxEdits, MaxRestarts} \subseteq Nat

VARIABLES
    present,      \* the callers of this behaviour
    booted,       \* the settings the daemon was built with: those it does not read as it goes
    yaml,         \* config.yaml
    cfg,          \* the service's settings
    live,         \* the scheduler's
    pendingRestart, \* what is saved and not in use
    holder,       \* who holds the settings' lock across steps, or "none"
    projects,     \* Ids -> the row of the project
    repos,        \* the paths with a repository in them
    call,         \* Users -> the call of the daemon in flight, or its answer
    settings,     \* the settings screen: loaded, dirty, cfg
    loading,      \* the settings on their way to the screen: on, cfg
    wizard,       \* the setup wizard: open, step, busy, info, cfg, project
    adding,       \* the prompt that adds a project: open, busy
    form,         \* the project being configured, as it was read
    spent         \* how often each bound was used

settingsVars == <<booted, yaml, cfg, live, pendingRestart, holder>>
uiVars == <<settings, loading, wizard, adding, form>>
setupVars == <<present, settingsVars, projects, repos, call, uiVars, spent>>

Users == {"cli", "screen", "wizard", "prompt", "form"}
Client == Users \ {"cli"}

ASSUME CompaniesAssumption == Companies \subseteq SUBSET Users

Values == [workers : 1..2, routes : 1..2]
Zero == [workers |-> 0, routes |-> 0]
NoRow == [is |-> "none", slug |-> "none", repo |-> "none", target |-> "none", notes |-> 0, archived |-> FALSE]
NoCall == [op |-> "none", at |-> "none", heard |-> TRUE, p |-> 0, want |-> NoRow, read |-> NoRow,
           cfg |-> Zero, orig |-> Zero]

FreshScreen == [loaded |-> FALSE, dirty |-> FALSE, cfg |-> Zero]
NotLoading == [on |-> FALSE, cfg |-> Zero]
NoWizard == [open |-> FALSE, step |-> 0, busy |-> FALSE, info |-> Zero, cfg |-> Zero, project |-> NoRow]
NoPrompt == [open |-> FALSE, busy |-> FALSE]
NoForm == [p |-> 0, row |-> NoRow]

SetupInit ==
    /\ present \in Companies
    /\ booted = [workers |-> 1] /\ yaml = [workers |-> 1, routes |-> 1] /\ cfg = yaml /\ live = yaml
    /\ pendingRestart = {} /\ holder = "none"
    /\ projects = [p \in Ids |-> NoRow] /\ repos = Repos
    /\ call = [u \in Users |-> NoCall]
    /\ settings = FreshScreen /\ loading = NotLoading /\ wizard = NoWizard /\ adding = NoPrompt
    /\ form = NoForm
    /\ spent = [commands |-> 0, edits |-> 0, restarts |-> 0]

Exists(p) == p \in Ids /\ projects[p].is = "here"
Free == {p \in Ids : projects[p].is = "none"}
SlugTaken(slug) == \E p \in Ids : Exists(p) /\ projects[p].slug = slug
\* What can be registered: a repository, or a goal without one, under a name nobody has.
IsRepository(path) == path \in repos
PrepareProject(want) == IsRepository(want.repo) /\ ~SlugTaken(want.slug)
WithoutRepository(want) == want.repo = "none" /\ ~SlugTaken(want.slug)
Spend(what, most) == spent[what] < most /\ spent' = [spent EXCEPT ![what] = @ + 1]

Doing(u, op, at) == call[u].op = op /\ call[u].at = at
NotCalling(u) == call[u] = NoCall
Answered(u) == call[u].at \in {"ok", "failed", "unfinished", "lost"}
Call(u, op, p, want, c, orig) ==
    /\ u \in present /\ NotCalling(u)
    /\ call' = [call EXCEPT ![u] = [NoCall EXCEPT !.op = op, !.at = "called", !.p = p, !.want = want,
                                                  !.cfg = c, !.orig = orig]]
Step(u, at) == call' = [call EXCEPT ![u].at = at]
\* Nobody is left to hear the answer of a client that has gone.
Reply(u, at) == call' = [call EXCEPT ![u] = IF @.heard THEN [@ EXCEPT !.at = at] ELSE NoCall]

---------------------------------------------------------------------------
(* The daemon: its settings.                                               *)

Usable(c) == c.workers >= 1

\* The routes are in use at once; the worker pool is the one the daemon was built with.
NotInUse(c) == {k \in DOMAIN booted : c[k] # booted[k]}

\* Written to a temporary file and renamed, so that no reader sees half of it.
Installed(c) == yaml' = c /\ cfg' = c /\ live' = c /\ pendingRestart' = NotInUse(c)

UpdateSettings(u) ==
    /\ Doing(u, "settings", "called") /\ holder = "none"
    /\ \/ Usable(call[u].cfg) /\ Installed(call[u].cfg) /\ Reply(u, "ok")
       \/ UNCHANGED <<yaml, cfg, live, pendingRestart>> /\ Reply(u, "failed")
    /\ UNCHANGED <<booted, holder, projects, repos, uiVars, spent>>

\* What setup refuses before it has written anything.
Refusable(u) == call[u].orig # cfg \/ ~Usable(call[u].cfg)

\* The lock is held from here to the answer.  A project has to be one that can be added.
ApplySetup(u) ==
    /\ Doing(u, "setup", "called") /\ holder = "none"
    /\ \/ Reply(u, "failed") /\ UNCHANGED holder
       \/ /\ ~Refusable(u) /\ holder' = u
          /\ IF call[u].want = NoRow THEN Step(u, "saving")
             ELSE PrepareProject(call[u].want) /\ Step(u, "prepared")
    /\ UNCHANGED <<booted, yaml, cfg, live, pendingRestart, projects, repos, uiVars, spent>>

\* A slug is unique in the table, whoever looked first.
NewRow(want) == [want EXCEPT !.is = "here", !.target = IF want.repo = "none" THEN "none" ELSE "main"]
CreateProject(u, at) ==
    IF SlugTaken(call[u].want.slug)
    THEN Reply(u, "failed") /\ UNCHANGED projects
    ELSE \E p \in Free :
         /\ \A q \in Free : p <= q
         /\ projects' = [projects EXCEPT ![p] = NewRow(call[u].want)]
         /\ IF at = "ok" THEN Reply(u, at)
            ELSE call' = [call EXCEPT ![u].at = at, ![u].p = p]

SetupProject(u) ==
    /\ Doing(u, "setup", "prepared") /\ CreateProject(u, "saving")
    /\ holder' = IF SlugTaken(call[u].want.slug) THEN "none" ELSE holder
    /\ UNCHANGED <<booted, yaml, cfg, live, pendingRestart, repos, uiVars, spent>>

\* A file that cannot be written leaves the settings, and then the new project has to go.
SaveSetup(u) ==
    /\ Doing(u, "setup", "saving")
    /\ \/ Installed(call[u].cfg) /\ Reply(u, "ok") /\ holder' = "none"
       \/ /\ UNCHANGED <<yaml, cfg, live, pendingRestart>>
          /\ IF call[u].p # 0 THEN Step(u, "undoing") /\ UNCHANGED holder
             ELSE Reply(u, "failed") /\ holder' = "none"
    /\ UNCHANGED <<booted, projects, repos, uiVars, spent>>

\* Mutant: the project stays when its settings could not be saved.
UndoSetup_kept(u) ==
    /\ Doing(u, "setup", "undoing") /\ holder' = "none" /\ Reply(u, "failed")
    /\ UNCHANGED <<booted, yaml, cfg, live, pendingRestart, projects, repos, uiVars, spent>>

\* One that cannot be removed, or that somebody has removed by now, is named in the answer.
UndoSetup(u) ==
    /\ Doing(u, "setup", "undoing") /\ holder' = "none"
    /\ \/ Exists(call[u].p) /\ projects' = [projects EXCEPT ![call[u].p].is = "gone"] /\ Reply(u, "failed")
       \/ UNCHANGED projects /\ Reply(u, "unfinished")
    /\ UNCHANGED <<booted, yaml, cfg, live, pendingRestart, repos, uiVars, spent>>

\* What the wizard begins with, and what it proposes for a repository.
SetupInfo(u) ==
    /\ Doing(u, "info", "called") /\ holder = "none"
    /\ \/ call' = [call EXCEPT ![u] = IF @.heard THEN [@ EXCEPT !.at = "ok", !.cfg = cfg] ELSE NoCall]
       \/ Reply(u, "failed")
    /\ UNCHANGED <<settingsVars, projects, repos, uiVars, spent>>

PreviewSetup(u) ==
    /\ Doing(u, "preview", "called")
    /\ \/ PrepareProject(call[u].want) /\ Reply(u, "ok")
       \/ Reply(u, "failed")
    /\ UNCHANGED <<settingsVars, projects, repos, uiVars, spent>>

---------------------------------------------------------------------------
(* The daemon: its projects.  Each reads the row, and writes all of it later.  *)

\* The call has looked, and goes on with what it saw.
Looked(u) ==
    /\ call' = [call EXCEPT ![u].at = "looked", ![u].read = IF Exists(call[u].p) THEN projects[call[u].p] ELSE NoRow]
    /\ UNCHANGED <<settingsVars, projects, repos, uiVars, spent>>
Fails(u) == Reply(u, "failed") /\ UNCHANGED <<settingsVars, projects, repos, uiVars, spent>>

\* The row as it is written: archived is nobody's to write back, and a row that has gone is an error.
Written(u, r) ==
    LET p == call[u].p IN
    /\ IF Exists(p) THEN projects' = [projects EXCEPT ![p] = [r EXCEPT !.archived = projects[p].archived]] /\ Reply(u, "ok")
       ELSE UNCHANGED projects /\ Reply(u, "failed")
    /\ UNCHANGED <<settingsVars, repos, uiVars, spent>>

\* With a repository or, for a goal still to be planned, without.
AddProject(u) ==
    \/ /\ Doing(u, "add", "called")
       /\ \/ (PrepareProject(call[u].want) \/ WithoutRepository(call[u].want)) /\ Looked(u)
          \/ Fails(u)
    \/ /\ Doing(u, "add", "looked") /\ CreateProject(u, "ok")
       /\ UNCHANGED <<settingsVars, repos, uiVars, spent>>

\* Only the first assignment, of a directory that is a repository.
AttachRepository(u) ==
    \/ /\ Doing(u, "attach", "called")
       /\ \/ Exists(call[u].p) /\ projects[call[u].p].repo = "none" /\ IsRepository(call[u].want.repo) /\ Looked(u)
          \/ Fails(u)
    \/ /\ Doing(u, "attach", "looked")
       /\ LET r == call[u].read IN
          Written(u, [r EXCEPT !.repo = call[u].want.repo, !.target = IF @ = "none" THEN "main" ELSE @])

\* The repository is made first, and attached as any other; it stands when a later step fails.
CreateRepository(u) ==
    \/ Doing(u, "create", "called") /\ Fails(u)
    \/ /\ Doing(u, "create", "called") /\ Exists(call[u].p) /\ projects[call[u].p].repo = "none"
       /\ call[u].want.repo \notin repos /\ repos' = repos \union {call[u].want.repo}
       /\ \/ call' = [call EXCEPT ![u].op = "attach"]
          \/ Reply(u, "failed")
       /\ UNCHANGED <<settingsVars, projects, uiVars, spent>>

\* Mutant: the row is written as the client sent it.
UpdateProject_sent(u) ==
    \/ /\ Doing(u, "update", "called")
       /\ \/ Exists(call[u].p) /\ call[u].want.target # "none" /\ Looked(u)
          \/ Fails(u)
    \/ Doing(u, "update", "looked") /\ Written(u, call[u].want)

\* The editable fields of what was sent, over the rest of what is there.
UpdateProject(u) ==
    \/ /\ Doing(u, "update", "called")
       /\ \/ Exists(call[u].p) /\ call[u].want.target # "none" /\ Looked(u)
          \/ Fails(u)
    \/ /\ Doing(u, "update", "looked")
       /\ Written(u, [call[u].read EXCEPT !.target = call[u].want.target, !.notes = call[u].want.notes])

ArchiveProject(u) ==
    /\ Doing(u, "archive", "called")
    /\ \/ /\ Exists(call[u].p) /\ projects' = [projects EXCEPT ![call[u].p].archived = call[u].want.archived]
          /\ Reply(u, "ok") /\ UNCHANGED <<settingsVars, repos, uiVars, spent>>
       \/ Fails(u)

\* Refused while a ticket of it is in flight, which is a matter of the tickets.
DeleteProject(u) ==
    \/ Doing(u, "delete", "called") /\ (Fails(u) \/ (Exists(call[u].p) /\ Looked(u)))
    \/ /\ Doing(u, "delete", "looked")
       /\ IF Exists(call[u].p) THEN projects' = [projects EXCEPT ![call[u].p].is = "gone"] /\ Reply(u, "ok")
          ELSE UNCHANGED projects /\ Reply(u, "failed")
       /\ UNCHANGED <<settingsVars, repos, uiVars, spent>>

\* The daemon dies and is started again: it is built with what the file says.  Nothing to tell
\* apart where no call is lost and nothing was waiting for it.
Restart ==
    /\ Spend("restarts", MaxRestarts)
    /\ pendingRestart # {} \/ \E u \in Users : ~NotCalling(u) /\ ~Answered(u)
    /\ booted' = [workers |-> yaml.workers] /\ cfg' = yaml /\ live' = yaml /\ pendingRestart' = {} /\ holder' = "none"
    /\ call' = [u \in Users |-> IF NotCalling(u) \/ Answered(u) THEN call[u]
                                  ELSE IF call[u].heard THEN [call[u] EXCEPT !.at = "lost"] ELSE NoCall]
    /\ UNCHANGED <<yaml, projects, repos, uiVars>>

---------------------------------------------------------------------------
(* The commands of `gravy project`.                                         *)

Commanded(op, p, want) ==
    Spend("commands", MaxCommands) /\ Call("cli", op, p, want, Zero, Zero)
    /\ UNCHANGED <<settingsVars, projects, repos, uiVars>>

Named(path, slug) == [NoRow EXCEPT !.repo = path, !.slug = slug]
\* Bound: as many projects are added as there are ids.
Room == Cardinality(Free) > Cardinality({u \in Users : call[u].op \in {"add", "setup"}})

ProjectAdd(path) == Room /\ Commanded("add", 0, Named(path, path))
ProjectSetRepo(p, path) == Exists(p) /\ Commanded("attach", p, Named(path, path))
ProjectCreateRepo(p, path) == Exists(p) /\ Commanded("create", p, Named(path, path))
ProjectDelete(p) == Exists(p) /\ Commanded("delete", p, NoRow)

\* One field of the row as it was listed, and all the others with it.
ProjectSetTarget(p, branch) ==
    Exists(p) /\ projects[p].target # branch /\ Commanded("update", p, [projects[p] EXCEPT !.target = branch])

ProjectArchive(p, archived) ==
    Exists(p) /\ projects[p].archived # archived /\ Commanded("archive", p, [projects[p] EXCEPT !.archived = archived])

CommandEnds ==
    /\ Answered("cli") /\ call' = [call EXCEPT !["cli"] = NoCall]
    /\ UNCHANGED <<settingsVars, projects, repos, uiVars, spent>>

---------------------------------------------------------------------------
(* The settings screen.  What it shows is a copy, and saving sends all of it.  *)

Typing == wizard.open \/ adding.open
Daemon == <<settingsVars, projects, repos>>

LoadSettings == "screen" \in present /\ ~loading.on /\ holder = "none" /\ loading' = [on |-> TRUE, cfg |-> cfg]

EnterSettings ==
    /\ ~Typing /\ ~settings.dirty /\ LoadSettings
    /\ UNCHANGED <<Daemon, call, settings, wizard, adding, form, spent>>

ReloadSettings ==
    /\ ~Typing /\ settings.loaded /\ LoadSettings /\ settings' = [settings EXCEPT !.dirty = FALSE]
    /\ UNCHANGED <<Daemon, call, wizard, adding, form, spent>>

SettingsLoaded ==
    /\ loading.on /\ loading' = NotLoading
    /\ settings' \in {settings, [loaded |-> TRUE, dirty |-> FALSE, cfg |-> loading.cfg]}
    /\ UNCHANGED <<Daemon, call, wizard, adding, form, spent>>

\* One field at a time, checked as it is entered: a value that is no use is not taken.
FieldTakes(was, c) == Usable(c) /\ c # was /\ \E k \in DOMAIN was : c[k] = was[k]

EditSetting(c) ==
    /\ ~Typing /\ settings.loaded /\ FieldTakes(settings.cfg, c) /\ Spend("edits", MaxEdits)
    /\ settings' = [settings EXCEPT !.cfg = c, !.dirty = TRUE]
    /\ UNCHANGED <<Daemon, call, loading, wizard, adding, form>>

SaveSettings ==
    /\ ~Typing /\ settings.loaded /\ Call("screen", "settings", 0, NoRow, settings.cfg, Zero)
    /\ UNCHANGED <<Daemon, uiVars, spent>>

\* Whatever was edited since, what was saved is what is shown.
SettingsSaved ==
    /\ Answered("screen") /\ call' = [call EXCEPT !["screen"] = NoCall]
    /\ settings' = IF call["screen"].at = "ok" THEN [settings EXCEPT !.cfg = call["screen"].cfg, !.dirty = FALSE]
                 ELSE settings
    /\ UNCHANGED <<Daemon, loading, wizard, adding, form, spent>>

---------------------------------------------------------------------------
(* The setup wizard: a draft of everything, and one call that writes it.      *)

StartWizard ==
    /\ ~Typing /\ ~settings.dirty /\ Call("wizard", "info", 0, NoRow, Zero, Zero)
    /\ wizard' = [NoWizard EXCEPT !.open = TRUE, !.busy = TRUE]
    /\ UNCHANGED <<Daemon, settings, loading, adding, form, spent>>

WizardSays(op) == Doing("wizard", op, "ok") \/ (call["wizard"].op = op /\ Answered("wizard"))
WizardHears == call' = [call EXCEPT !["wizard"] = NoCall]

\* A reading that failed leaves a draft of nothing.
WizardInfo ==
    /\ WizardSays("info") /\ WizardHears
    /\ wizard' = [wizard EXCEPT !.busy = FALSE, !.info = call["wizard"].cfg, !.cfg = call["wizard"].cfg]
    /\ UNCHANGED <<Daemon, settings, loading, adding, form, spent>>

InWizard(step) == wizard.open /\ ~wizard.busy /\ wizard.step = step
WizardOnly == UNCHANGED <<Daemon, settings, loading, adding, form>>

WizardEdit(c) ==
    /\ InWizard(1) /\ FieldTakes(wizard.cfg, c) /\ Spend("edits", MaxEdits)
    /\ wizard' = [wizard EXCEPT !.cfg = c]
    /\ WizardOnly /\ UNCHANGED call

\* On, and back; on from the repository it is one of the two below.
WizardStep ==
    /\ \/ \E s \in {0, 1, 3} : InWizard(s) /\ wizard' = [wizard EXCEPT !.step = s + 1]
       \/ \E s \in {1, 2, 3} : InWizard(s) /\ wizard' = [wizard EXCEPT !.step = s - 1]
       \/ InWizard(4) /\ wizard.project # NoRow /\ wizard' = [wizard EXCEPT !.step = 3]
    /\ WizardOnly /\ UNCHANGED <<call, spent>>

\* No repository: settings alone, where there are projects already.
WizardSkips ==
    /\ InWizard(2) /\ (\E p \in Ids : Exists(p))
    /\ wizard' = [wizard EXCEPT !.step = 4, !.project = NoRow]
    /\ WizardOnly /\ UNCHANGED <<call, spent>>

WizardPath(path) ==
    /\ InWizard(2) /\ Call("wizard", "preview", 0, Named(path, path), Zero, Zero)
    /\ wizard' = [wizard EXCEPT !.busy = TRUE]
    /\ WizardOnly /\ UNCHANGED spent

WizardPreview ==
    /\ WizardSays("preview") /\ WizardHears
    /\ wizard' = IF call["wizard"].at = "ok"
                 THEN [wizard EXCEPT !.busy = FALSE, !.step = 3, !.project = call["wizard"].want]
                 ELSE [wizard EXCEPT !.busy = FALSE]
    /\ WizardOnly /\ UNCHANGED spent

\* Back to the suggestions of a project there is none of: the screen is drawn from nothing, and
\* the program ends.  Its calls are the daemon's to finish.
WizardPanics ==
    /\ InWizard(4) /\ wizard.project = NoRow
    /\ settings' = FreshScreen /\ loading' = NotLoading /\ wizard' = NoWizard /\ adding' = NoPrompt
    /\ form' = NoForm
    /\ call' = [u \in Users |-> IF u \notin Client THEN call[u]
                                  ELSE IF NotCalling(u) \/ Answered(u) THEN NoCall ELSE [call[u] EXCEPT !.heard = FALSE]]
    /\ UNCHANGED <<Daemon, spent>>

WizardApproves ==
    /\ InWizard(4) /\ Usable(wizard.cfg) /\ (wizard.project = NoRow \/ Room)
    /\ Call("wizard", "setup", 0, wizard.project, wizard.cfg, wizard.info)
    /\ wizard' = [wizard EXCEPT !.busy = TRUE]
    /\ WizardOnly /\ UNCHANGED spent

\* Saved, and on to the settings screen, which reads them again.
WizardSaved ==
    /\ WizardSays("setup") /\ WizardHears
    /\ IF call["wizard"].at = "ok"
       THEN /\ wizard' = NoWizard
            /\ IF loading.on THEN UNCHANGED loading ELSE loading' = [on |-> TRUE, cfg |-> cfg]
       ELSE wizard' = [wizard EXCEPT !.busy = FALSE] /\ UNCHANGED loading
    /\ UNCHANGED <<Daemon, settings, adding, form, spent>>

\* While it waits it can be left too, except for the answer of the approval: what comes is not for it.
WizardLeft ==
    /\ wizard.open /\ ~(wizard.busy /\ wizard.step = 4)
    /\ wizard' = NoWizard
    /\ call' = [call EXCEPT !["wizard"] = IF NotCalling("wizard") \/ Answered("wizard") THEN NoCall
                                           ELSE [@ EXCEPT !.heard = FALSE]]
    /\ WizardOnly /\ UNCHANGED spent

---------------------------------------------------------------------------
(* The prompt that adds a project, and the form of one.                      *)

OpenPrompt ==
    /\ "prompt" \in present /\ ~Typing /\ adding' = [open |-> TRUE, busy |-> FALSE]
    /\ UNCHANGED <<Daemon, call, settings, loading, wizard, form, spent>>

SubmitPrompt(path) ==
    /\ adding.open /\ ~adding.busy /\ Room /\ Call("prompt", "add", 0, Named(path, path), Zero, Zero)
    /\ adding' = [adding EXCEPT !.busy = TRUE]
    /\ UNCHANGED <<Daemon, settings, loading, wizard, form, spent>>

\* The answer does not say whose it is: one that was left behind closes the prompt opened since.
PromptDone ==
    /\ Answered("prompt") /\ call' = [call EXCEPT !["prompt"] = NoCall]
    /\ adding' = IF call["prompt"].at = "ok" THEN NoPrompt ELSE [adding EXCEPT !.busy = FALSE]
    /\ UNCHANGED <<Daemon, settings, loading, wizard, form, spent>>

LeavePrompt ==
    /\ adding.open /\ adding' = NoPrompt
    /\ UNCHANGED <<Daemon, call, settings, loading, wizard, form, spent>>

\* A draft of the row as it was listed.
OpenForm(p) ==
    /\ "form" \in present /\ ~Typing /\ Exists(p) /\ form = NoForm /\ Spend("edits", MaxEdits)
    /\ form' = [p |-> p, row |-> [projects[p] EXCEPT !.notes = 1, !.target = "other"]]
    /\ UNCHANGED <<Daemon, call, settings, loading, wizard, adding>>

\* It is saved as it is left.
LeaveForm ==
    /\ ~Typing /\ form # NoForm /\ Call("form", "update", form.p, form.row, Zero, Zero)
    /\ form' = NoForm
    /\ UNCHANGED <<Daemon, settings, loading, wizard, adding, spent>>

\* A project that has a name and no repository yet.
NameProject(slug) ==
    /\ ~Typing /\ form = NoForm /\ Room /\ Call("form", "add", 0, Named("none", slug), Zero, Zero)
    /\ UNCHANGED <<Daemon, uiVars, spent>>

FormDone ==
    /\ Answered("form") /\ call' = [call EXCEPT !["form"] = NoCall]
    /\ UNCHANGED <<Daemon, uiVars, spent>>

---------------------------------------------------------------------------

DaemonNext(u) ==
    \/ UpdateSettings(u) \/ ApplySetup(u) \/ SetupProject(u) \/ SaveSetup(u) \/ UndoSetup(u)
    \/ SetupInfo(u) \/ PreviewSetup(u) \/ AddProject(u) \/ AttachRepository(u)
    \/ CreateRepository(u) \/ UpdateProject(u) \/ ArchiveProject(u) \/ DeleteProject(u)

CommandNext ==
    \/ \E path \in Paths : ProjectAdd(path)
    \/ \E p \in Ids : \/ \E path \in Paths : ProjectSetRepo(p, path) \/ ProjectCreateRepo(p, path)
                      \/ ProjectDelete(p) \/ ProjectSetTarget(p, "other")
                      \/ \E archived \in BOOLEAN : ProjectArchive(p, archived)
    \/ CommandEnds

ScreenNext ==
    \/ EnterSettings \/ ReloadSettings \/ SettingsLoaded \/ SaveSettings \/ SettingsSaved
    \/ \E c \in Values : EditSetting(c) \/ WizardEdit(c)
    \/ StartWizard \/ WizardInfo \/ WizardStep \/ WizardSkips \/ WizardPreview \/ WizardPanics
    \/ WizardApproves \/ WizardSaved \/ WizardLeft
    \/ OpenPrompt \/ PromptDone \/ LeavePrompt \/ LeaveForm \/ FormDone
    \/ \E path \in Repos : WizardPath(path) \/ SubmitPrompt(path)
    \/ \E path \in Paths : NameProject(path)
    \/ \E p \in Ids : OpenForm(p)

SetupNext == UNCHANGED present /\ ((\E u \in present : DaemonNext(u)) \/ CommandNext \/ ScreenNext \/ Restart)

---------------------------------------------------------------------------
(* What the settings and the projects keep to.                              *)

\* What the file says, what the service says and what the scheduler uses are one, usable, and what
\* the daemon was not built with is named; while a setup writes, nothing changes the settings it was
\* drafted from; and a setup that says it failed has left no project behind (setup.go, ApplySetup:
\* "A configuration-save failure rolls back a new project"; liveconfig.go, applyConfig).
SettingsWhole ==
    /\ cfg = yaml /\ live = yaml /\ Usable(yaml) /\ pendingRestart = NotInUse(yaml)
    /\ \A u \in Users : call[u].op = "setup" =>
           /\ call[u].at \in {"prepared", "saving", "undoing"} => cfg = call[u].orig
           /\ call[u].at = "failed" => ~Exists(call[u].p)

\* A project that has its repository keeps it, however old the rows its clients send, unless the
\* row changed between the daemon's own reading and writing of it (settings.go, UpdateProject:
\* "RepoPath and Slug are not among them").
Overtaken(p) == \E u \in Users : call[u].at = "looked" /\ call[u].p = p /\ call[u].read.repo # projects[p].repo
RepositoryKept ==
    [][\A p \in Ids : Exists(p) /\ projects[p].repo # "none" /\ ~Overtaken(p) => projects'[p].repo = projects[p].repo]_setupVars
===============================================================================
