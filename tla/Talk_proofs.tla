------------------------------ MODULE Talk_proofs ------------------------------
(***************************************************************************)
(* Proofs about the two conversations and the tickets a plan becomes, for any  *)
(* requests in flight, any route of models and any plans.                     *)
(***************************************************************************)
EXTENDS Talk, SequenceTheorems, WellFoundedInduction, TLAPS

(***************************************************************************)
(* Tickets are queued with their dependencies.                               *)
(***************************************************************************)

Rows == [links : SUBSET Int, ready : BOOLEAN, finished : BOOLEAN]
ItemRows == [deps : Seq(Int), ready : BOOLEAN]
JobRows == [project : Projects \cup {"none"}, from : Nat, items : Seq(ItemRows),
            stage : {"writing", "failed", "done", "seen"}, made : Seq(Rows), linked : Nat]

\* Of one job: only the last row may be unfinished, an unfinished one is not queued and has
\* the dependencies recorded so far, and a finished one that is queued has them all.
RowWell(job, k) ==
  IF job.made[k].finished
  THEN job.made[k].ready => job.made[k].links = Range(job.items[k].deps)
  ELSE /\ k = Len(job.made) /\ ~job.made[k].ready
       /\ job.linked <= Len(job.items[k].deps)
       /\ job.made[k].links = {job.items[k].deps[n] : n \in 1..job.linked}
JobWell(job) == Len(job.made) <= Len(job.items) /\ \A k \in 1..Len(job.made) : RowWell(job, k)
JobsInv == jobs \in Seq(JobRows) /\ \A i \in 1..Len(jobs) : JobWell(jobs[i])

\* Adding at the end of a sequence, in the terms these proofs need.
LEMMA Appended ==
  ASSUME NEW S, NEW s \in Seq(S), NEW x \in S
  PROVE  /\ Append(s, x) \in Seq(S) /\ Len(Append(s, x)) = Len(s) + 1
         /\ \A k \in 1..Len(s) : Append(s, x)[k] = s[k]
         /\ Append(s, x)[Len(s) + 1] = x
  BY AppendProperties

\* Replacing one element of a sequence.
LEMMA Replaced ==
  ASSUME NEW S, NEW s \in Seq(S), NEW i \in 1..Len(s), NEW x \in S
  PROVE  /\ [s EXCEPT ![i] = x] \in Seq(S) /\ Len([s EXCEPT ![i] = x]) = Len(s)
         /\ \A k \in 1..Len(s) : [s EXCEPT ![i] = x][k] = IF k = i THEN x ELSE s[k]
  BY ExceptSeq

\* What every step makes of the jobs that are there: one of them goes on, and stays well.
LEMMA JobGoesOn ==
  ASSUME JobsInv, NEW i \in 1..Len(jobs), NEW y \in JobRows, JobWell(y),
         jobs' = [jobs EXCEPT ![i] = y]
  PROVE  JobsInv'
  <1>1. jobs' \in Seq(JobRows) /\ Len(jobs') = Len(jobs)
        /\ \A k \in 1..Len(jobs) : jobs'[k] = IF k = i THEN y ELSE jobs[k]
    BY Replaced DEF JobsInv
  <1>2. \A k \in 1..Len(jobs') : JobWell(jobs'[k])
    BY <1>1 DEF JobsInv
  <1>3. QED
    BY <1>1, <1>2 DEF JobsInv

\* A job that has just been asked for has written nothing.
LEMMA JobBegins ==
  ASSUME JobsInv, NEW y \in JobRows, y.made = <<>>, jobs' = Append(jobs, y)
  PROVE  JobsInv'
  <1>1. JobWell(y)
    <2>1. y.items \in Seq(ItemRows) /\ Len(y.made) = 0
      BY DEF JobRows
    <2>2. QED
      BY <2>1, LenProperties DEF JobWell
  <1>2. jobs' \in Seq(JobRows) /\ Len(jobs') = Len(jobs) + 1
        /\ (\A k \in 1..Len(jobs) : jobs'[k] = jobs[k]) /\ jobs'[Len(jobs) + 1] = y
    BY Appended DEF JobsInv
  <1>3. \A k \in 1..Len(jobs') : JobWell(jobs'[k])
    <2> TAKE k \in 1..Len(jobs')
    <2>1. Len(jobs) \in Nat
      BY LenProperties DEF JobsInv
    <2>2. k \in 1..Len(jobs) \/ k = Len(jobs) + 1
      BY <1>2, <2>1
    <2>3. QED
      BY <1>1, <1>2, <2>2 DEF JobsInv
  <1>4. QED
    BY <1>2, <1>3 DEF JobsInv

\* A change of its stage is no change of what a job has written.
LEMMA JobStaged ==
  ASSUME JobsInv, NEW i \in 1..Len(jobs), NEW s \in {"writing", "failed", "done", "seen"},
         jobs' = [jobs EXCEPT ![i].stage = s]
  PROVE  JobsInv'
  <1> DEFINE y == [jobs[i] EXCEPT !.stage = s]
  <1>1. jobs[i] \in JobRows /\ JobWell(jobs[i])
    BY ElementOfSeq DEF JobsInv
  <1>2. y \in JobRows /\ y.made = jobs[i].made /\ y.items = jobs[i].items /\ y.linked = jobs[i].linked
    BY <1>1 DEF JobRows
  <1>3. jobs' = [jobs EXCEPT ![i] = y]
    OBVIOUS
  <1> HIDE DEF y
  <1>4. JobWell(y)
    BY <1>1, <1>2 DEF JobWell, RowWell
  <1>5. QED
    BY <1>2, <1>3, <1>4, JobGoesOn

\* The dependencies of an item.
LEMMA ItemTyped ==
  ASSUME NEW items \in Seq(ItemRows), NEW k \in 1..Len(items)
  PROVE  items[k].deps \in Seq(Int) /\ items[k].ready \in BOOLEAN
  <1>1. items[k] \in ItemRows
    BY ElementOfSeq
  <1>2. QED
    BY <1>1 DEF ItemRows

\* CreateRow: a new row, behind rows that are all finished.
LEMMA CreateRowKeeps == ASSUME JobsInv, NEW i \in DOMAIN jobs, CreateRow(i) PROVE JobsInv'
  <1> DEFINE j == jobs[i]
             n == Len(j.made)
             new == [links |-> {}, ready |-> FALSE, finished |-> FALSE]
             made == Append(j.made, new)
             back == [j EXCEPT !.linked = 0]
             y == [back EXCEPT !.made = made]
  <1>1. i \in 1..Len(jobs) /\ j \in JobRows /\ JobWell(j)
    BY ElementOfSeq, LenProperties DEF JobsInv
  <1>2. j.made \in Seq(Rows) /\ j.items \in Seq(ItemRows) /\ new \in Rows
    BY <1>1 DEF JobRows, Rows
  <1>3. n \in Nat /\ n + 1 <= Len(j.items) /\ (n > 0 => j.made[n].finished)
    BY <1>2, LenProperties DEF CreateRow, RowOpen, Ticket, At
  <1>4. made \in Seq(Rows) /\ Len(made) = n + 1 /\ (\A k \in 1..n : made[k] = j.made[k]) /\ made[n + 1] = new
    BY <1>2, Appended
  <1>5. jobs' = [jobs EXCEPT ![i] = y]
    BY DEF CreateRow
  <1> HIDE DEF made
  <1>6. y \in JobRows /\ y.made = made /\ y.items = j.items /\ y.linked = 0
    BY <1>1, <1>4 DEF JobRows
  <1> HIDE DEF y
  <1>7. \A k \in 1..n : RowWell(y, k)
    <2> TAKE k \in 1..n
    <2>1. j.made[k].finished
      BY <1>1, <1>3 DEF JobWell, RowWell
    <2>2. QED
      BY <2>1, <1>1, <1>4, <1>6 DEF JobWell, RowWell
  <1>8. RowWell(y, n + 1)
    <2>1. n + 1 \in 1..Len(j.items)
      BY <1>2, <1>3, LenProperties
    <2>9. j.items[n + 1].deps \in Seq(Int)
      BY <2>1, <1>2, ItemTyped
    <2>2. Len(j.items[n + 1].deps) \in Nat
      BY <2>9, LenProperties
    <2>3. {j.items[n + 1].deps[m] : m \in 1..0} = {}
      OBVIOUS
    <2>4. QED
      BY <1>4, <1>6, <2>2, <2>3 DEF RowWell
  <1>9. JobWell(y)
    BY <1>3, <1>4, <1>6, <1>7, <1>8 DEF JobWell
  <1>10. QED
    BY <1>1, <1>5, <1>6, <1>9, JobGoesOn
\* What the writer of an open row has in hand: the last row it made, unfinished.
LEMMA OpenRow ==
  ASSUME JobsInv, NEW i \in DOMAIN jobs, Job(i), RowOpen(i)
  PROVE  /\ i \in 1..Len(jobs) /\ jobs[i] \in JobRows /\ JobWell(jobs[i])
         /\ jobs[i].made \in Seq(Rows) /\ At(i) = Len(jobs[i].made) /\ At(i) \in 1..Len(jobs[i].made)
         /\ Ticket(i) = jobs[i].made[At(i)] /\ Ticket(i) \in Rows /\ RowWell(jobs[i], At(i))
         /\ ~Ticket(i).finished
         /\ Item(i).deps \in Seq(Int) /\ Item(i).ready \in BOOLEAN /\ Item(i) = jobs[i].items[At(i)]
  <1>1. i \in 1..Len(jobs) /\ jobs[i] \in JobRows /\ JobWell(jobs[i])
    BY ElementOfSeq, LenProperties DEF JobsInv
  <1>2. jobs[i].made \in Seq(Rows) /\ jobs[i].items \in Seq(ItemRows)
    BY <1>1 DEF JobRows
  <1>3. At(i) = Len(jobs[i].made) /\ At(i) \in 1..Len(jobs[i].made)
    BY <1>2, LenProperties DEF RowOpen, At
  <1>4. jobs[i].made[At(i)] \in Rows
    BY <1>2, <1>3, ElementOfSeq
  <1>5. RowWell(jobs[i], At(i))
    BY <1>1, <1>3 DEF JobWell
  <1>6. At(i) \in 1..Len(jobs[i].items)
    <2>1. Len(jobs[i].made) <= Len(jobs[i].items)
      BY <1>1 DEF JobWell
    <2>2. Len(jobs[i].items) \in Nat
      BY <1>2, LenProperties
    <2>3. QED
      BY <2>1, <2>2, <1>3
  <1>7. jobs[i].items[At(i)].deps \in Seq(Int) /\ jobs[i].items[At(i)].ready \in BOOLEAN
    BY <1>2, <1>6, ItemTyped
  <1>8. Ticket(i) = jobs[i].made[At(i)] /\ Item(i) = jobs[i].items[At(i)]
    BY DEF Ticket, Item
  <1>9. QED
    BY <1>1, <1>2, <1>3, <1>4, <1>5, <1>7, <1>8 DEF RowOpen

\* Writing the open row again leaves the job well when the row is.
LEMMA RowWritten ==
  ASSUME JobsInv, NEW i \in DOMAIN jobs, Job(i), RowOpen(i), NEW row \in Rows, NEW l \in Nat,
         NEW y, y = [jobs[i] EXCEPT !.made = [jobs[i].made EXCEPT ![At(i)] = row], !.linked = l],
         jobs' = [jobs EXCEPT ![i] = y],
         IF row.finished THEN row.ready => row.links = Range(Item(i).deps)
         ELSE ~row.ready /\ l <= Len(Item(i).deps) /\ row.links = {Item(i).deps[n] : n \in 1..l}
  PROVE  JobsInv'
  <1> DEFINE j == jobs[i]
             at == Len(j.made)
             made == [j.made EXCEPT ![at] = row]
             z == [j EXCEPT !.made = made]
  <1>1. i \in 1..Len(jobs) /\ j \in JobRows /\ JobWell(j) /\ j.made \in Seq(Rows) /\ At(i) = at /\ at \in 1..at
    BY OpenRow
  <1>2. made \in Seq(Rows) /\ Len(made) = at
        /\ \A k \in 1..at : made[k] = IF k = at THEN row ELSE j.made[k]
    BY <1>1, Replaced
  <1>3. y = [z EXCEPT !.linked = l]
    BY <1>1
  <1> HIDE DEF made
  <1>4. z \in JobRows /\ z.made = made /\ z.items = j.items
    BY <1>1, <1>2 DEF JobRows
  <1> HIDE DEF z
  <1>5. y \in JobRows /\ y.made = made /\ y.items = j.items /\ y.linked = l
    BY <1>3, <1>4 DEF JobRows
  <1>6. Item(i) = j.items[at]
    BY <1>1 DEF Item
  <1>7. \A k \in 1..at : RowWell(y, k)
    <2> TAKE k \in 1..at
    <2>1. CASE k = at
      BY <2>1, <1>1, <1>2, <1>5, <1>6 DEF RowWell
    <2>2. CASE k # at
      <3>1. RowWell(j, k) /\ j.made[k].finished
        BY <2>2, <1>1 DEF JobWell, RowWell
      <3>2. made[k] = j.made[k]
        BY <2>2, <1>2
      <3>3. QED
        BY <3>1, <3>2, <1>5 DEF RowWell
    <2>3. QED
      BY <2>1, <2>2
  <1>8. JobWell(y)
    BY <1>1, <1>2, <1>5, <1>7 DEF JobWell
  <1>9. QED
    BY <1>1, <1>5, <1>8, JobGoesOn

\* AddDep: one more dependency of the row is recorded.
LEMMA AddDepKeeps == ASSUME JobsInv, NEW i \in DOMAIN jobs, AddDep(i) PROVE JobsInv'
  <1> DEFINE l == jobs[i].linked
             deps == Item(i).deps
             row == [Ticket(i) EXCEPT !.links = @ \cup {deps[l + 1]}]
             y == [jobs[i] EXCEPT !.made = [jobs[i].made EXCEPT ![At(i)] = row], !.linked = l + 1]
  <1>1. Job(i) /\ RowOpen(i) /\ l < Len(deps)
    BY DEF AddDep
  <1>2. jobs[i] \in JobRows /\ Ticket(i) \in Rows /\ deps \in Seq(Int) /\ ~Ticket(i).finished
        /\ RowWell(jobs[i], At(i)) /\ Ticket(i) = jobs[i].made[At(i)] /\ Item(i) = jobs[i].items[At(i)]
    BY <1>1, OpenRow
  <1>3. l \in Nat /\ Len(deps) \in Nat
    BY <1>2, LenProperties DEF JobRows
  <1>4. deps[l + 1] \in Int
    <2>1. l + 1 \in 1..Len(deps)
      BY <1>1, <1>3
    <2>2. QED
      BY <2>1, <1>2, ElementOfSeq
  <1>5. row \in Rows /\ row.finished = FALSE /\ row.ready = Ticket(i).ready
        /\ row.links = Ticket(i).links \cup {deps[l + 1]}
    BY <1>2, <1>4 DEF Rows
  <1>6. ~Ticket(i).ready /\ Ticket(i).links = {deps[n] : n \in 1..l}
    BY <1>2 DEF RowWell
  <1>7. {deps[n] : n \in 1..l} \cup {deps[l + 1]} = {deps[n] : n \in 1..(l + 1)}
    <2>1. 1..(l + 1) = 1..l \cup {l + 1}
      BY <1>3
    <2>2. QED
      BY <2>1
  <1>8. jobs' = [jobs EXCEPT ![i] = y]
    BY DEF AddDep, Written
  <1> HIDE DEF row
  <1>9. ~row.ready /\ l + 1 <= Len(deps) /\ row.links = {deps[n] : n \in 1..(l + 1)}
    BY <1>1, <1>3, <1>5, <1>6, <1>7
  <1>10. l + 1 \in Nat /\ row \in Rows /\ row.finished = FALSE
    BY <1>3, <1>5
  <1> DEFINE m == l + 1
  <1>11. y = [jobs[i] EXCEPT !.made = [jobs[i].made EXCEPT ![At(i)] = row], !.linked = m]
    OBVIOUS
  <1> HIDE DEF y
  <1>12. m \in Nat /\ m <= Len(deps) /\ row.links = {deps[n] : n \in 1..m} /\ ~row.ready
    BY <1>9, <1>10
  <1> HIDE DEF m
  <1>13. QED
    BY <1>1, <1>8, <1>10, <1>11, <1>12, RowWritten

\* FinishTicket: queued or not, the row has every dependency of its item.
LEMMA FinishKeeps == ASSUME JobsInv, NEW i \in DOMAIN jobs, FinishTicket(i) PROVE JobsInv'
  <1> DEFINE l == jobs[i].linked
             deps == Item(i).deps
             mark == [Ticket(i) EXCEPT !.ready = Item(i).ready]
             row == [mark EXCEPT !.finished = TRUE]
             y == [jobs[i] EXCEPT !.made = [jobs[i].made EXCEPT ![At(i)] = row], !.linked = l]
  <1>1. Job(i) /\ RowOpen(i) /\ l = Len(deps)
    BY DEF FinishTicket
  <1>2. jobs[i] \in JobRows /\ Ticket(i) \in Rows /\ deps \in Seq(Int) /\ ~Ticket(i).finished
        /\ RowWell(jobs[i], At(i)) /\ Ticket(i) = jobs[i].made[At(i)] /\ Item(i) = jobs[i].items[At(i)]
        /\ Item(i).ready \in BOOLEAN
    BY <1>1, OpenRow
  <1>3. l \in Nat
    BY <1>2 DEF JobRows
  <1>4. mark \in Rows /\ mark.links = Ticket(i).links
    BY <1>2 DEF Rows
  <1>5. row \in Rows /\ row.finished = TRUE /\ row.links = Ticket(i).links
    BY <1>4 DEF Rows
  <1>6. Ticket(i).links = {deps[n] : n \in 1..l}
    BY <1>2 DEF RowWell
  <1>7. {deps[n] : n \in 1..l} = Range(deps)
    <2>1. DOMAIN deps = 1..l
      BY <1>1, <1>2, LenProperties
    <2>2. QED
      BY <2>1 DEF Range
  <1>8. jobs' = [jobs EXCEPT ![i] = y]
    <2>1. [jobs[i] EXCEPT !.made = [jobs[i].made EXCEPT ![At(i)] = row]] = y
      BY <1>2 DEF JobRows
    <2>2. jobs' = [jobs EXCEPT ![i] = [jobs[i] EXCEPT !.made = [jobs[i].made EXCEPT ![At(i)] = row]]]
      BY DEF FinishTicket, Written
    <2>3. QED
      BY <2>1, <2>2
  <1> HIDE DEF row
  <1>9. QED
    BY <1>1, <1>3, <1>5, <1>6, <1>7, <1>8, RowWritten
\* JobFails and JobDone: the stage alone changes.
LEMMA JobEndsKeep == ASSUME JobsInv, NEW i \in DOMAIN jobs, JobFails(i) \/ JobDone(i) PROVE JobsInv'
  <1>1. i \in 1..Len(jobs)
    BY LenProperties DEF JobsInv
  <1>2. CASE JobFails(i)
    BY <1>1, <1>2, JobStaged DEF JobFails
  <1>3. CASE JobDone(i)
    BY <1>1, <1>3, JobStaged DEF JobDone
  <1>4. QED
    BY <1>2, <1>3

\* CreateTicket, write by write.
LEMMA CreatingKeeps == ASSUME JobsInv, Creating PROVE JobsInv'
  <1>1. PICK i \in DOMAIN jobs : CreateRow(i) \/ AddDep(i) \/ FinishTicket(i) \/ JobFails(i) \/ JobDone(i)
    BY DEF Creating
  <1>2. QED
    BY <1>1, CreateRowKeeps, AddDepKeeps, FinishKeeps, JobEndsKeep

\* A ticket added by hand.
LEMMA AddKeeps == ASSUME JobsInv, Add PROVE JobsInv'
  <1>1. PICK p \in Projects, deps \in {<<>>, <<0>>, <<0, -1>>}, ready \in BOOLEAN :
          jobs' = Append(jobs, NewJob(p, 0, <<[deps |-> deps, ready |-> ready]>>))
    BY DEF Add
  <1> DEFINE item == [deps |-> deps, ready |-> ready]
             items == <<item>>
             y == NewJob(p, 0, items)
  <1>2. deps \in Seq(Int)
    <2>1. <<>> \in Seq(Int) /\ <<0>> \in Seq(Int) /\ <<0, -1>> \in Seq(Int)
      OBVIOUS
    <2>2. QED
      BY <2>1
  <1>3. item \in ItemRows
    BY <1>2 DEF ItemRows
  <1> HIDE DEF item
  <1>4. items \in Seq(ItemRows)
    BY <1>3
  <1> HIDE DEF items
  <1>5. <<>> \in Seq(Rows)
    OBVIOUS
  <1>6. y \in JobRows /\ y.made = <<>>
    BY <1>4, <1>5 DEF JobRows, NewJob
  <1>7. jobs' = Append(jobs, y)
    BY <1>1 DEF items, item
  <1> HIDE DEF y
  <1>8. QED
    BY <1>6, <1>7, JobBegins

(***************************************************************************)
(* The screen of a planning conversation, the engine and what they hold.      *)
(***************************************************************************)

Sessions == [by : Adapters \cup {"none"}, knows : SUBSET Nat]
SomeAgents == Agents \cup {NoAgent}
CallRows == [stage : {"idle", "routing", "speaking", "answered", "failed"}, turn : Nat,
             session : Sessions, agent : SomeAgents, told : SUBSET Nat, tried : SUBSET SomeAgents,
             knows : SUBSET Nat, via : {"none", "stdin", "argument", "file"}]
Screens == [project : Projects \cup {"none"}, session : Sessions, agent : SomeAgents,
            answered : SUBSET Nat, mine : SUBSET Nat, turn : Nat, busy : BOOLEAN,
            tickets : Plans \cup {NoPlan}, from : Nat]

\* Of one request: while it looks for a model, a session it still has knows what it would be
\* told; while a model speaks, that model knows it, in a session of its own if it has one.
CallWell(x) ==
  /\ x.stage # "idle" => x.turn # 0
  /\ x.via = "file" => x.stage = "speaking"
  /\ x.stage \in {"speaking", "answered"} => x.agent \in Agents
  /\ x.stage = "routing" /\ x.session # NoSession => x.told \subseteq x.session.knows
  /\ x.stage = "speaking" => /\ x.told \subseteq x.knows
                             /\ x.session # NoSession => x.session.by = x.agent.provider
EngineInv ==
  /\ asked \in Nat /\ call \in [Calls -> CallRows]
  /\ \A c \in Calls : CallWell(call[c]) /\ call[c].turn <= asked

\* A request answers what was said before it was asked.
Keeps(x, said) ==
  /\ x.stage \in {"routing", "speaking"} => x.told = said
  /\ x.stage = "answered" => said \subseteq x.knows

\* What the engine does of its own to one request.
Goes(x, y) ==
  /\ y \in CallRows /\ CallWell(y)
  /\ x.stage \in {"routing", "speaking"} /\ y.stage # "idle" /\ y.turn = x.turn
  /\ \A said : Keeps(x, said) => Keeps(y, said)

\* The models of the route, and how a prompt reaches them.
LEMMA Reach == /\ \A agent \in Agents : agent.provider \in Adapters
               /\ \A agent \in Agents, long \in BOOLEAN :
                     /\ Via(agent, long) \in {"stdin", "argument", "file"}
                     /\ Executable(agent, long)
  <1>1. \A agent \in Agents : agent.provider \in Adapters
    <2> TAKE agent \in Agents
    <2>1. PICK i \in DOMAIN Route : agent = Route[i]
      BY DEF Agents, Range
    <2>2. Route[i] \in [provider : Adapters, model : STRING]
      BY <2>1, ConversationAssumption, ElementOfSeq, LenProperties
    <2>3. QED
      BY <2>1, <2>2
  <1>2. ASSUME NEW agent \in Agents, NEW long \in BOOLEAN
        PROVE  Via(agent, long) \in {"stdin", "argument", "file"} /\ Executable(agent, long)
    <2>1. agent.provider \in {"claude", "codex", "copilot"}
      BY <1>1 DEF Adapters
    <2>2. QED
      BY <2>1 DEF Via, Executable, ClaudeVia, CodexVia, CopilotVia
  <1>3. QED
    BY <1>1, <1>2

\* No session and no agent, as every conversation begins.
LEMMA NoSessions == /\ NoSession \in Sessions /\ NoSession.knows = {} /\ NoSession.by = "none"
                    /\ NoAgent \in SomeAgents /\ "none" \notin Adapters
  BY DEF NoSession, Sessions, SomeAgents, Adapters

\* A request at rest.
LEMMA IdleTyped == Idle \in CallRows /\ CallWell(Idle) /\ Idle.turn = 0 /\ Idle.stage = "idle"
  <1>1. {} \subseteq Nat /\ {} \subseteq SomeAgents
    OBVIOUS
  <1>2. Idle \in CallRows
    BY <1>1, NoSessions DEF Idle, CallRows
  <1>3. QED
    BY <1>2 DEF Idle, CallWell

\* The model selected is one of the route.
LEMMA SelectedAgents == Selected \subseteq Agents
  BY DEF Selected, Usable, Agents, Range
\* The request that failed.
LEMMA FailedTyped ==
  ASSUME EngineInv, NEW c \in Calls, call[c].stage # "idle"
  PROVE  /\ Failed(c) \in CallRows /\ Failed(c).stage = "failed" /\ Failed(c).turn = call[c].turn
         /\ CallWell(Failed(c)) /\ \A said : Keeps(Failed(c), said)
  <1> DEFINE mark == [Idle EXCEPT !.stage = "failed"]
  <1>1. call[c] \in CallRows /\ call[c].turn # 0
    BY DEF EngineInv, CallWell
  <1>2. mark \in CallRows /\ mark.stage = "failed" /\ mark.via = "none"
    BY IdleTyped DEF CallRows, Idle
  <1>3. Failed(c) = [mark EXCEPT !.turn = call[c].turn]
    BY DEF Failed
  <1> HIDE DEF mark
  <1>4. call[c].turn \in Nat
    BY <1>1 DEF CallRows
  <1>5. /\ Failed(c) \in CallRows /\ Failed(c).stage = "failed" /\ Failed(c).turn = call[c].turn
        /\ Failed(c).via = "none"
    BY <1>2, <1>3, <1>4 DEF CallRows
  <1>6. QED
    BY <1>1, <1>5 DEF CallWell, Keeps

\* Starts: the model chosen is told what the conversation has, by its session or by its prompt.
LEMMA StartsGoes ==
  ASSUME EngineInv, NEW c \in Calls, Starts(c)
  PROVE  \E y : Goes(call[c], y) /\ call' = [call EXCEPT ![c] = y]
  <1>1. call[c].stage = "routing"
    BY DEF Starts
  <1>2. PICK agent \in Selected, long \in BOOLEAN :
          call' = [call EXCEPT ![c] = [Chosen(c, agent) EXCEPT !.stage = "speaking",
                                           !.knows = Told(Chosen(c, agent)), !.via = Via(agent, long)]]
    BY DEF Starts
  <1> DEFINE x == call[c]
             session == SessionFor(c, agent)
             tried == x.tried \cup {agent}
             tries == [x EXCEPT !.tried = tried]
             kept == [tries EXCEPT !.session = session]
             chosen == [kept EXCEPT !.agent = agent]
             knows == Told(chosen)
             via == Via(agent, long)
             speaks == [chosen EXCEPT !.stage = "speaking"]
             told == [speaks EXCEPT !.knows = knows]
             y == [told EXCEPT !.via = via]
  <1>3. x \in CallRows /\ CallWell(x) /\ agent \in Agents /\ agent \in SomeAgents
    BY SelectedAgents DEF EngineInv, SomeAgents
  <1>4. /\ session \in Sessions /\ session \in {x.session, NoSession}
        /\ session # NoSession => session.by = agent.provider
    BY <1>3, NoSessions DEF SessionFor, CallRows
  <1>5. via \in {"stdin", "argument", "file"}
    BY <1>3, Reach
  <1>6. tried \subseteq SomeAgents
    BY <1>3 DEF CallRows
  <1>7. chosen = Chosen(c, agent)
    BY DEF Chosen
  <1> HIDE DEF session, via, tried
  <1>8. tries \in CallRows /\ tries.told = x.told /\ tries.turn = x.turn
    BY <1>3, <1>6 DEF CallRows
  <1> HIDE DEF tries
  <1>9. kept \in CallRows /\ kept.told = x.told /\ kept.turn = x.turn /\ kept.session = session
    BY <1>4, <1>8 DEF CallRows
  <1> HIDE DEF kept
  <1>10. /\ chosen \in CallRows /\ chosen.told = x.told /\ chosen.turn = x.turn
         /\ chosen.session = session /\ chosen.agent = agent
    BY <1>3, <1>9 DEF CallRows
  <1>11. knows \subseteq Nat /\ x.told \subseteq knows
    <2>1. knows = IF session # NoSession THEN session.knows ELSE x.told
      BY <1>10 DEF Told
    <2>2. session # NoSession => x.told \subseteq session.knows
      BY <1>1, <1>3, <1>4 DEF CallWell
    <2>3. session.knows \subseteq Nat /\ x.told \subseteq Nat
      BY <1>3, <1>4 DEF Sessions, CallRows
    <2>4. QED
      BY <2>1, <2>2, <2>3
  <1> HIDE DEF chosen
  <1>12. call' = [call EXCEPT ![c] = y]
    <2>1. y = [chosen EXCEPT !.stage = "speaking", !.knows = Told(chosen), !.via = via]
      OBVIOUS
    <2>2. y = [Chosen(c, agent) EXCEPT !.stage = "speaking", !.knows = Told(Chosen(c, agent)),
                                       !.via = Via(agent, long)]
      BY <2>1, <1>7 DEF via
    <2> HIDE DEF y
    <2>3. QED
      BY <1>2, <2>2
  <1> HIDE DEF knows
  <1>13. /\ speaks \in CallRows /\ speaks.told = x.told /\ speaks.turn = x.turn
         /\ speaks.session = session /\ speaks.agent = agent /\ speaks.stage = "speaking"
    BY <1>10 DEF CallRows
  <1> HIDE DEF speaks
  <1>14. /\ told \in CallRows /\ told.told = x.told /\ told.turn = x.turn /\ told.knows = knows
         /\ told.session = session /\ told.agent = agent /\ told.stage = "speaking"
    BY <1>11, <1>13 DEF CallRows
  <1> HIDE DEF told
  <1>15. /\ y \in CallRows /\ y.told = x.told /\ y.turn = x.turn /\ y.knows = knows
         /\ y.session = session /\ y.agent = agent /\ y.stage = "speaking"
    BY <1>5, <1>14 DEF CallRows
  <1> HIDE DEF y
  <1>16. CallWell(y)
    BY <1>1, <1>3, <1>4, <1>11, <1>15 DEF CallWell
  <1>17. \A said : Keeps(x, said) => Keeps(y, said)
    BY <1>1, <1>15 DEF Keeps
  <1>18. Goes(x, y)
    BY <1>1, <1>15, <1>16, <1>17 DEF Goes
  <1>19. QED
    BY <1>12, <1>18

\* Answers: what the model knew is what its answer was made of.
LEMMA AnswersGoes ==
  ASSUME EngineInv, NEW c \in Calls, Answers(c)
  PROVE  \E y : Goes(call[c], y) /\ call' = [call EXCEPT ![c] = y]
  <1> DEFINE x == call[c]
             said == [x EXCEPT !.stage = "answered"]
             out == [said EXCEPT !.via = "none"]
             told == [out EXCEPT !.told = {}]
             y == [told EXCEPT !.tried = {}]
  <1>1. x \in CallRows /\ CallWell(x) /\ x.stage = "speaking"
    BY DEF EngineInv, Answers
  <1>2. call' = [call EXCEPT ![c] = y] \/ call' = [call EXCEPT ![c] = Failed(c)]
    BY DEF Answers
  <1>3. /\ said \in CallRows /\ said.stage = "answered" /\ said.turn = x.turn
        /\ said.knows = x.knows /\ said.agent = x.agent
    BY <1>1 DEF CallRows
  <1> HIDE DEF said
  <1>4. /\ out \in CallRows /\ out.stage = "answered" /\ out.turn = x.turn /\ out.knows = x.knows
        /\ out.agent = x.agent /\ out.via = "none"
    BY <1>3 DEF CallRows
  <1> HIDE DEF out
  <1>5. /\ told \in CallRows /\ told.stage = "answered" /\ told.turn = x.turn /\ told.knows = x.knows
        /\ told.agent = x.agent /\ told.via = "none"
    BY <1>4 DEF CallRows
  <1> HIDE DEF told
  <1>6. /\ y \in CallRows /\ y.stage = "answered" /\ y.turn = x.turn /\ y.knows = x.knows /\ y.agent = x.agent
        /\ y.via = "none"
    BY <1>5 DEF CallRows
  <1> HIDE DEF y
  <1>7. CallWell(y)
    BY <1>1, <1>6 DEF CallWell
  <1>8. \A heard : Keeps(x, heard) => Keeps(y, heard)
    BY <1>1, <1>6 DEF Keeps, CallWell
  <1>9. Goes(x, y)
    BY <1>1, <1>6, <1>7, <1>8 DEF Goes
  <1>10. Goes(x, Failed(c))
    BY <1>1, FailedTyped DEF Goes
  <1>11. QED
    BY <1>2, <1>9, <1>10

\* OutOfQuota: the session is dropped, what the conversation has is not.
LEMMA OutOfQuotaGoes ==
  ASSUME EngineInv, NEW c \in Calls, OutOfQuota(c)
  PROVE  \E y : Goes(call[c], y) /\ call' = [call EXCEPT ![c] = y]
  <1> DEFINE x == call[c]
             again == [x EXCEPT !.stage = "routing"]
             dropped == [again EXCEPT !.session = NoSession]
             out == [dropped EXCEPT !.via = "none"]
             y == [out EXCEPT !.knows = {}]
  <1>1. x \in CallRows /\ CallWell(x) /\ x.stage = "speaking"
    BY DEF EngineInv, OutOfQuota
  <1>2. call' = [call EXCEPT ![c] = y] \/ call' = [call EXCEPT ![c] = Failed(c)]
    BY DEF OutOfQuota
  <1>3. again \in CallRows /\ again.stage = "routing" /\ again.turn = x.turn /\ again.told = x.told
    BY <1>1 DEF CallRows
  <1> HIDE DEF again
  <1>4. /\ dropped \in CallRows /\ dropped.stage = "routing" /\ dropped.turn = x.turn
        /\ dropped.told = x.told /\ dropped.session = NoSession
    BY <1>3, NoSessions DEF CallRows
  <1> HIDE DEF dropped
  <1>5. /\ out \in CallRows /\ out.stage = "routing" /\ out.turn = x.turn
        /\ out.told = x.told /\ out.session = NoSession /\ out.via = "none"
    BY <1>4 DEF CallRows
  <1> HIDE DEF out
  <1>6. /\ y \in CallRows /\ y.stage = "routing" /\ y.turn = x.turn
        /\ y.told = x.told /\ y.session = NoSession /\ y.via = "none"
    BY <1>5 DEF CallRows
  <1> HIDE DEF y
  <1>7. CallWell(y) /\ \A said : Keeps(x, said) => Keeps(y, said)
    BY <1>1, <1>6 DEF CallWell, Keeps
  <1>8. Goes(x, y)
    BY <1>1, <1>6, <1>7 DEF Goes
  <1>9. Goes(x, Failed(c))
    BY <1>1, FailedTyped DEF Goes
  <1>10. QED
    BY <1>2, <1>8, <1>9

\* Whatever the engine does of its own, it does to one request.
LEMMA ServingGoes ==
  ASSUME EngineInv, Serving
  PROVE  \E c \in Calls : \E y : Goes(call[c], y) /\ call' = [call EXCEPT ![c] = y] /\ asked' = asked
  <1>1. PICK c \in Calls : Served(c)
    BY DEF Serving
  <1>2. asked' = asked
    BY <1>1 DEF Served, NotRouted, StartFails, Starts, Answers, OutOfQuota
  <1>3. ASSUME NotRouted(c) \/ StartFails(c)
        PROVE  \E y : Goes(call[c], y) /\ call' = [call EXCEPT ![c] = y]
    <2>1. Goes(call[c], Failed(c)) /\ call' = [call EXCEPT ![c] = Failed(c)]
      BY <1>3, FailedTyped DEF Goes, NotRouted, StartFails
    <2>2. QED
      BY <2>1
  <1>4. \E y : Goes(call[c], y) /\ call' = [call EXCEPT ![c] = y]
    BY <1>1, <1>3, StartsGoes, AnswersGoes, OutOfQuotaGoes DEF Served
  <1>5. QED
    BY <1>2, <1>4

\* The engine's part of such a step.
LEMMA GoesKeeps ==
  ASSUME EngineInv, NEW c \in Calls, NEW y, y \in CallRows, CallWell(y), y.turn <= asked',
         call' = [call EXCEPT ![c] = y], asked' \in Nat, asked <= asked'
  PROVE  /\ EngineInv' /\ call'[c] = y
         /\ \A d \in Calls : d # c => call'[d] = call[d]
  <1>1. /\ call' \in [Calls -> CallRows] /\ call'[c] = y
        /\ \A d \in Calls : d # c => call'[d] = call[d]
    BY DEF EngineInv
  <1>2. ASSUME NEW d \in Calls
        PROVE  CallWell(call'[d]) /\ call'[d].turn <= asked'
    <2>1. CASE d = c
      BY <1>1, <2>1
    <2>2. CASE d # c
      <3>1. call[d] \in CallRows /\ CallWell(call[d]) /\ call[d].turn <= asked /\ call'[d] = call[d]
        BY <1>1, <2>2 DEF EngineInv
      <3>2. call[d].turn \in Nat
        BY <3>1 DEF CallRows
      <3>3. QED
        BY <3>1, <3>2 DEF EngineInv
    <2>3. QED
      BY <2>1, <2>2
  <1>3. QED
    BY <1>1, <1>2 DEF EngineInv
\* Put: the request asks the next turn, and is told what the conversation has.
LEMMA PutGives ==
  ASSUME EngineInv, NEW c \in Calls, NEW session \in Sessions, NEW agent \in SomeAgents,
         NEW history \in SUBSET Nat, history \subseteq session.knows, Put(c, session, agent, history)
  PROVE  /\ EngineInv' /\ asked' = asked + 1 /\ asked + 1 <= MaxTurns
         /\ call'[c].turn = asked + 1 /\ Keeps(call'[c], history)
         /\ \A d \in Calls : d # c => call'[d] = call[d]
  <1> DEFINE turn == asked + 1
             routing == [Idle EXCEPT !.stage = "routing"]
             turned == [routing EXCEPT !.turn = turn]
             given == [turned EXCEPT !.session = session]
             asks == [given EXCEPT !.agent = agent]
             y == [asks EXCEPT !.told = history]
  <1>1. turn \in Nat /\ turn # 0 /\ asked' = turn /\ turn <= MaxTurns /\ asked <= turn
    BY ConversationAssumption DEF Put, EngineInv
  <1>2. call' = [call EXCEPT ![c] = y]
    BY <1>1 DEF Put
  <1> HIDE DEF turn
  <1>3. routing \in CallRows /\ routing.stage = "routing" /\ routing.via = "none"
    BY IdleTyped DEF CallRows, Idle
  <1> HIDE DEF routing
  <1>4. turned \in CallRows /\ turned.stage = "routing" /\ turned.via = "none" /\ turned.turn = turn
    BY <1>1, <1>3 DEF CallRows
  <1> HIDE DEF turned
  <1>5. /\ given \in CallRows /\ given.stage = "routing" /\ given.via = "none" /\ given.turn = turn
        /\ given.session = session
    BY <1>4 DEF CallRows
  <1> HIDE DEF given
  <1>6. /\ asks \in CallRows /\ asks.stage = "routing" /\ asks.via = "none" /\ asks.turn = turn
        /\ asks.session = session
    BY <1>5 DEF CallRows
  <1> HIDE DEF asks
  <1>7. /\ y \in CallRows /\ y.stage = "routing" /\ y.via = "none" /\ y.turn = turn
        /\ y.session = session /\ y.told = history
    BY <1>6 DEF CallRows
  <1> HIDE DEF y
  <1>8. CallWell(y) /\ Keeps(y, history)
    BY <1>1, <1>7 DEF CallWell, Keeps
  <1>9. y.turn <= asked' /\ asked' \in Nat /\ asked <= asked'
    BY <1>1, <1>7
  <1>10. EngineInv' /\ call'[c] = y /\ \A d \in Calls : d # c => call'[d] = call[d]
    BY <1>2, <1>7, <1>8, <1>9, GoesKeeps
  <1>11. QED
    BY <1>1, <1>7, <1>8, <1>10 DEF turn

\* A request that is over.
LEMMA ReturnGives ==
  ASSUME EngineInv, NEW c \in Calls, call' = [call EXCEPT ![c] = Idle], asked' = asked
  PROVE  /\ EngineInv' /\ call'[c] = Idle /\ \A d \in Calls : d # c => call'[d] = call[d]
  <1>1. Idle \in CallRows /\ CallWell(Idle) /\ Idle.turn <= asked' /\ asked' \in Nat /\ asked <= asked'
    BY IdleTyped DEF EngineInv
  <1>2. QED
    BY <1>1, GoesKeeps

\* The session of an answer knows what the conversation had, and the turn answered.
LEMMA SessionKnows ==
  ASSUME EngineInv, NEW c \in Calls, call[c].stage = "answered",
         NEW said, Keeps(call[c], said)
  PROVE  SessionOf(c) \in Sessions /\ said \cup {call[c].turn} \subseteq SessionOf(c).knows
  <1>1. call[c] \in CallRows
    BY DEF EngineInv
  <1>2. call[c].agent.provider \in Adapters
    BY Reach DEF EngineInv, CallWell
  <1>3. call[c].knows \cup {call[c].turn} \subseteq Nat
    BY <1>1 DEF CallRows
  <1>4. QED
    BY <1>2, <1>3 DEF SessionOf, Sessions, Keeps
\* The screen of a plan: its session knows what it shows as answered; its turns were asked of its
\* project; and a request for the turn in flight answers what the screen shows.
ScreenInv ==
  /\ screen \in Screens /\ filter \in Projects /\ about \in [Turns -> Projects \cup {"none"}]
  /\ asked <= MaxTurns
  /\ screen.answered \subseteq screen.session.knows
  /\ screen.project = "none" => screen.mine = {}
  /\ \A t \in screen.mine : t \in 1..asked /\ about[t] = screen.project
  /\ screen.turn # 0 => screen.turn \in screen.mine
  /\ \A c \in Calls : screen.turn # 0 /\ call[c].turn = screen.turn => Keeps(call[c], screen.answered)
  /\ screen.from # 0 => screen.from \in screen.mine

\* A plan is written for the project it was asked for.
AboutInv == \A i \in 1..Len(jobs) :
  jobs[i].from # 0 => jobs[i].from \in 1..asked /\ about[jobs[i].from] = jobs[i].project

PlanInv == EngineInv /\ ScreenInv /\ AboutInv /\ JobsInv

\* A new screen is a screen.
LEMMA NewScreenTyped == NewScreen \in Screens
  <1>1. {} \subseteq Nat
    OBVIOUS
  <1>2. QED
    BY <1>1, NoSessions DEF NewScreen, Screens

\* The engine goes on: requests for the turn in flight still answer what the screen shows.
LEMMA EngineKeepsPlan ==
  ASSUME PlanInv, Serving \/ CooldownEnds, UNCHANGED planVars
  PROVE  PlanInv'
  <1>1. UNCHANGED <<filter, screen, about, jobs>>
    BY DEF planVars
  <1>2. CASE CooldownEnds
    <2>1. UNCHANGED <<asked, call>>
      BY <1>2 DEF CooldownEnds
    <2>2. EngineInv'
      BY <2>1 DEF PlanInv, EngineInv
    <2>3. ScreenInv' /\ AboutInv' /\ JobsInv'
      BY <1>1, <2>1 DEF PlanInv, ScreenInv, AboutInv, JobsInv
    <2>4. QED
      BY <2>2, <2>3 DEF PlanInv
  <1>3. CASE Serving
    <2>9. PICK c \in Calls : \E y : Goes(call[c], y) /\ call' = [call EXCEPT ![c] = y] /\ asked' = asked
      BY <1>3, ServingGoes DEF PlanInv
    <2>1. PICK y : Goes(call[c], y) /\ call' = [call EXCEPT ![c] = y] /\ asked' = asked
      BY <2>9
    <2>2. y \in CallRows /\ CallWell(y) /\ y.turn = call[c].turn /\ y.turn <= asked' /\ asked' \in Nat /\ asked <= asked'
      BY <2>1 DEF Goes, PlanInv, EngineInv
    <2>3. EngineInv' /\ call'[c] = y /\ \A d \in Calls : d # c => call'[d] = call[d]
      BY <2>1, <2>2, GoesKeeps DEF PlanInv
    <2>4. ASSUME NEW d \in Calls, screen.turn # 0, call'[d].turn = screen.turn
          PROVE  Keeps(call'[d], screen.answered)
      <3>1. CASE d = c
        BY <2>1, <2>2, <2>3, <2>4, <3>1 DEF Goes, PlanInv, ScreenInv
      <3>2. CASE d # c
        BY <2>3, <2>4, <3>2 DEF PlanInv, ScreenInv
      <3>3. QED
        BY <3>1, <3>2
    <2>5. ScreenInv'
      BY <1>1, <2>1, <2>4 DEF PlanInv, ScreenInv
    <2>6. AboutInv' /\ JobsInv'
      BY <1>1, <2>1 DEF PlanInv, AboutInv, JobsInv
    <2>7. QED
      BY <2>3, <2>5, <2>6 DEF PlanInv
  <1>4. QED
    BY <1>2, <1>3

\* Ask: the turn is the newest there is, and is asked of the project of the conversation.
LEMMA AskKeeps == ASSUME PlanInv, NEW c \in Calls, Ask(c) PROVE PlanInv'
  <1> DEFINE project == IF screen.project = "none" THEN filter ELSE screen.project
             turn == asked + 1
             mine == screen.mine \cup {turn}
             of == [screen EXCEPT !.project = project]
             waits == [of EXCEPT !.busy = TRUE]
             turned == [waits EXCEPT !.turn = turn]
             y == [turned EXCEPT !.mine = mine]
  <1>1. /\ EngineInv /\ ScreenInv /\ screen \in Screens /\ screen.session \in Sessions
        /\ screen.agent \in SomeAgents /\ screen.answered \in SUBSET Nat /\ screen.mine \subseteq Nat
        /\ screen.answered \subseteq screen.session.knows
    BY DEF PlanInv, ScreenInv, Screens
  <1>2. Put(c, screen.session, screen.agent, screen.answered) /\ project # "none"
    BY DEF Ask
  <1>3. /\ EngineInv' /\ asked' = turn /\ turn <= MaxTurns
        /\ call'[c].turn = turn /\ Keeps(call'[c], screen.answered)
        /\ \A d \in Calls : d # c => call'[d] = call[d]
    BY <1>1, <1>2, PutGives
  <1>4. turn \in Nat /\ turn # 0 /\ turn \in Turns /\ asked \in Nat /\ turn \notin 1..asked
    BY <1>1, <1>3, ConversationAssumption DEF EngineInv, Turns
  <1>5. project \in Projects \cup {"none"}
    BY <1>1 DEF ScreenInv, Screens
  <1>6. screen' = y /\ about' = [about EXCEPT ![turn] = project] /\ UNCHANGED <<filter, jobs>>
    BY <1>3 DEF Ask
  <1>7. screen.project # "none" => project = screen.project
    OBVIOUS
  <1>8. screen.project = "none" => screen.mine = {}
    BY <1>1 DEF ScreenInv
  <1>9. mine \subseteq Nat
    BY <1>1, <1>4
  <1>10. (\A t \in 1..asked : t \in 1..turn)
    BY <1>4
  <1> HIDE DEF project, turn, mine
  <1>11. /\ of \in Screens /\ of.project = project /\ of.answered = screen.answered
         /\ of.session = screen.session /\ of.from = screen.from
    BY <1>1, <1>5 DEF Screens
  <1> HIDE DEF of
  <1>12. /\ waits \in Screens /\ waits.project = project /\ waits.answered = screen.answered
         /\ waits.session = screen.session /\ waits.from = screen.from
    BY <1>11 DEF Screens
  <1> HIDE DEF waits
  <1>13. /\ turned \in Screens /\ turned.project = project /\ turned.answered = screen.answered
         /\ turned.session = screen.session /\ turned.from = screen.from /\ turned.turn = turn
    BY <1>4, <1>12 DEF Screens
  <1> HIDE DEF turned
  <1>14. /\ y \in Screens /\ y.project = project /\ y.answered = screen.answered
         /\ y.session = screen.session /\ y.from = screen.from /\ y.turn = turn /\ y.mine = mine
    BY <1>9, <1>13 DEF Screens
  <1> HIDE DEF y
  <1>15. about \in [Turns -> Projects \cup {"none"}]
    BY <1>1 DEF ScreenInv
  <1>16. /\ about' \in [Turns -> Projects \cup {"none"}] /\ about'[turn] = project
         /\ \A t \in 1..asked : about'[t] = about[t]
    <2>1. 1..asked \subseteq Turns
      BY <1>1, <1>4, ConversationAssumption DEF Turns, ScreenInv
    <2>2. QED
      BY <1>4, <1>5, <1>6, <1>15, <2>1
  <1>17. \A t \in screen.mine : t \in 1..asked /\ about[t] = screen.project
    BY <1>1 DEF ScreenInv
  <1>18. ASSUME NEW t \in mine
         PROVE  t \in 1..turn /\ about'[t] = project
    <2>1. CASE t = turn
      BY <2>1, <1>4, <1>16
    <2>2. CASE t \in screen.mine
      BY <2>2, <1>7, <1>8, <1>10, <1>16, <1>17
    <2>3. QED
      BY <2>1, <2>2 DEF mine
  <1>19. ASSUME NEW d \in Calls, call'[d].turn = turn
         PROVE  Keeps(call'[d], screen.answered)
    <2>1. d = c
      <3>1. SUFFICES ASSUME d # c PROVE FALSE
        OBVIOUS
      <3>2. call[d].turn = turn /\ call[d].turn <= asked
        BY <3>1, <1>1, <1>3, <1>19 DEF EngineInv
      <3>3. QED
        BY <3>2, <1>1 DEF turn, EngineInv
    <2>2. QED
      BY <2>1, <1>3
  <1>20. screen.from # 0 => screen.from \in mine
    BY <1>1 DEF ScreenInv, mine
  <1>21. ScreenInv'
    <2>1. /\ screen' \in Screens /\ filter' \in Projects /\ asked' <= MaxTurns
          /\ screen'.answered \subseteq screen'.session.knows
      BY <1>1, <1>3, <1>6, <1>14 DEF ScreenInv
    <2>2. screen'.project # "none" /\ screen'.turn \in screen'.mine
      BY <1>2, <1>6, <1>14 DEF mine
    <2>3. \A t \in screen'.mine : t \in 1..asked' /\ about'[t] = screen'.project
      BY <1>3, <1>6, <1>14, <1>18
    <2>4. \A d \in Calls : call'[d].turn = screen'.turn => Keeps(call'[d], screen'.answered)
      BY <1>6, <1>14, <1>19
    <2>5. screen'.from # 0 => screen'.from \in screen'.mine
      BY <1>6, <1>14, <1>20
    <2>6. QED
      BY <2>1, <2>2, <2>3, <2>4, <2>5, <1>16 DEF ScreenInv
  <1>22. AboutInv' /\ JobsInv'
    BY <1>3, <1>6, <1>10, <1>16 DEF PlanInv, AboutInv, JobsInv
  <1>23. QED
    BY <1>3, <1>21, <1>22 DEF PlanInv
\* TurnAnswered: an answer that is for the turn in flight brings a session that knows it.
LEMMA TurnAnsweredKeeps == ASSUME PlanInv, NEW c \in Calls, TurnAnswered(c) PROVE PlanInv'
  <1>1. EngineInv /\ ScreenInv /\ screen \in Screens /\ call[c] \in CallRows
    BY DEF PlanInv, ScreenInv, EngineInv
  <1>2. call[c].stage \in {"answered", "failed"} /\ call' = [call EXCEPT ![c] = Idle] /\ asked' = asked
        /\ UNCHANGED <<filter, about, jobs>>
    BY DEF TurnAnswered
  <1>3. EngineInv' /\ call'[c] = Idle /\ \A d \in Calls : d # c => call'[d] = call[d]
    BY <1>1, <1>2, ReturnGives
  <1>4. AboutInv' /\ JobsInv'
    BY <1>2 DEF PlanInv, AboutInv, JobsInv
  <1>5. CASE screen' = screen
    <2>1. ASSUME NEW d \in Calls, screen.turn # 0, call'[d].turn = screen.turn
          PROVE  Keeps(call'[d], screen.answered)
      BY <1>1, <1>3, <2>1, IdleTyped DEF ScreenInv
    <2>2. ScreenInv'
      BY <1>1, <1>2, <1>5, <2>1 DEF ScreenInv
    <2>3. QED
      BY <1>3, <1>4, <2>2 DEF PlanInv
  <1>6. CASE call[c].turn = screen.turn /\ \E plan \in Plans \cup {NoPlan} : screen' = Shown(c, plan)
    <2>1. PICK plan \in Plans \cup {NoPlan} : screen' = Shown(c, plan)
      BY <1>6
    <2> DEFINE session == SessionOf(c)
               agent == call[c].agent
               answered == screen.answered \cup {call[c].turn}
               tickets == IF plan = NoPlan THEN screen.tickets ELSE plan
               from == IF plan = NoPlan THEN screen.from ELSE call[c].turn
               left == [screen EXCEPT !.turn = 0]
               free == [left EXCEPT !.busy = FALSE]
               kept == [free EXCEPT !.session = session]
               by == [kept EXCEPT !.agent = agent]
               heard == [by EXCEPT !.answered = answered]
               shown == [heard EXCEPT !.tickets = tickets]
               y == [shown EXCEPT !.from = from]
    <2>2. left \in Screens /\ left.turn = 0 /\ left.answered = screen.answered /\ left.mine = screen.mine
          /\ left.project = screen.project /\ left.session = screen.session /\ left.from = screen.from
          /\ left.tickets = screen.tickets
      BY <1>1 DEF Screens
    <2>3. free \in Screens /\ free.turn = 0 /\ free.answered = screen.answered /\ free.mine = screen.mine
          /\ free.project = screen.project /\ free.session = screen.session /\ free.from = screen.from
          /\ free.tickets = screen.tickets
      <3> HIDE DEF left
      <3>1. QED
        BY <2>2 DEF Screens
    <2>4. \A t \in screen.mine : t \in 1..asked /\ about[t] = screen.project
      BY <1>1 DEF ScreenInv
    <2>5. screen.from # 0 => screen.from \in screen.mine
      BY <1>1 DEF ScreenInv
    <2>6. CASE call[c].stage = "failed"
      <3>1. screen' = free
        BY <2>1, <2>6 DEF Shown
      <3> HIDE DEF free
      <3>2. ScreenInv'
        <4>1. /\ screen' \in Screens /\ filter' \in Projects /\ about' \in [Turns -> Projects \cup {"none"}]
              /\ asked' <= MaxTurns /\ screen'.answered \subseteq screen'.session.knows
              /\ (screen'.project = "none" => screen'.mine = {})
          BY <1>1, <1>2, <2>3, <3>1 DEF ScreenInv
        <4>2. \A t \in screen'.mine : t \in 1..asked' /\ about'[t] = screen'.project
          BY <1>2, <2>3, <2>4, <3>1
        <4>3. screen'.turn = 0 /\ (screen'.from # 0 => screen'.from \in screen'.mine)
          BY <2>3, <2>5, <3>1
        <4>4. QED
          BY <4>1, <4>2, <4>3 DEF ScreenInv
      <3>3. QED
        BY <1>3, <1>4, <3>2 DEF PlanInv
    <2>7. CASE call[c].stage = "answered"
      <3>1. screen' = y
        <4>1. screen' = [screen EXCEPT !.turn = 0, !.busy = FALSE, !.session = session, !.agent = agent,
                             !.answered = answered, !.tickets = tickets, !.from = from]
          BY <2>1, <2>7, <1>1 DEF Shown, Screens
        <4>2. QED
          BY <4>1
      <3>2. call[c].turn \in Nat /\ agent \in SomeAgents /\ answered \subseteq Nat
            /\ tickets \in Plans \cup {NoPlan} /\ from \in Nat
        BY <1>1, <2>1 DEF CallRows, Screens
      <3>3. screen.turn # 0 => Keeps(call[c], screen.answered)
        BY <1>1, <1>6 DEF ScreenInv
      <3>4. screen.turn # 0
        BY <1>1, <1>6, <2>7 DEF EngineInv, CallWell
      <3>5. session \in Sessions /\ answered \subseteq session.knows
        BY <1>1, <2>7, <3>3, <3>4, SessionKnows
      <3>6. from # 0 => from \in screen.mine
        BY <1>1, <1>6, <3>4 DEF ScreenInv
      <3> HIDE DEF free, session, agent, answered, tickets, from
      <3>7. kept \in Screens /\ kept.turn = 0 /\ kept.mine = screen.mine
            /\ kept.project = screen.project /\ kept.session = session
        BY <2>3, <3>5 DEF Screens
      <3> HIDE DEF kept
      <3>8. by \in Screens /\ by.turn = 0 /\ by.mine = screen.mine
            /\ by.project = screen.project /\ by.session = session
        BY <3>2, <3>7 DEF Screens
      <3> HIDE DEF by
      <3>9. heard \in Screens /\ heard.turn = 0 /\ heard.answered = answered /\ heard.mine = screen.mine
            /\ heard.project = screen.project /\ heard.session = session
        BY <3>2, <3>8 DEF Screens
      <3> HIDE DEF heard
      <3>10. shown \in Screens /\ shown.turn = 0 /\ shown.answered = answered /\ shown.mine = screen.mine
             /\ shown.project = screen.project /\ shown.session = session
        BY <3>2, <3>9 DEF Screens
      <3> HIDE DEF shown
      <3>11. y \in Screens /\ y.turn = 0 /\ y.answered = answered /\ y.mine = screen.mine
             /\ y.project = screen.project /\ y.session = session /\ y.from = from
        BY <3>2, <3>10 DEF Screens
      <3> HIDE DEF y
      <3>12. ScreenInv'
        <4>1. /\ screen' \in Screens /\ filter' \in Projects /\ about' \in [Turns -> Projects \cup {"none"}]
              /\ asked' <= MaxTurns /\ screen'.answered \subseteq screen'.session.knows
              /\ (screen'.project = "none" => screen'.mine = {})
          BY <1>1, <1>2, <3>1, <3>5, <3>11 DEF ScreenInv
        <4>2. \A t \in screen'.mine : t \in 1..asked' /\ about'[t] = screen'.project
          BY <1>2, <2>4, <3>1, <3>11
        <4>3. screen'.turn = 0 /\ (screen'.from # 0 => screen'.from \in screen'.mine)
          BY <3>1, <3>6, <3>11
        <4>4. QED
          BY <4>1, <4>2, <4>3 DEF ScreenInv
      <3>13. QED
        BY <1>3, <1>4, <3>12 DEF PlanInv
    <2>8. QED
      BY <1>2, <2>6, <2>7
  <1>7. QED
    BY <1>5, <1>6 DEF TurnAnswered
\* The filter and the conversation on the screen, moved by the human.
LEMMA ScreenMoves == ASSUME PlanInv, FilterMoves \/ StartOver PROVE PlanInv'
  <1>1. UNCHANGED <<asked, call, about, jobs>>
    BY DEF FilterMoves, StartOver, engine
  <1>2. EngineInv' /\ AboutInv' /\ JobsInv'
    BY <1>1 DEF PlanInv, EngineInv, AboutInv, JobsInv
  <1>3. CASE FilterMoves
    <2>1. filter' \in Projects /\ screen' = screen
      BY <1>3 DEF FilterMoves
    <2>2. ScreenInv'
      BY <1>1, <2>1 DEF PlanInv, ScreenInv
    <2>3. QED
      BY <1>2, <2>2 DEF PlanInv
  <1>4. CASE StartOver
    <2>1. screen' = NewScreen /\ filter' = filter
      BY <1>4 DEF StartOver
    <2>2. ScreenInv'
      BY <1>1, <2>1, NewScreenTyped DEF PlanInv, ScreenInv, NewScreen, NoSession
    <2>3. QED
      BY <1>2, <2>2 DEF PlanInv
  <1>5. QED
    BY <1>3, <1>4

\* Only the marks of the screen move: whether it waits, and what it proposes.
LEMMA MarksMove ==
  ASSUME PlanInv, UNCHANGED <<asked, call, filter, about>>, screen' \in Screens,
         screen'.answered = screen.answered, screen'.session = screen.session,
         screen'.mine = screen.mine, screen'.project = screen.project, screen'.turn = screen.turn,
         screen'.from \in {screen.from, 0}
  PROVE  EngineInv' /\ ScreenInv'
  <1>1. EngineInv'
    BY DEF PlanInv, EngineInv
  <1>2. ScreenInv'
    BY DEF PlanInv, ScreenInv
  <1>3. QED
    BY <1>1, <1>2

\* The items of a plan are items.
LEMMA ItemsTyped == ASSUME NEW plan \in Plans \cup {NoPlan}, NEW ready \in BOOLEAN
                    PROVE  Items(plan, ready) \in Seq(ItemRows)
  <1>1. plan \in Seq(Seq(Int))
    <2>1. <<>> \in Seq(Seq(Int))
      BY EmptySeq
    <2>2. CASE plan = NoPlan
      BY <2>1, <2>2 DEF NoPlan
    <2>3. CASE plan \in Plans
      BY <2>3, PlanningAssumption
    <2>4. QED
      BY <2>2, <2>3
  <1>2. Len(plan) \in Nat /\ DOMAIN plan = 1..Len(plan)
    BY <1>1, LenProperties
  <1>3. ASSUME NEW k \in 1..Len(plan)
        PROVE  [deps |-> plan[k], ready |-> ready /\ plan[k] = <<>>] \in ItemRows
    <2>1. plan[k] \in Seq(Int)
      BY <1>1, <1>3, ElementOfSeq
    <2>2. (ready /\ plan[k] = <<>>) \in BOOLEAN
      OBVIOUS
    <2>3. QED
      BY <2>1, <2>2 DEF ItemRows
  <1>4. Items(plan, ready) = [k \in 1..Len(plan) |-> [deps |-> plan[k], ready |-> ready /\ plan[k] = <<>>]]
    BY <1>2 DEF Items
  <1>5. QED
    BY <1>2, <1>3, <1>4, IsASeq

\* Approve: the plan is written for the project its turn was asked of.
LEMMA ApproveKeeps == ASSUME PlanInv, Approve PROVE PlanInv'
  <1>1. /\ screen \in Screens /\ jobs \in Seq(JobRows) /\ screen.project \in Projects \cup {"none"}
        /\ screen.tickets \in Plans \cup {NoPlan} /\ screen.from \in Nat
    BY DEF PlanInv, ScreenInv, JobsInv, Screens
  <1>2. /\ screen' = [screen EXCEPT !.busy = TRUE] /\ UNCHANGED <<asked, call, filter, about>>
    BY DEF Approve, engine
  <1>3. /\ screen' \in Screens /\ screen'.answered = screen.answered /\ screen'.session = screen.session
        /\ screen'.mine = screen.mine /\ screen'.project = screen.project /\ screen'.turn = screen.turn
        /\ screen'.from = screen.from
    BY <1>1, <1>2 DEF Screens
  <1>4. EngineInv' /\ ScreenInv'
    BY <1>2, <1>3, MarksMove
  <1>5. PICK ready \in BOOLEAN :
          LET items == Items(screen.tickets, ready) IN
          jobs' = Append(jobs, [NewJob(screen.project, screen.from, items) EXCEPT
                                    !.stage = IF ValidatePlan(items) THEN "writing" ELSE "failed"])
    BY DEF Approve
  <1> DEFINE items == Items(screen.tickets, ready)
             stage == IF ValidatePlan(items) THEN "writing" ELSE "failed"
             new == NewJob(screen.project, screen.from, items)
             y == [new EXCEPT !.stage = stage]
  <1>6. jobs' = Append(jobs, y)
    BY <1>5
  <1>7. items \in Seq(ItemRows) /\ stage \in {"writing", "failed"}
    BY <1>1, ItemsTyped
  <1> HIDE DEF items, stage
  <1>8. new \in JobRows /\ new.made = <<>> /\ new.from = screen.from /\ new.project = screen.project
    <2>1. <<>> \in Seq(Rows)
      OBVIOUS
    <2>2. QED
      BY <1>1, <1>7, <2>1 DEF JobRows, NewJob
  <1> HIDE DEF new
  <1>9. y \in JobRows /\ y.made = <<>> /\ y.from = screen.from /\ y.project = screen.project
    BY <1>7, <1>8 DEF JobRows
  <1> HIDE DEF y
  <1>10. JobsInv'
    BY <1>6, <1>9, JobBegins DEF PlanInv
  <1>11. AboutInv'
    <2>1. /\ Len(jobs') = Len(jobs) + 1 /\ jobs'[Len(jobs) + 1] = y /\ Len(jobs) \in Nat
          /\ \A k \in 1..Len(jobs) : jobs'[k] = jobs[k]
      BY <1>1, <1>6, <1>9, Appended, LenProperties
    <2>2. y.from # 0 => y.from \in 1..asked /\ about[y.from] = y.project
      BY <1>9 DEF PlanInv, ScreenInv
    <2>3. \A k \in 1..Len(jobs') : k \in 1..Len(jobs) \/ k = Len(jobs) + 1
      BY <2>1
    <2>4. QED
      BY <1>2, <2>1, <2>2, <2>3 DEF PlanInv, AboutInv
  <1>12. QED
    BY <1>4, <1>10, <1>11 DEF PlanInv

\* No step of a job that is there changes what it is for.
LEMMA JobKeepsProject ==
  ASSUME PlanInv, NEW i \in 1..Len(jobs), NEW y, y \in JobRows, jobs' = [jobs EXCEPT ![i] = y],
         y.from = jobs[i].from, y.project = jobs[i].project, asked' = asked, about' = about
  PROVE  AboutInv'
  <1>1. Len(jobs') = Len(jobs) /\ \A k \in 1..Len(jobs) : jobs'[k] = IF k = i THEN y ELSE jobs[k]
    BY Replaced DEF PlanInv, JobsInv
  <1>2. QED
    BY <1>1 DEF PlanInv, AboutInv

\* Approved: the answer to an approval.
LEMMA ApprovedKeeps == ASSUME PlanInv, NEW i \in DOMAIN jobs, Approved(i) PROVE PlanInv'
  <1>1. screen \in Screens /\ jobs \in Seq(JobRows)
    BY DEF PlanInv, ScreenInv, JobsInv
  <1>2. UNCHANGED <<asked, call, filter, about>> /\ jobs' = [jobs EXCEPT ![i].stage = "seen"]
    BY DEF Approved, engine
  <1> DEFINE free == [screen EXCEPT !.busy = FALSE]
             clear == [free EXCEPT !.tickets = NoPlan]
             y == [clear EXCEPT !.from = 0]
  <1>3. screen' = y \/ screen' = free
    BY DEF Approved
  <1>4. /\ free \in Screens /\ free.answered = screen.answered /\ free.session = screen.session
        /\ free.mine = screen.mine /\ free.project = screen.project /\ free.turn = screen.turn
        /\ free.from = screen.from
    BY <1>1 DEF Screens
  <1> HIDE DEF free
  <1>5. /\ clear \in Screens /\ clear.answered = screen.answered /\ clear.session = screen.session
        /\ clear.mine = screen.mine /\ clear.project = screen.project /\ clear.turn = screen.turn
    BY <1>4 DEF Screens
  <1> HIDE DEF clear
  <1>6. /\ y \in Screens /\ y.answered = screen.answered /\ y.session = screen.session
        /\ y.mine = screen.mine /\ y.project = screen.project /\ y.turn = screen.turn
        /\ y.from = 0
    BY <1>5 DEF Screens
  <1> HIDE DEF y
  <1>7. EngineInv' /\ ScreenInv'
    BY <1>2, <1>3, <1>4, <1>6, MarksMove
  <1>8. i \in 1..Len(jobs) /\ jobs[i] \in JobRows
    BY <1>1, ElementOfSeq, LenProperties
  <1>9. JobsInv'
    BY <1>2, <1>8, JobStaged DEF PlanInv
  <1> DEFINE z == [jobs[i] EXCEPT !.stage = "seen"]
  <1>10. z \in JobRows /\ z.from = jobs[i].from /\ z.project = jobs[i].project
         /\ jobs' = [jobs EXCEPT ![i] = z]
    BY <1>2, <1>8 DEF JobRows
  <1> HIDE DEF z
  <1>11. AboutInv'
    BY <1>2, <1>8, <1>10, JobKeepsProject
  <1>12. QED
    BY <1>7, <1>9, <1>11 DEF PlanInv
\* CreateTicket writes rows, and never what the job is for.
LEMMA CreatingKeepsPlan == ASSUME PlanInv, Creating PROVE PlanInv'
  <1>1. PICK i \in DOMAIN jobs : CreateRow(i) \/ AddDep(i) \/ FinishTicket(i) \/ JobFails(i) \/ JobDone(i)
    BY DEF Creating
  <1>2. UNCHANGED <<asked, call, filter, screen, about>>
    BY <1>1 DEF CreateRow, AddDep, FinishTicket, JobFails, JobDone, engine
  <1>3. EngineInv' /\ ScreenInv'
    BY <1>2 DEF PlanInv, EngineInv, ScreenInv
  <1>4. JobsInv'
    BY CreatingKeeps DEF PlanInv
  <1>5. i \in 1..Len(jobs) /\ jobs[i] \in JobRows
    BY ElementOfSeq, LenProperties DEF PlanInv, JobsInv
  <1>6. \E y : /\ jobs' = [jobs EXCEPT ![i] = y]
               /\ y.from = jobs[i].from /\ y.project = jobs[i].project
    <2>1. ASSUME NEW m, NEW n
          PROVE  LET y == [jobs[i] EXCEPT !.linked = n, !.made = m]
                     z == [jobs[i] EXCEPT !.made = m]
                     w == [jobs[i] EXCEPT !.stage = m]
                     v == [jobs[i] EXCEPT !.made = m, !.linked = n] IN
                 /\ y.from = jobs[i].from /\ y.project = jobs[i].project
                 /\ z.from = jobs[i].from /\ z.project = jobs[i].project
                 /\ w.from = jobs[i].from /\ w.project = jobs[i].project
                 /\ v.from = jobs[i].from /\ v.project = jobs[i].project
      BY <1>5 DEF JobRows
    <2>2. CASE CreateRow(i)
      <3> DEFINE m == Append(jobs[i].made, [links |-> {}, ready |-> FALSE, finished |-> FALSE])
      <3>1. jobs' = [jobs EXCEPT ![i] = [jobs[i] EXCEPT !.linked = 0, !.made = m]]
        BY <2>2, <1>5 DEF CreateRow, JobRows
      <3> HIDE DEF m
      <3>2. QED
        BY <2>1, <3>1
    <2>3. CASE AddDep(i)
      <3> DEFINE m == [jobs[i].made EXCEPT ![At(i)] = [Ticket(i) EXCEPT !.links = @ \cup {Item(i).deps[jobs[i].linked + 1]}]]
                 n == jobs[i].linked + 1
      <3>1. jobs' = [jobs EXCEPT ![i] = [jobs[i] EXCEPT !.made = m, !.linked = n]]
        BY <2>3 DEF AddDep, Written
      <3> HIDE DEF m, n
      <3> DEFINE v == [jobs[i] EXCEPT !.made = m, !.linked = n]
      <3>2. v.from = jobs[i].from /\ v.project = jobs[i].project
        BY <2>1
      <3> HIDE DEF v
      <3>3. QED
        BY <3>1, <3>2 DEF v
    <2>4. CASE FinishTicket(i)
      <3> DEFINE m == [jobs[i].made EXCEPT ![At(i)] = [Ticket(i) EXCEPT !.ready = Item(i).ready, !.finished = TRUE]]
      <3>1. jobs' = [jobs EXCEPT ![i] = [jobs[i] EXCEPT !.made = m]]
        BY <2>4 DEF FinishTicket, Written
      <3> HIDE DEF m
      <3>2. QED
        BY <2>1, <3>1
    <2>5. CASE JobFails(i) \/ JobDone(i)
      <3>1. PICK m \in {"failed", "done"} : jobs' = [jobs EXCEPT ![i] = [jobs[i] EXCEPT !.stage = m]]
        BY <2>5 DEF JobFails, JobDone
      <3>2. QED
        BY <2>1, <3>1
    <2>6. QED
      BY <1>1, <2>2, <2>3, <2>4, <2>5
  <1>7. AboutInv'
    <2>1. PICK y : /\ jobs' = [jobs EXCEPT ![i] = y]
                   /\ y.from = jobs[i].from /\ y.project = jobs[i].project
      BY <1>6
    <2>2. jobs' \in Seq(JobRows) /\ jobs \in Seq(JobRows)
      BY <1>4 DEF JobsInv, PlanInv
    <2>3. DOMAIN jobs' = DOMAIN jobs
      BY <2>1
    <2>4. Len(jobs') = Len(jobs) /\ DOMAIN jobs = 1..Len(jobs)
      BY <2>2, <2>3, LenProperties
    <2>5. \A k \in 1..Len(jobs) : jobs'[k].from = jobs[k].from /\ jobs'[k].project = jobs[k].project
      BY <2>1, <2>4
    <2>6. QED
      BY <1>2, <2>4, <2>5 DEF PlanInv, AboutInv
  <1>8. QED
    BY <1>3, <1>4, <1>7 DEF PlanInv

\* Add: a ticket added by hand is for no turn.
LEMMA AddKeepsPlan == ASSUME PlanInv, Add PROVE PlanInv'
  <1>1. UNCHANGED <<asked, call, filter, screen, about>>
    BY DEF Add, engine
  <1>2. EngineInv' /\ ScreenInv'
    BY <1>1 DEF PlanInv, EngineInv, ScreenInv
  <1>3. JobsInv'
    BY AddKeeps DEF PlanInv
  <1>4. PICK p \in Projects, deps \in {<<>>, <<0>>, <<0, -1>>}, ready \in BOOLEAN :
          jobs' = Append(jobs, NewJob(p, 0, <<[deps |-> deps, ready |-> ready]>>))
    BY DEF Add
  <1> DEFINE y == NewJob(p, 0, <<[deps |-> deps, ready |-> ready]>>)
  <1>5. y.from = 0
    BY DEF NewJob
  <1> HIDE DEF y
  <1>6. jobs \in Seq(JobRows) /\ jobs' \in Seq(JobRows) /\ jobs' = Append(jobs, y)
    BY <1>3, <1>4 DEF PlanInv, JobsInv, y
  <1>7. Len(jobs) \in Nat /\ Len(jobs') = Len(jobs) + 1
        /\ \A k \in 1..Len(jobs') : jobs'[k] = IF k = Len(jobs) + 1 THEN y ELSE jobs[k]
    BY <1>6, LenProperties
  <1>8. \A k \in 1..Len(jobs') : k \in 1..Len(jobs) \/ k = Len(jobs) + 1
    BY <1>7
  <1>9. AboutInv'
    BY <1>1, <1>5, <1>7, <1>8 DEF PlanInv, AboutInv
  <1>10. QED
    BY <1>2, <1>3, <1>9 DEF PlanInv

\* Every step of a planning conversation.
LEMMA PlanNextKeeps == ASSUME PlanInv, PlanNext PROVE PlanInv'
  <1>1. CASE (Serving \/ CooldownEnds) /\ UNCHANGED planVars
    BY <1>1, EngineKeepsPlan
  <1>2. CASE \E c \in Calls : Ask(c) \/ TurnAnswered(c)
    BY <1>2, AskKeeps, TurnAnsweredKeeps
  <1>3. CASE FilterMoves \/ StartOver
    BY <1>3, ScreenMoves
  <1>4. CASE Approve
    BY <1>4, ApproveKeeps
  <1>5. CASE \E i \in DOMAIN jobs : Approved(i)
    BY <1>5, ApprovedKeeps
  <1>6. CASE Creating
    BY <1>6, CreatingKeepsPlan
  <1>7. QED
    BY <1>1, <1>2, <1>3, <1>4, <1>5, <1>6 DEF PlanNext
(***************************************************************************)
(* The discussion of changes.                                                *)
(***************************************************************************)

\* A stored discussion whose session knows every answer it holds.
CdRows == [run : Nat, state : {"open", "canceled", "sent"}, session : Sessions,
           agent : SomeAgents, answered : SUBSET Nat]
CdsWell == {cd \in CdRows : cd.answered \subseteq cd.session.knows}
SomeDrafts == Drafts \cup {NoDraft, Direct}
TicketRows == [state : {"waiting", "ready", "running"}, run : Nat, feedback : SomeDrafts]
HeldRows == [row : Nat, cd : CdsWell \cup {"none"}]
SendRows == [step : {"none", "agree", "close", "feedback", "move"}, draft : SomeDrafts,
             row : Nat, cd : CdsWell \cup {"none"}]

\* A request a turn holds answers what the copy taken with it has.
HeldInv ==
  /\ cds \in Seq(CdsWell) /\ held \in [Calls -> HeldRows]
  /\ \A c \in Calls : held[c].row # 0 =>
        held[c].cd \in CdsWell /\ Keeps(call[c], held[c].cd.answered)

\* An instruction is on record before the row it closes, the feedback it becomes and the move.
SentInv ==
  /\ ticket \in TicketRows /\ sending \in SendRows /\ agreed \in Seq(SomeDrafts)
  /\ sending.step # "none" => sending.cd \in CdsWell
  /\ sending.step \in {"close", "feedback", "move"} => sending.draft \in Range(agreed)
  /\ ticket.feedback \in {NoDraft, Direct} \cup Range(agreed)

\* The newest of some rows is one of them.
LEMMA NewestIsOne ==
  ASSUME NEW n \in Nat, NEW S \in SUBSET (1..n), S # {}
  PROVE  Max(S) \in S
  <1> DEFINE T == {n - i : i \in S}
  <1>1. T \subseteq Nat /\ T # {}
    <2>1. \A i \in S : n - i \in Nat
      OBVIOUS
    <2>2. PICK i \in S : TRUE
      OBVIOUS
    <2>3. n - i \in T
      OBVIOUS
    <2>4. QED
      BY <2>1, <2>3
  <1>2. PICK x \in T : \A y \in T : ~(<<y, x>> \in OpToRel(<, Nat))
    BY <1>1, NatLessThanWellFounded, WFMin
  <1>3. PICK i \in S : x = n - i
    BY <1>2
  <1>4. \A j \in S : i >= j
    <2> TAKE j \in S
    <2>1. n - j \in T /\ n - j \in Nat /\ x \in Nat
      BY <1>1
    <2>2. ~(n - j < x)
      BY <1>2, <2>1 DEF OpToRel
    <2>3. QED
      BY <1>3, <2>1, <2>2
  <1>5. QED
    BY <1>3, <1>4 DEF Max

\* Replacing an element of a sequence, if there is one at that place.
LEMMA ReplacedIfThere ==
  ASSUME NEW S, NEW s \in Seq(S), NEW i, NEW x \in S
  PROVE  [s EXCEPT ![i] = x] \in Seq(S)
  <1>1. CASE i \in 1..Len(s)
    BY <1>1, Replaced
  <1>2. CASE i \notin 1..Len(s)
    <2>1. [s EXCEPT ![i] = x] = s
      BY <1>2, LenProperties
    <2>2. QED
      BY <2>1
  <1>3. QED
    BY <1>1, <1>2

\* The discussion that is open, if any.
LEMMA CurrentIsOne ==
  ASSUME cds \in Seq(CdsWell), Open # {}
  PROVE  /\ Current \in 1..Len(cds) /\ cds[Current] \in CdsWell
         /\ cds[Current] \in CdRows /\ cds[Current].answered \subseteq cds[Current].session.knows
  <1>1. Len(cds) \in Nat /\ Open \in SUBSET (1..Len(cds))
    BY LenProperties DEF Open
  <1>2. Current \in 1..Len(cds)
    BY <1>1, NewestIsOne DEF Current
  <1>3. cds[Current] \in CdsWell
    BY <1>2, ElementOfSeq
  <1>4. QED
    BY <1>2, <1>3 DEF CdsWell

\* A discussion under another state.
LEMMA Restated ==
  ASSUME NEW cd \in CdsWell, NEW s \in {"open", "canceled", "sent"}
  PROVE  [cd EXCEPT !.state = s] \in CdsWell
  <1>1. [cd EXCEPT !.state = s] \in CdRows
    BY DEF CdsWell, CdRows
  <1>2. [cd EXCEPT !.state = s].answered = cd.answered /\ [cd EXCEPT !.state = s].session = cd.session
    BY DEF CdsWell, CdRows
  <1>3. QED
    BY <1>1, <1>2 DEF CdsWell

\* A step of the engine keeps what the turns hold.
LEMMA ServingKeepsHeld ==
  ASSUME EngineInv, HeldInv, Serving, UNCHANGED <<cds, held>>
  PROVE  EngineInv' /\ HeldInv'
  <1>1. PICK c \in Calls : \E y : Goes(call[c], y) /\ call' = [call EXCEPT ![c] = y] /\ asked' = asked
    BY ServingGoes
  <1>2. PICK y : Goes(call[c], y) /\ call' = [call EXCEPT ![c] = y] /\ asked' = asked
    BY <1>1
  <1>3. y \in CallRows /\ CallWell(y) /\ y.turn <= asked' /\ asked' \in Nat /\ asked <= asked'
    BY <1>2 DEF Goes, EngineInv
  <1>4. EngineInv' /\ call'[c] = y /\ \A d \in Calls : d # c => call'[d] = call[d]
    BY <1>2, <1>3, GoesKeeps
  <1>5. ASSUME NEW d \in Calls, held[d].row # 0
        PROVE  Keeps(call'[d], held[d].cd.answered)
    BY <1>2, <1>4, <1>5 DEF Goes, HeldInv
  <1>6. QED
    BY <1>4, <1>5 DEF HeldInv

\* Say: the copy taken is the row as it stands, and its request is told what it has.
LEMMA SayKeeps == ASSUME EngineInv, HeldInv, NEW c \in Calls, Say(c) PROVE EngineInv' /\ HeldInv'
  <1> DEFINE cd == cds[Current]
             copy == [row |-> Current, cd |-> cd]
  <1>1. cds \in Seq(CdsWell) /\ held \in [Calls -> HeldRows]
    BY DEF HeldInv
  <1>2. Current \in Nat /\ cd \in CdsWell /\ cd \in CdRows /\ cd.answered \subseteq cd.session.knows
    BY <1>1, CurrentIsOne, LenProperties DEF Say
  <1>3. Put(c, cd.session, cd.agent, cd.answered) /\ held' = [held EXCEPT ![c] = copy] /\ cds' = cds
    BY DEF Say
  <1> HIDE DEF cd
  <1>4. cd.session \in Sessions /\ cd.agent \in SomeAgents /\ cd.answered \in SUBSET Nat
    BY <1>2 DEF CdRows
  <1>5. /\ EngineInv' /\ Keeps(call'[c], cd.answered)
        /\ \A d \in Calls : d # c => call'[d] = call[d]
    BY <1>2, <1>3, <1>4, PutGives
  <1>6. copy \in HeldRows /\ copy.cd = cd
    BY <1>2 DEF HeldRows
  <1> HIDE DEF copy
  <1>7. held' \in [Calls -> HeldRows] /\ held'[c] = copy /\ \A d \in Calls : d # c => held'[d] = held[d]
    BY <1>1, <1>3, <1>6
  <1>8. ASSUME NEW d \in Calls, held'[d].row # 0
        PROVE  held'[d].cd \in CdsWell /\ Keeps(call'[d], held'[d].cd.answered)
    <2>1. CASE d = c
      BY <2>1, <1>2, <1>5, <1>6, <1>7
    <2>2. CASE d # c
      BY <2>2, <1>5, <1>7, <1>8 DEF HeldInv
    <2>3. QED
      BY <2>1, <2>2
  <1>9. QED
    BY <1>1, <1>3, <1>5, <1>7, <1>8 DEF HeldInv

\* A turn that is over holds nothing; the others hold what they held.
LEMMA ReturnKeeps ==
  ASSUME EngineInv, HeldInv, NEW c \in Calls, Return(c), asked' = asked, cds' \in Seq(CdsWell)
  PROVE  EngineInv' /\ HeldInv'
  <1>1. EngineInv' /\ call'[c] = Idle /\ \A d \in Calls : d # c => call'[d] = call[d]
    BY ReturnGives DEF Return
  <1>2. NotHeld \in HeldRows /\ NotHeld.row = 0
    BY DEF NotHeld, HeldRows
  <1>3. held \in [Calls -> HeldRows] /\ held' = [held EXCEPT ![c] = NotHeld]
    BY DEF HeldInv, Return
  <1>4. held' \in [Calls -> HeldRows] /\ held'[c].row = 0 /\ \A d \in Calls : d # c => held'[d] = held[d]
    BY <1>2, <1>3
  <1>5. ASSUME NEW d \in Calls, held'[d].row # 0
        PROVE  held'[d].cd \in CdsWell /\ Keeps(call'[d], held'[d].cd.answered)
    BY <1>1, <1>4, <1>5 DEF HeldInv
  <1>6. QED
    BY <1>1, <1>4, <1>5 DEF HeldInv

\* SaysAnswer and SaysFailure: what is written back is a row whose session knows its answers.
LEMMA SaysKeep ==
  ASSUME EngineInv, HeldInv, NEW c \in Calls, SaysAnswer(c) \/ SaysFailure(c)
  PROVE  EngineInv' /\ HeldInv'
  <1> DEFINE cd == held[c].cd
             session == SessionOf(c)
             agent == call[c].agent
             answered == cd.answered \cup {call[c].turn}
             known == [cd EXCEPT !.session = session]
             by == [known EXCEPT !.agent = agent]
             y == [by EXCEPT !.answered = answered]
  <1>1. Return(c) /\ asked' = asked /\ held[c].row # 0
    BY DEF SaysAnswer, SaysFailure
  <1>2. cd \in CdsWell /\ cd \in CdRows /\ Keeps(call[c], cd.answered) /\ cds \in Seq(CdsWell)
    BY <1>1 DEF HeldInv, CdsWell
  <1>3. CASE SaysFailure(c)
    <2>1. cds' = [cds EXCEPT ![held[c].row] = cd]
      BY <1>3 DEF SaysFailure
    <2>2. cds' \in Seq(CdsWell)
      BY <1>2, <2>1, ReplacedIfThere
    <2>3. QED
      BY <1>1, <2>2, ReturnKeeps
  <1>4. CASE SaysAnswer(c)
    <2>1. cds' = [cds EXCEPT ![held[c].row] = y]
      BY <1>4 DEF SaysAnswer, Exchange
    <2>2. session \in Sessions /\ answered \subseteq session.knows
      BY <1>2, <1>4, SessionKnows DEF SaysAnswer
    <2>3. agent \in SomeAgents /\ answered \subseteq Nat
      <3>1. call[c] \in CallRows
        BY DEF EngineInv
      <3>2. call[c].turn \in Nat /\ agent \in SomeAgents
        BY <3>1 DEF CallRows
      <3>3. QED
        BY <3>2, <1>2 DEF CdRows
    <2> HIDE DEF cd, session, agent, answered
    <2>4. known \in CdRows /\ known.session = session
      BY <1>2, <2>2 DEF CdRows
    <2> HIDE DEF known
    <2>5. by \in CdRows /\ by.session = session
      BY <2>3, <2>4 DEF CdRows
    <2> HIDE DEF by
    <2>6. y \in CdRows /\ y.session = session /\ y.answered = answered
      BY <2>3, <2>5 DEF CdRows
    <2> HIDE DEF y
    <2>7. y \in CdsWell
      BY <2>2, <2>6 DEF CdsWell
    <2>8. cds' \in Seq(CdsWell)
      BY <1>2, <2>1, <2>7, ReplacedIfThere
    <2>9. QED
      BY <1>1, <2>8, ReturnKeeps
  <1>5. QED
    BY <1>3, <1>4
\* No feedback, and feedback without a discussion.
LEMMA DraftsTyped == NoDraft \in SomeDrafts /\ Direct \in SomeDrafts
  BY DEF SomeDrafts

\* Nothing but the send and the ticket moves, and the record only grows.
LEMMA HeldStays ==
  ASSUME EngineInv, HeldInv, UNCHANGED <<asked, call, held>>, cds' \in Seq(CdsWell)
  PROVE  EngineInv' /\ HeldInv'
  <1>1. EngineInv'
    BY DEF EngineInv
  <1>2. HeldInv'
    BY DEF HeldInv
  <1>3. QED
    BY <1>1, <1>2

\* OpenDiscussion and Cancel.
LEMMA ScreenKeeps ==
  ASSUME EngineInv, HeldInv, ticket \in TicketRows, OpenDiscussion \/ Cancel
  PROVE  EngineInv' /\ HeldInv'
  <1> DEFINE closed == [cds[Current] EXCEPT !.state = "canceled"]
  <1>1. cds \in Seq(CdsWell) /\ UNCHANGED <<asked, call, held>>
    BY DEF HeldInv, OpenDiscussion, Cancel, engine
  <1>2. Open # {} => [cds EXCEPT ![Current].state = "canceled"] \in Seq(CdsWell)
    <2>1. [cds EXCEPT ![Current].state = "canceled"] = [cds EXCEPT ![Current] = closed]
      OBVIOUS
    <2>2. ASSUME Open # {} PROVE closed \in CdsWell
      BY <1>1, <2>2, CurrentIsOne, Restated
    <2> HIDE DEF closed
    <2>3. QED
      BY <1>1, <2>1, <2>2, ReplacedIfThere
  <1>3. CASE Cancel
    <2>1. cds' \in Seq(CdsWell)
      BY <1>1, <1>2, <1>3 DEF Cancel
    <2>2. QED
      BY <1>1, <2>1, HeldStays
  <1>4. CASE OpenDiscussion
    <2>1. NewDiscussion \in CdsWell
      <3>1. ticket.run \in Nat /\ {} \subseteq Nat
        BY DEF TicketRows
      <3>2. NewDiscussion \in CdRows
        BY <3>1, NoSessions DEF CdRows, NewDiscussion
      <3>3. QED
        BY <3>2 DEF CdsWell, NewDiscussion
    <2>2. Append(cds, NewDiscussion) \in Seq(CdsWell)
      BY <1>1, <2>1, Appended
    <2>3. Open # {} => Append([cds EXCEPT ![Current].state = "canceled"], NewDiscussion) \in Seq(CdsWell)
      BY <1>2, <2>1, Appended
    <2>4. cds' \in Seq(CdsWell)
      BY <1>1, <1>4, <2>2, <2>3 DEF OpenDiscussion, Opened
    <2>5. QED
      BY <1>1, <2>4, HeldStays
  <1>5. QED
    BY <1>3, <1>4

\* The steps of SendChanges and of the ticket.
SendStep == ConfirmSend \/ Agree \/ CloseDiscussion \/ NoteFeedback \/ MoveBack \/ SendFails
            \/ RequestChanges \/ RunAgain \/ RunReturns

\* They touch no request and no copy a turn holds.
LEMMA SendKeepsHeld == ASSUME EngineInv, HeldInv, SentInv, SendStep PROVE EngineInv' /\ HeldInv'
  <1>1. UNCHANGED <<asked, call, held>>
    BY DEF SendStep, ConfirmSend, Agree, CloseDiscussion, NoteFeedback, MoveBack, SendFails,
           RequestChanges, RunAgain, RunReturns, engine
  <1>2. cds' \in Seq(CdsWell)
    <2>1. cds \in Seq(CdsWell)
      BY DEF HeldInv
    <2>2. CASE CloseDiscussion
      <3> DEFINE y == [sending.cd EXCEPT !.state = "sent"]
      <3>1. cds' = [cds EXCEPT ![sending.row] = y]
        BY <2>2 DEF CloseDiscussion
      <3>2. y \in CdsWell
        BY <2>2, Restated DEF CloseDiscussion, SentInv
      <3> HIDE DEF y
      <3>3. QED
        BY <2>1, <3>1, <3>2, ReplacedIfThere
    <2>3. CASE ~CloseDiscussion
      <3>1. cds' = cds
        BY <2>3 DEF SendStep, ConfirmSend, Agree, NoteFeedback, MoveBack, SendFails,
               RequestChanges, RunAgain, RunReturns
      <3>2. QED
        BY <2>1, <3>1
    <2>4. QED
      BY <2>2, <2>3
  <1>3. QED
    BY <1>1, <1>2, HeldStays

\* What a step of the send or of the ticket is to the record.
LEMMA SendKeepsSent == ASSUME EngineInv, HeldInv, SentInv, SendStep PROVE SentInv'
  <1>1. /\ ticket \in TicketRows /\ sending \in SendRows /\ agreed \in Seq(SomeDrafts)
        /\ sending.draft \in SomeDrafts /\ cds \in Seq(CdsWell)
    BY DEF SentInv, SendRows, HeldInv
  <1>2. ASSUME NEW s \in {"none", "agree", "close", "feedback", "move"}
        PROVE  LET y == [sending EXCEPT !.step = s] IN
               y \in SendRows /\ y.step = s /\ y.draft = sending.draft /\ y.cd = sending.cd
    BY <1>1 DEF SendRows
  <1>3. NoSend \in SendRows /\ NoSend.step = "none"
    BY DraftsTyped DEF NoSend, SendRows
  <1>4. CASE ConfirmSend
    <2>1. UNCHANGED <<ticket, agreed>>
      BY <1>4 DEF ConfirmSend
    <2>2. PICK draft \in Drafts :
            sending' = IF Open # {} /\ draft.says # ""
                       THEN [step |-> "agree", draft |-> draft, row |-> Current, cd |-> cds[Current]]
                       ELSE sending
      BY <1>4 DEF ConfirmSend
    <2>3. CASE sending' = sending
      BY <2>1, <2>3 DEF SentInv
    <2>4. CASE Open # {} /\ sending' = [step |-> "agree", draft |-> draft, row |-> Current, cd |-> cds[Current]]
      <3>1. Current \in Nat /\ cds[Current] \in CdsWell
        BY <1>1, <2>4, CurrentIsOne, LenProperties
      <3>2. sending' \in SendRows /\ sending'.step = "agree" /\ sending'.cd \in CdsWell
        BY <2>4, <3>1 DEF SendRows, SomeDrafts
      <3>3. QED
        BY <2>1, <3>2 DEF SentInv
    <2>5. QED
      BY <2>2, <2>3, <2>4
  <1>5. CASE Agree
    <2>1. ticket' = ticket /\ sending' = [sending EXCEPT !.step = "close"] /\ agreed' = Append(agreed, sending.draft)
          /\ sending.step = "agree"
      BY <1>5 DEF Agree, Sent
    <2>2. agreed' \in Seq(SomeDrafts) /\ Len(agreed') = Len(agreed) + 1 /\ agreed'[Len(agreed) + 1] = sending.draft
          /\ \A k \in 1..Len(agreed) : agreed'[k] = agreed[k]
      BY <1>1, <2>1, Appended
    <2>3. /\ DOMAIN agreed = 1..Len(agreed) /\ DOMAIN agreed' = 1..(Len(agreed) + 1) /\ Len(agreed) \in Nat
      BY <1>1, <2>2, LenProperties
    <2>4. Range(agreed) \subseteq Range(agreed')
      BY <2>2, <2>3 DEF Range
    <2>5. sending.draft \in Range(agreed')
      BY <2>2, <2>3 DEF Range
    <2>6. sending' \in SendRows /\ sending'.draft = sending.draft /\ sending'.cd = sending.cd
      BY <1>2, <2>1
    <2>7. QED
      BY <2>1, <2>2, <2>4, <2>5, <2>6 DEF SentInv
  <1>6. CASE CloseDiscussion
    <2>1. UNCHANGED <<ticket, agreed>> /\ sending.step = "close" /\ sending' = [sending EXCEPT !.step = "feedback"]
      BY <1>6 DEF CloseDiscussion, Sent
    <2>2. sending' \in SendRows /\ sending'.draft = sending.draft /\ sending'.cd = sending.cd
      BY <1>2, <2>1
    <2>3. QED
      BY <2>1, <2>2 DEF SentInv
  <1>7. CASE NoteFeedback
    <2>1. /\ agreed' = agreed /\ sending.step = "feedback" /\ sending' = [sending EXCEPT !.step = "move"]
          /\ ticket' = [ticket EXCEPT !.feedback = sending.draft]
      BY <1>7 DEF NoteFeedback, Sent
    <2>2. sending' \in SendRows /\ sending'.draft = sending.draft /\ sending'.cd = sending.cd
      BY <1>2, <2>1
    <2>3. ticket' \in TicketRows /\ ticket'.feedback = sending.draft
      BY <1>1, <2>1 DEF TicketRows
    <2>4. QED
      BY <2>1, <2>2, <2>3 DEF SentInv
  <1>8. CASE MoveBack
    <2>1. agreed' = agreed /\ sending' = NoSend /\ ticket' = [ticket EXCEPT !.state = "ready"]
      BY <1>8 DEF MoveBack
    <2>2. ticket' \in TicketRows /\ ticket'.feedback = ticket.feedback
      BY <1>1, <2>1 DEF TicketRows
    <2>3. QED
      BY <1>3, <2>1, <2>2 DEF SentInv
  <1>9. CASE SendFails
    <2>1. UNCHANGED <<ticket, agreed>> /\ sending' = NoSend
      BY <1>9 DEF SendFails
    <2>2. QED
      BY <1>3, <2>1 DEF SentInv
  <1>10. CASE RequestChanges
    <2>1. UNCHANGED <<sending, agreed>> /\ ticket' = [ticket EXCEPT !.state = "ready", !.feedback = Direct]
      BY <1>10 DEF RequestChanges
    <2> DEFINE ready == [ticket EXCEPT !.state = "ready"]
    <2>2. ready \in TicketRows
      BY <1>1 DEF TicketRows
    <2>3. ticket' = [ready EXCEPT !.feedback = Direct]
      BY <2>1
    <2> HIDE DEF ready
    <2>4. ticket' \in TicketRows /\ ticket'.feedback = Direct
      BY <2>2, <2>3, DraftsTyped DEF TicketRows
    <2>5. QED
      BY <2>1, <2>4 DEF SentInv
  <1>11. CASE RunAgain
    <2>1. UNCHANGED <<sending, agreed>> /\ ticket' = [ticket EXCEPT !.state = "running", !.run = @ + 1]
      BY <1>11 DEF RunAgain
    <2> DEFINE runs == [ticket EXCEPT !.state = "running"]
               run == ticket.run + 1
    <2>2. runs \in TicketRows /\ runs.feedback = ticket.feedback /\ run \in Nat
      BY <1>1 DEF TicketRows
    <2>3. ticket' = [runs EXCEPT !.run = run]
      BY <2>1
    <2> HIDE DEF runs, run
    <2>4. ticket' \in TicketRows /\ ticket'.feedback = ticket.feedback
      BY <2>2, <2>3 DEF TicketRows
    <2>5. QED
      BY <2>1, <2>4 DEF SentInv
  <1>12. CASE RunReturns
    <2>1. UNCHANGED <<sending, agreed>> /\ ticket' = [ticket EXCEPT !.state = "waiting"]
      BY <1>12 DEF RunReturns
    <2>2. ticket' \in TicketRows /\ ticket'.feedback = ticket.feedback
      BY <1>1, <2>1 DEF TicketRows
    <2>3. QED
      BY <2>1, <2>2 DEF SentInv
  <1>13. QED
    BY <1>4, <1>5, <1>6, <1>7, <1>8, <1>9, <1>10, <1>11, <1>12 DEF SendStep

\* Every step of a discussion.
LEMMA DiscussNextKeeps ==
  ASSUME EngineInv, HeldInv, SentInv, DiscussNext
  PROVE  EngineInv' /\ HeldInv' /\ SentInv'
  <1>1. CASE Serving /\ UNCHANGED discussVars
    <2>1. UNCHANGED <<cds, held, ticket, agreed, sending>>
      BY <1>1 DEF discussVars
    <2>2. SentInv'
      BY <2>1 DEF SentInv
    <2>3. QED
      BY <1>1, <2>1, <2>2, ServingKeepsHeld
  <1>2. CASE \E c \in Talking : Say(c) \/ SaysAnswer(c) \/ SaysFailure(c)
    <2>1. PICK c \in Talking : Say(c) \/ SaysAnswer(c) \/ SaysFailure(c)
      BY <1>2
    <2>2. c \in Calls
      BY DiscussionAssumption
    <2>3. UNCHANGED <<ticket, agreed, sending>>
      BY <2>1 DEF Say, SaysAnswer, SaysFailure
    <2>4. SentInv'
      BY <2>3 DEF SentInv
    <2>5. QED
      BY <2>1, <2>2, <2>4, SayKeeps, SaysKeep
  <1>3. CASE OpenDiscussion \/ Cancel
    <2>1. UNCHANGED <<ticket, agreed, sending>>
      BY <1>3 DEF OpenDiscussion, Cancel
    <2>2. SentInv'
      BY <2>1 DEF SentInv
    <2>3. QED
      BY <1>3, <2>2, ScreenKeeps DEF SentInv
  <1>4. CASE SendStep
    BY <1>4, SendKeepsHeld, SendKeepsSent
  <1>5. QED
    BY <1>1, <1>2, <1>3, <1>4 DEF DiscussNext, SendStep

(***************************************************************************)
(* The theorems.                                                             *)
(***************************************************************************)

\* A behaviour is of one kind: the others' requests and screens stay as they began.
KindInv == /\ kind # "planning" => screen.turn = 0
           /\ kind # "discussing" => \A c \in Calls : held[c].row = 0
TalkInv == PlanInv /\ HeldInv /\ SentInv /\ KindInv

\* The invariant holds at the start.
LEMMA TalkBegins == ASSUME Init PROVE TalkInv
  <1>1. call = [c \in Calls |-> Idle] /\ asked = 0
    BY DEF Init, EngineInit
  <1>2. EngineInv
    BY <1>1, IdleTyped DEF EngineInv
  <1>3. screen = NewScreen /\ filter \in Projects /\ about = [t \in Turns |-> "none"] /\ jobs = <<>>
    BY DEF Init, PlanInit
  <1>4. ScreenInv
    BY <1>1, <1>3, NewScreenTyped, ConversationAssumption DEF ScreenInv, NewScreen, NoSession
  <1>5. AboutInv /\ JobsInv
    <2>1. jobs \in Seq(JobRows) /\ Len(jobs) = 0
      BY <1>3
    <2>2. QED
      BY <2>1 DEF AboutInv, JobsInv
  <1>6. cds = <<>> /\ agreed = <<>> /\ held = [c \in Calls |-> NotHeld] /\ sending = NoSend
        /\ ticket = [state |-> "waiting", run |-> 1, feedback |-> NoDraft]
    BY DEF Init, DiscussInit
  <1>7. HeldInv
    <2>1. NotHeld \in HeldRows /\ NotHeld.row = 0
      BY DEF NotHeld, HeldRows
    <2>2. cds \in Seq(CdsWell)
      BY <1>6, EmptySeq
    <2>3. held \in [Calls -> HeldRows] /\ \A c \in Calls : held[c].row = 0
      BY <1>6, <2>1
    <2>4. QED
      BY <2>2, <2>3 DEF HeldInv
  <1>8. SentInv
    <2>1. NoSend \in SendRows /\ NoSend.step = "none"
      BY DraftsTyped DEF NoSend, SendRows
    <2>2. ticket \in TicketRows /\ ticket.feedback = NoDraft
      BY <1>6, DraftsTyped DEF TicketRows
    <2>3. agreed \in Seq(SomeDrafts)
      BY <1>6, EmptySeq
    <2>4. QED
      BY <1>6, <2>1, <2>2, <2>3 DEF SentInv
  <1>9. KindInv
    BY <1>3, <1>6 DEF KindInv, NewScreen, NotHeld
  <1>10. QED
    BY <1>2, <1>4, <1>5, <1>7, <1>8, <1>9 DEF TalkInv, PlanInv
\* A discussion asks one turn at a time, within the bound.
LEMMA DiscussAsks ==
  ASSUME EngineInv, asked <= MaxTurns, DiscussNext
  PROVE  asked' \in Nat /\ asked <= asked' /\ asked' <= MaxTurns
  <1>1. asked' = asked \/ (asked < MaxTurns /\ asked' = asked + 1)
    <2>1. CASE Serving
      BY <2>1, ServingGoes
    <2>2. CASE \E c \in Talking : Say(c) \/ SaysAnswer(c) \/ SaysFailure(c)
      BY <2>2 DEF Say, Put, SaysAnswer, SaysFailure
    <2>3. CASE OpenDiscussion \/ Cancel \/ SendStep
      BY <2>3 DEF OpenDiscussion, Cancel, SendStep, ConfirmSend, Agree, CloseDiscussion, NoteFeedback,
             MoveBack, SendFails, RequestChanges, RunAgain, RunReturns, engine
    <2>4. QED
      BY <2>1, <2>2, <2>3 DEF DiscussNext, SendStep
  <1>2. QED
    BY <1>1, ConversationAssumption DEF EngineInv

\* Every step keeps it, of whichever kind the behaviour is.
LEMMA TalkStep == ASSUME TalkInv, [Next]_talkVars PROVE TalkInv'
  <1>1. PlanInv /\ EngineInv /\ HeldInv /\ SentInv /\ KindInv
    BY DEF TalkInv, PlanInv
  <1>2. CASE kind = "planning" /\ kind' = kind /\ PlanNext /\ UNCHANGED discussVars
    <2>1. UNCHANGED <<cds, held, ticket, agreed, sending>>
      BY <1>2 DEF discussVars
    <2>2. PlanInv'
      BY <1>1, <1>2, PlanNextKeeps
    <2>3. HeldInv' /\ SentInv' /\ KindInv'
      BY <1>1, <1>2, <2>1 DEF HeldInv, SentInv, KindInv
    <2>4. QED
      BY <2>2, <2>3 DEF TalkInv
  <1>3. CASE kind = "adding" /\ kind' = kind /\ (Add \/ Creating) /\ UNCHANGED discussVars
    <2>1. UNCHANGED <<cds, held, ticket, agreed, sending>>
      BY <1>3 DEF discussVars
    <2>2. screen' = screen
      BY <1>3 DEF Add, Creating, CreateRow, AddDep, FinishTicket, JobFails, JobDone
    <2>3. PlanInv'
      BY <1>1, <1>3, AddKeepsPlan, CreatingKeepsPlan
    <2>4. HeldInv' /\ SentInv' /\ KindInv'
      BY <1>1, <1>3, <2>1, <2>2 DEF HeldInv, SentInv, KindInv
    <2>5. QED
      BY <2>3, <2>4 DEF TalkInv
  <1>4. CASE kind = "discussing" /\ kind' = kind /\ DiscussNext /\ UNCHANGED planVars
    <2>1. UNCHANGED <<filter, screen, about, jobs>>
      BY <1>4 DEF planVars
    <2>2. EngineInv' /\ HeldInv' /\ SentInv'
      BY <1>1, <1>4, DiscussNextKeeps
    <2>3. asked' \in Nat /\ asked \in Nat /\ asked <= asked' /\ asked' <= MaxTurns
      BY <1>1, <1>4, DiscussAsks DEF EngineInv, PlanInv, ScreenInv
    <2>4. \A t \in 1..asked : t \in 1..asked'
      BY <2>3
    <2>5. screen.turn = 0
      BY <1>1, <1>4 DEF KindInv
    <2>6. ScreenInv'
      BY <1>1, <2>1, <2>3, <2>4, <2>5 DEF PlanInv, ScreenInv
    <2>7. AboutInv' /\ JobsInv'
      BY <1>1, <2>1, <2>4 DEF PlanInv, AboutInv, JobsInv
    <2>8. KindInv'
      BY <1>4, <2>1, <2>5 DEF KindInv
    <2>9. QED
      BY <2>2, <2>6, <2>7, <2>8 DEF TalkInv, PlanInv
  <1>5. CASE UNCHANGED talkVars
    <2>1. UNCHANGED <<asked, call, filter, screen, about, jobs, cds, held, ticket, agreed, sending, kind>>
      BY <1>5 DEF talkVars, engine, planVars, discussVars
    <2>2. EngineInv' /\ ScreenInv' /\ AboutInv' /\ JobsInv'
      BY <1>1, <2>1 DEF PlanInv, EngineInv, ScreenInv, AboutInv, JobsInv
    <2>3. HeldInv' /\ SentInv' /\ KindInv'
      BY <1>1, <2>1 DEF HeldInv, SentInv, KindInv
    <2>4. QED
      BY <2>2, <2>3 DEF TalkInv, PlanInv
  <1>6. QED
    BY <1>2, <1>3, <1>4, <1>5 DEF Next

\* So it always holds.
LEMMA TalkInductive == Spec => []TalkInv
  <1>1. Init => TalkInv
    BY TalkBegins
  <1>2. TalkInv /\ [Next]_talkVars => TalkInv'
    BY TalkStep
  <1>3. QED
    BY <1>1, <1>2, PTL DEF Spec

\* However far ApprovePlan or CreateTicket got when it failed or the daemon died, no ticket is in
\* the queue without every dependency it was written with (QueuedWithDependencies).
THEOREM QueuedWhole == Spec => []QueuedWithDependencies
  <1>1. TalkInv => QueuedWithDependencies
    <2> SUFFICES ASSUME TalkInv, NEW i \in DOMAIN jobs, NEW k \in DOMAIN jobs[i].made, jobs[i].made[k].ready
                 PROVE  jobs[i].made[k].links = Deps(jobs[i].items, k)
      BY DEF QueuedWithDependencies
    <2>1. i \in 1..Len(jobs) /\ jobs[i] \in JobRows /\ JobWell(jobs[i])
      BY ElementOfSeq, LenProperties DEF TalkInv, PlanInv, JobsInv
    <2>2. k \in 1..Len(jobs[i].made)
      <3>1. jobs[i].made \in Seq(Rows)
        BY <2>1 DEF JobRows
      <3>2. QED
        BY <3>1, LenProperties
    <2>3. QED
      BY <2>1, <2>2 DEF JobWell, RowWell, Deps
  <1>2. QED
    BY <1>1, TalkInductive, PTL

\* However a conversation moves between models out of quota, is started over or is overtaken by a
\* later turn, the model that answers has every earlier turn, its prompt reaches it, and answer
\* and plan go to the conversation and project they were asked for (TurnsKept).
THEOREM TurnsStayWhole == Spec => []TurnsKept
  <1>1. TalkInv => ContextWhole
    BY DEF TalkInv, PlanInv, EngineInv, CallWell, ContextWhole
  <1>2. TalkInv => PromptsReach
    BY Reach DEF TalkInv, PlanInv, EngineInv, CallWell, PromptsReach
  <1>3. TalkInv => AnswersStayHome
    <2> SUFFICES ASSUME TalkInv PROVE AnswersStayHome
      OBVIOUS
    <2>1. screen.from # 0 => screen.from \in screen.mine /\ about[screen.from] = screen.project
      BY DEF TalkInv, PlanInv, ScreenInv
    <2>2. DOMAIN jobs = 1..Len(jobs)
      BY LenProperties DEF TalkInv, PlanInv, JobsInv
    <2>3. QED
      BY <2>1, <2>2 DEF TalkInv, PlanInv, AboutInv, AnswersStayHome
  <1>4. TalkInv => TurnsKept
    BY <1>1, <1>2, <1>3 DEF TurnsKept
  <1>5. QED
    BY <1>4, TalkInductive, PTL

\* Whatever write of SendChanges is refused and whatever else moves the ticket meanwhile, a ticket
\* goes back to the queue on an instruction of a discussion only once it is on record, and every
\* run after is bound by every instruction on record (AgreementKept).
THEOREM AgreementStands == Spec => []AgreementKept
  <1>1. TalkInv => MovesCarryAgreement
    BY DEF TalkInv, SentInv, MovesCarryAgreement
  <1>2. PromisesBind
    <2> DEFINE prompt == Build(agreed, ticket.feedback)
    <2>1. \A i \in DOMAIN agreed : agreed[i].keep \subseteq prompt.bound
      BY DEF Build, Bound
    <2>2. ticket.feedback.says \in {prompt.says, prompt.feedback.says}
      BY DEF Build
    <2>3. QED
      BY <2>1, <2>2 DEF PromisesBind
  <1>3. TalkInv => AgreementKept
    BY <1>1, <1>2 DEF AgreementKept
  <1>4. QED
    BY <1>3, TalkInductive, PTL
=============================================================================
