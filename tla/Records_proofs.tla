---------------------------- MODULE Records_proofs ----------------------------
(***************************************************************************)
(* Proofs about the rows that are read and written whole, for any clients,    *)
(* any number of requests and any budget.                                    *)
(***************************************************************************)
EXTENDS Records, TLAPS

(***************************************************************************)
(* The ticket's row, and the copies of it that are about to be saved.        *)
(***************************************************************************)
Tickets == [state : States, row : [Fields -> Nat]]

RowType ==
  /\ state \in States /\ row \in [Fields -> Nat]
  /\ meant \in [Fields -> Nat] /\ moved \in States
  /\ since \in [Writers -> SUBSET Columns] /\ overtaken \subseteq Columns
  /\ run \in {"idle", "loaded", "working", "writing", "retry"}
  /\ attempt \in Nat /\ copy \in Tickets /\ change \in {"worktree", "retries"}
  /\ client \in [Clients -> {"edit", "back", "idle", "move"}]
  /\ current \in [Clients -> Tickets] /\ requests \in Nat

\* What a writer holds of a column is what it was last set to, unless it has been set since the
\* writer's read, or was lost before it.
CopyOf(w) == IF w = Orchestrator THEN copy ELSE current[w]
CopyKnown(w) ==
  /\ "state" \notin since[w] \cup overtaken => CopyOf(w).state = moved
  /\ \A f \in Fields \ (since[w] \cup overtaken) : CopyOf(w).row[f] = meant[f]
CopiesKnown == \A w \in Writers : Holds(w) => CopyKnown(w)

RowInv == RowType /\ CopiesKnown /\ NothingUndone

\* One column of a ticket set: the others stand, and the state.
LEMMA SetOne ==
  ASSUME NEW k \in Tickets, NEW f \in Fields, NEW v \in Nat
  PROVE  /\ Set(k, f, v) \in Tickets /\ Set(k, f, v).state = k.state
         /\ Set(k, f, v).row = [k.row EXCEPT ![f] = v]
  BY DEF Set, Tickets

\* The history after a step that sets some columns: who still holds a copy has them noted.
LEMMA TouchedIs ==
  ASSUME RowType, NEW columns \in SUBSET Columns, NEW w, Touched(columns, {w})
  PROVE  /\ since' \in [Writers -> SUBSET Columns]
         /\ \A v \in Writers : Holds(v) /\ v # w => since'[v] = since[v] \cup columns
  BY DEF Touched, RowType

\* The same, where nobody saves a copy.
LEMMA TouchedAlone ==
  ASSUME RowType, NEW columns \in SUBSET Columns, Touched(columns, {})
  PROVE  /\ since' \in [Writers -> SUBSET Columns]
         /\ \A v \in Writers : Holds(v) => since'[v] = since[v] \cup columns
  BY DEF Touched, RowType

\* The first row and its empty-handed writers satisfy the invariant.
LEMMA RowInitKeeps == RowInit => RowInv
  BY ClientsAssumption DEF RowInit, RowInv, RowType, CopiesKnown, Holds, NothingUndone, Blank, NoTicket,
         Tickets, Fields, States, Writers

\* A transition moves the state and leaves the copies of those about to save behind.
LEMMA MoveKeeps ==
  ASSUME RowInv, NEW ev, SetTicketState(ev), row' = row
  PROVE  /\ state' \in States /\ meant' = meant /\ moved' \in States
         /\ since' \in [Writers -> SUBSET Columns] /\ overtaken' \subseteq Columns
         /\ NothingUndone'
         /\ \A w \in Writers : Holds(w) /\ CopyOf(w)' = CopyOf(w) => CopyKnown(w)'
  <1> USE DEF RowInv, RowType, SetTicketState, SetAlone
  <1>1. {"state"} \in SUBSET Columns
    BY DEF Columns
  <1>2. /\ since' \in [Writers -> SUBSET Columns]
        /\ \A w \in Writers : Holds(w) => since'[w] = since[w] \cup {"state"}
    <2>1. RowType /\ Touched({"state"}, {})
      OBVIOUS
    <2> HIDE DEF RowType
    <2> QED BY ONLY <1>1, <2>1, TouchedAlone
  <1>3. state' \in States /\ moved' = state' /\ overtaken' = overtaken \ {"state"} /\ meant' = meant
    OBVIOUS
  <1>4. "state" \notin Fields
    BY DEF Fields
  <1>5. NothingUndone'
    BY <1>3, <1>4 DEF NothingUndone
  <1>6. ASSUME NEW w \in Writers, Holds(w), CopyOf(w)' = CopyOf(w)
        PROVE  CopyKnown(w)'
    <2>1. CopyKnown(w) /\ since'[w] = since[w] \cup {"state"}
      BY <1>2, <1>6 DEF CopiesKnown
    <2>2. \A f \in Fields \ (since'[w] \cup overtaken') : f \notin since[w] \cup overtaken
      BY <1>3, <1>4, <2>1
    <2>3. \A f \in Fields \ (since'[w] \cup overtaken') : CopyOf(w).row[f] = meant'[f]
      BY <1>3, <2>1, <2>2 DEF CopyKnown
    <2> QED BY <1>6, <2>1, <2>3 DEF CopyKnown
  <1> QED BY <1>2, <1>3, <1>5, <1>6

\* A save writes what its writer holds: what was set since then is overtaken, the rest stands.
LEMMA SaveKeeps ==
  ASSUME RowInv, NEW w \in Writers, Holds(w), NEW k \in Tickets, UpdateTicket(k),
         NEW columns \in SUBSET Fields, SavedBy(w, columns),
         k.state = CopyOf(w).state, \A f \in Fields \ columns : k.row[f] = CopyOf(w).row[f],
         moved' = moved, meant' \in [Fields -> Nat],
         \A f \in Fields : meant'[f] = IF f \in columns THEN k.row[f] ELSE meant[f]
  PROVE  /\ state' \in States /\ row' \in [Fields -> Nat]
         /\ since' \in [Writers -> SUBSET Columns] /\ overtaken' \subseteq Columns
         /\ NothingUndone'
         /\ \A v \in Writers \ {w} : Holds(v) /\ CopyOf(v)' = CopyOf(v) => CopyKnown(v)'
  <1> USE DEF RowInv
  <1>1. columns \in SUBSET Columns
    BY DEF Columns
  <1>2. /\ since' \in [Writers -> SUBSET Columns]
        /\ \A v \in Writers : Holds(v) /\ v # w => since'[v] = since[v] \cup columns
    BY <1>1, TouchedIs DEF SavedBy
  <1>3. overtaken' = (overtaken \cup since[w]) \ columns /\ overtaken' \subseteq Columns
    BY DEF SavedBy, RowType
  <1>4. /\ state' = k.state /\ row' = k.row /\ state' \in States /\ row' \in [Fields -> Nat]
    BY DEF UpdateTicket, Tickets
  <1>5. "state" \notin Fields
    BY DEF Fields
  <1>6. CopyKnown(w)
    BY DEF CopiesKnown
  <1>7. NothingUndone'
    BY <1>3, <1>4, <1>5, <1>6 DEF NothingUndone, CopyKnown
  <1>8. ASSUME NEW v \in Writers \ {w}, Holds(v), CopyOf(v)' = CopyOf(v)
        PROVE  CopyKnown(v)'
    <2>1. CopyKnown(v) /\ since'[v] = since[v] \cup columns
      BY <1>2, <1>8 DEF CopiesKnown
    <2> QED BY <1>3, <1>5, <1>8, <2>1 DEF CopyKnown
  <1> QED BY <1>2, <1>3, <1>4, <1>7, <1>8

\* The steps of a run: it holds a copy only between the two halves of its own save.
LEMMA RunKeeps ==
  ASSUME RowInv, Load \/ Assign \/ Retry \/ Progress \/ Return \/ SaveFields
            \/ \E f \in {"worktree", "retries"} : UpdateFields(f)
  PROVE  RowInv'
  <1> USE ClientsAssumption DEF clientVars
  <1>1. RowType /\ NothingUndone /\ CopiesKnown
    BY DEF RowInv
  <1>2. CASE Load \/ Return
    BY <1>1, <1>2 DEF Load, Return, history, RowInv, RowType, NothingUndone, CopiesKnown, CopyKnown,
                      CopyOf, Holds, Writers
  <1>3. ASSUME NEW ev, SetTicketState(ev), row' = row, copy' = copy, change' = change,
               run \in {"loaded", "retry", "working"}, run' \in {"idle", "working"},
               attempt' \in Nat, UNCHANGED clientVars
        PROVE  RowInv'
    <2>1. /\ state' \in States /\ meant' = meant /\ moved' \in States
          /\ since' \in [Writers -> SUBSET Columns] /\ overtaken' \subseteq Columns
          /\ NothingUndone'
          /\ \A w \in Writers : Holds(w) /\ CopyOf(w)' = CopyOf(w) => CopyKnown(w)'
      BY <1>3, MoveKeeps
    <2>2. \A w \in Writers : Holds(w)' => Holds(w) /\ CopyOf(w)' = CopyOf(w)
      BY <1>3 DEF Holds, CopyOf
    <2> QED BY <1>1, <1>3, <2>1, <2>2 DEF RowInv, RowType, CopiesKnown
  <1>4. CASE Assign
    <2>1. CASE Legal(state, "assign")
      BY <1>1, <1>3, <1>4, <2>1 DEF Assign, RowType
    <2>2. CASE ~Legal(state, "assign")
      BY <1>1, <1>4, <2>2 DEF Assign, history, RowInv, RowType, NothingUndone, CopiesKnown, CopyKnown,
                              CopyOf, Holds, Writers
    <2> QED BY <2>1, <2>2
  <1>5. CASE Retry
    <2>1. CASE Legal(state, "validation_retry")
      BY <1>1, <1>3, <1>5, <2>1 DEF Retry, RowType
    <2>2. CASE ~Legal(state, "validation_retry")
      BY <1>1, <1>5, <2>2 DEF Retry, history, RowInv, RowType, NothingUndone, CopiesKnown, CopyKnown,
                              CopyOf, Holds, Writers
    <2> QED BY <2>1, <2>2
  <1>6. CASE Progress
    BY <1>1, <1>3, <1>6 DEF Progress, runVars, RowType
  <1>7. CASE SaveFields
    <2> DEFINE value == IF change = "retries" THEN attempt ELSE 1
               k == Saved(value)
    <2>1. value \in Nat /\ change \in Fields /\ {change} \in SUBSET Fields
      BY <1>1 DEF RowType, Fields
    <2>2. /\ k \in Tickets /\ k.state = copy.state /\ k.row = [copy.row EXCEPT ![change] = value]
      BY <1>1, <2>1, SetOne DEF Saved, RowType
    <2>3. /\ UpdateTicket(k) /\ SavedBy(Orchestrator, {change}) /\ run = "writing"
          /\ meant' = [meant EXCEPT ![change] = value] /\ moved' = moved
          /\ run' \in {"retry", "working"} /\ copy' = NoTicket /\ change' = "worktree"
          /\ UNCHANGED <<attempt, clientVars>>
      BY <1>7 DEF SaveFields, Means
    <2> HIDE DEF k, value
    <2>4. Orchestrator \in Writers /\ Holds(Orchestrator) /\ CopyOf(Orchestrator) = copy
      BY <2>3 DEF Writers, Holds, CopyOf
    <2>5. copy.row \in [Fields -> Nat] /\ meant \in [Fields -> Nat]
      BY <1>1 DEF RowType, Tickets
    <2>6. meant' \in [Fields -> Nat] /\ \A f \in Fields : meant'[f] = IF f \in {change} THEN k.row[f] ELSE meant[f]
      BY <2>1, <2>2, <2>3, <2>5
    <2>7. /\ state' \in States /\ row' \in [Fields -> Nat]
          /\ since' \in [Writers -> SUBSET Columns] /\ overtaken' \subseteq Columns
          /\ NothingUndone'
          /\ \A v \in Writers \ {Orchestrator} : Holds(v) /\ CopyOf(v)' = CopyOf(v) => CopyKnown(v)'
      <3>1. k.state = CopyOf(Orchestrator).state
            /\ \A f \in Fields \ {change} : k.row[f] = CopyOf(Orchestrator).row[f]
        BY <2>1, <2>2, <2>4, <2>5
      <3> QED BY <2>1, <2>2, <2>3, <2>4, <2>6, <3>1, SaveKeeps
    <2>8. \A v \in Writers : Holds(v)' => v # Orchestrator /\ Holds(v) /\ CopyOf(v)' = CopyOf(v)
      BY <2>3 DEF Holds, CopyOf
    <2>9. NoTicket \in Tickets
      BY DEF NoTicket, Tickets, Blank, States
    <2> QED BY <1>1, <2>3, <2>6, <2>7, <2>8, <2>9 DEF RowInv, RowType, CopiesKnown
  <1>8. ASSUME NEW f \in {"worktree", "retries"}, UpdateFields(f)
        PROVE  RowInv'
    BY <1>1, <1>8 DEF UpdateFields, Here, history, RowInv, RowType, Tickets, NothingUndone, CopiesKnown,
                      CopyKnown, CopyOf, Holds, Writers
  <1> QED BY <1>2, <1>4, <1>5, <1>6, <1>7, <1>8

\* A request of a client, from its read of the row to its last write.
LEMMA ClientKeeps ==
  ASSUME RowInv, NEW c \in Clients,
         \/ SaveEdit(c) \/ SaveNote(c) \/ SendBack(c) \/ ReorderTicket(c) \/ MoveTicket(c)
         \/ \E kind \in Kinds : Request(c, kind)
  PROVE  RowInv'
  <1> USE ClientsAssumption DEF runVars
  <1>1. RowType /\ NothingUndone /\ CopiesKnown /\ c \in Writers /\ c # Orchestrator
    BY DEF RowInv, Writers
  <1>2. NoTicket \in Tickets
    BY DEF NoTicket, Tickets, Blank, States
  <1>3. ASSUME NEW ev, SetTicketState(ev), row' = row, UNCHANGED <<runVars, requests>>,
               client' \in [Clients -> {"edit", "back", "idle", "move"}],
               current' \in [Clients -> Tickets],
               \A d \in Clients : client'[d] \in {"edit", "back"} =>
                  client'[d] = client[d] /\ current'[d] = current[d]
        PROVE  RowInv'
    <2>1. /\ state' \in States /\ meant' = meant /\ moved' \in States
          /\ since' \in [Writers -> SUBSET Columns] /\ overtaken' \subseteq Columns
          /\ NothingUndone'
          /\ \A w \in Writers : Holds(w) /\ CopyOf(w)' = CopyOf(w) => CopyKnown(w)'
      BY <1>3, MoveKeeps
    <2>2. \A w \in Writers : Holds(w)' => Holds(w) /\ CopyOf(w)' = CopyOf(w)
      BY <1>3 DEF Holds, CopyOf, Writers
    <2> QED BY <1>1, <1>3, <2>1, <2>2 DEF RowInv, RowType, CopiesKnown
  <1>4. ASSUME NEW k \in Tickets, NEW columns \in SUBSET Fields, Holds(c),
               UpdateTicket(k), SavedBy(c, columns),
               k.state = current[c].state, \A f \in Fields \ columns : k.row[f] = current[c].row[f],
               moved' = moved, meant' \in [Fields -> Nat],
               \A f \in Fields : meant'[f] = IF f \in columns THEN k.row[f] ELSE meant[f],
               NEW next \in {"idle", "move"}, client' = [client EXCEPT ![c] = next],
               NEW left \in Tickets, current' = [current EXCEPT ![c] = left],
               UNCHANGED <<runVars, requests>>
        PROVE  RowInv'
    <2>1. CopyOf(c) = current[c]
      BY <1>1 DEF CopyOf
    <2>2. /\ state' \in States /\ row' \in [Fields -> Nat]
          /\ since' \in [Writers -> SUBSET Columns] /\ overtaken' \subseteq Columns
          /\ NothingUndone'
          /\ \A v \in Writers \ {c} : Holds(v) /\ CopyOf(v)' = CopyOf(v) => CopyKnown(v)'
      BY <1>1, <1>4, <2>1, SaveKeeps
    <2>3. \A v \in Writers : Holds(v)' => v # c /\ Holds(v) /\ CopyOf(v)' = CopyOf(v)
      BY <1>1, <1>4 DEF Holds, CopyOf, RowType, Writers
    <2> QED BY <1>1, <1>4, <2>2, <2>3 DEF RowInv, RowType, CopiesKnown
  <1>5. CASE SaveEdit(c)
    <2>1. current[c] \in Tickets /\ {} \in SUBSET Fields
      BY <1>1 DEF RowType
    <2>2. UpdateTicket(current[c]) /\ SavedBy(c, {}) /\ meant' = meant /\ moved' = moved
      BY <1>5 DEF SaveEdit
    <2>3. /\ client' = [client EXCEPT ![c] = "idle"] /\ current' = [current EXCEPT ![c] = NoTicket]
          /\ UNCHANGED <<runVars, requests>>
      BY <1>5 DEF SaveEdit, Finish
    <2>4. Holds(c)
      BY <1>1, <1>5 DEF SaveEdit, Holds
    <2>5. meant' \in [Fields -> Nat] /\ \A f \in Fields : meant'[f] = IF f \in {} THEN current[c].row[f] ELSE meant[f]
      BY <1>1, <2>2 DEF RowType
    <2> QED BY <1>2, <1>4, <2>1, <2>2, <2>3, <2>4, <2>5
  <1>6. CASE SaveNote(c)
    <2> DEFINE k == Set(current[c], "feedback", requests)
               left == [current[c] EXCEPT !.row = Blank]
    <2>1. current[c] \in Tickets /\ requests \in Nat /\ "feedback" \in Fields
          /\ {"feedback"} \in SUBSET Fields /\ meant \in [Fields -> Nat]
      BY <1>1 DEF RowType, Fields
    <2>2. k \in Tickets /\ k.state = current[c].state /\ k.row = [current[c].row EXCEPT !["feedback"] = requests]
      BY <2>1, SetOne
    <2>3. left \in Tickets
      BY <2>1 DEF Tickets, Blank
    <2>4. /\ UpdateTicket(k) /\ SavedBy(c, {"feedback"}) /\ moved' = moved
          /\ meant' = [meant EXCEPT !["feedback"] = requests]
          /\ client' = [client EXCEPT ![c] = "move"]
          /\ UNCHANGED <<runVars, requests>>
      BY <1>6 DEF SaveNote, Means
    <2>5. current' = [current EXCEPT ![c] = left]
      BY <1>1, <1>6 DEF SaveNote, RowType
    <2>6. Holds(c)
      BY <1>1, <1>6 DEF SaveNote, Holds
    <2> HIDE DEF k, left
    <2>7. current[c].row \in [Fields -> Nat]
      BY <2>1 DEF Tickets
    <2>8. meant' \in [Fields -> Nat]
          /\ \A f \in Fields : meant'[f] = IF f \in {"feedback"} THEN k.row[f] ELSE meant[f]
      BY <2>1, <2>2, <2>4, <2>7
    <2>9. \A f \in Fields \ {"feedback"} : k.row[f] = current[c].row[f]
      BY <2>2, <2>7
    <2> QED BY <1>4, <2>1, <2>2, <2>3, <2>4, <2>5, <2>6, <2>8, <2>9
  <1>7. CASE SendBack(c)
    <2> DEFINE ev == IF current[c].state = "needs_you" THEN "requeue" ELSE "request_changes"
    <2>1. /\ client' = [client EXCEPT ![c] = "idle"] /\ current' = [current EXCEPT ![c] = NoTicket]
          /\ row' = row /\ UNCHANGED <<runVars, requests>>
      BY <1>7 DEF SendBack, Finish
    <2>2. /\ client' \in [Clients -> {"edit", "back", "idle", "move"}]
          /\ current' \in [Clients -> Tickets]
          /\ \A d \in Clients : client'[d] \in {"edit", "back"} =>
                  client'[d] = client[d] /\ current'[d] = current[d]
      BY <1>1, <1>2, <2>1 DEF RowType
    <2>3. CASE Legal(state, ev)
      BY <1>3, <1>7, <2>1, <2>2, <2>3 DEF SendBack
    <2>4. CASE ~Legal(state, ev)
      <3>1. UNCHANGED <<state, history>>
        BY <1>7, <2>4 DEF SendBack
      <3> QED BY <1>1, <2>1, <2>2, <3>1 DEF history, RowInv, RowType, NothingUndone, CopiesKnown, CopyKnown,
                                            CopyOf, Holds, Writers
    <2> QED BY <2>3, <2>4
  <1>8. CASE ReorderTicket(c)
    <2>1. /\ row' = [row EXCEPT !.position = requests'] /\ requests' = requests + 1
          /\ meant' = [meant EXCEPT !["position"] = requests'] /\ moved' = moved
          /\ Touched({"position"}, {}) /\ overtaken' = overtaken \ {"position"}
          /\ UNCHANGED <<state, runVars, client, current>>
      BY <1>8 DEF ReorderTicket, Means, SetAlone
    <2>2. {"position"} \in SUBSET Columns /\ "position" \in Fields /\ "state" \notin Fields
      BY DEF Columns, Fields
    <2>3. /\ since' \in [Writers -> SUBSET Columns]
          /\ \A w \in Writers : Holds(w) => since'[w] = since[w] \cup {"position"}
      BY <1>1, <2>1, <2>2, TouchedAlone
    <2>4. RowType'
      BY <1>1, <2>1, <2>2, <2>3 DEF RowType
    <2>5. NothingUndone'
      BY <1>1, <2>1, <2>2 DEF RowType, NothingUndone
    <2>6. \A w \in Writers : Holds(w)' => Holds(w) /\ CopyOf(w)' = CopyOf(w)
      BY <2>1 DEF Holds, CopyOf, runVars
    <2>7. ASSUME NEW w \in Writers, Holds(w)'
          PROVE  CopyKnown(w)'
      <3>1. Holds(w) /\ CopyOf(w)' = CopyOf(w) /\ CopyKnown(w)
        BY <1>1, <2>6, <2>7 DEF CopiesKnown
      <3>2. since'[w] = since[w] \cup {"position"}
        BY <2>3, <3>1
      <3> QED BY <1>1, <2>1, <2>2, <3>1, <3>2 DEF CopyKnown, RowType
    <2> QED BY <2>4, <2>5, <2>7 DEF RowInv, CopiesKnown
  <1>9. CASE MoveTicket(c)
    BY <1>1, <1>3, <1>9 DEF MoveTicket, clientVars, RowType
  <1>10. ASSUME NEW kind \in Kinds, Request(c, kind)
         PROVE  RowInv'
    <2>1. /\ client' = [client EXCEPT ![c] = kind] /\ kind \in {"edit", "back"}
          /\ current' = [current EXCEPT ![c] = Here] /\ requests' = requests + 1
          /\ UNCHANGED <<state, row, history, runVars>>
      BY <1>10 DEF Request
    <2>2. RowType' /\ NothingUndone'
      BY <1>1, <2>1 DEF RowType, NothingUndone, history, Here, Tickets
    <2>3. ASSUME NEW w \in Writers, Holds(w)'
          PROVE  CopyKnown(w)'
      <3>1. CASE w = c
        BY <1>1, <2>1, <3>1 DEF RowType, CopyKnown, CopyOf, NothingUndone, history, Here
      <3>2. CASE w # c
        BY <1>1, <2>1, <2>3, <3>2 DEF RowType, CopiesKnown, CopyKnown, CopyOf, Holds, history, Writers
      <3> QED BY <3>1, <3>2
    <2> QED BY <2>2, <2>3 DEF RowInv, CopiesKnown
  <1> QED BY <1>5, <1>6, <1>7, <1>8, <1>9, <1>10

\* Every step of the two parts keeps the invariant; the settings' steps leave the row alone.
LEMMA RowKept == RowInv /\ [Next]_vars => RowInv'
  <1> SUFFICES ASSUME RowInv, [Next]_vars PROVE RowInv'
    OBVIOUS
  <1>1. CASE RowNext
    BY <1>1, RunKeeps, ClientKeeps DEF RowNext
  <1>2. CASE UNCHANGED rowVars
    BY <1>2 DEF rowVars, RowInv, RowType, CopiesKnown, CopyKnown, CopyOf, Holds, NothingUndone
  <1> QED BY <1>1, <1>2 DEF Next, vars

\* It therefore always holds.
LEMMA RowInductive == Spec => []RowInv
  <1>1. Init => RowInv
    BY RowInitKeeps DEF Init
  <1> QED BY <1>1, RowKept, PTL DEF Spec

\* However many clients and a run save the row at once, a column that no edit sends, and the state,
\* are what they were last set to on purpose, unless that was between the read and the write of a save.
THEOREM ColumnsStand == Spec => []NothingUndone
  <1>1. RowInv => NothingUndone
    BY DEF RowInv
  <1> QED BY <1>1, RowInductive, PTL

(***************************************************************************)
(* The settings and the projects.                                           *)
(***************************************************************************)
Places == Paths \cup {"none"}
Rows == [is : {"none", "here", "gone"}, slug : Places, repo : Places,
         target : {"none", "main", "other"}, notes : Nat, archived : BOOLEAN]
Cfgs == [workers : Nat, routes : Nat]
Ops == {"none", "settings", "setup", "info", "preview", "add", "attach", "create", "update", "archive", "delete"}
Ats == {"none", "called", "prepared", "saving", "undoing", "looked", "ok", "failed", "unfinished", "lost"}
Calls == [op : Ops, at : Ats, heard : BOOLEAN, p : Ids \cup {0},
          want : Rows, read : Rows, cfg : Cfgs, orig : Cfgs]

ServiceType ==
  /\ booted \in [{"workers"} -> Nat] /\ yaml \in Cfgs /\ cfg \in Cfgs /\ live \in Cfgs
  /\ projects \in [Ids -> Rows] /\ call \in [Users -> Calls] /\ present \subseteq Users

ClientType ==
  /\ settings \in [loaded : BOOLEAN, dirty : BOOLEAN, cfg : Cfgs]
  /\ loading \in [on : BOOLEAN, cfg : Cfgs]
  /\ wizard \in [open : BOOLEAN, step : Nat, busy : BOOLEAN, info : Cfgs, cfg : Cfgs, project : Rows]
  /\ form \in [p : Ids \cup {0}, row : Rows]

\* The file, the service and the scheduler agree on something usable.
Agreed == cfg = yaml /\ live = yaml /\ Usable(yaml) /\ pendingRestart = NotInUse(yaml)

Writes == {"prepared", "saving", "undoing"}

\* A setup that writes holds the settings' lock, so they are those it was drafted from; one that
\* failed made no project or made one that has gone for good; and a repository is attached to a
\* row that was read without one.
Kept(u) ==
  /\ call[u].op = "setup" /\ call[u].at \in Writes =>
       holder = u /\ Usable(call[u].cfg) /\ cfg = call[u].orig
  /\ call[u].op = "setup" /\ call[u].at \in {"called", "prepared"} => call[u].p = 0
  /\ call[u].op = "setup" /\ call[u].at = "failed" =>
       call[u].p = 0 \/ (call[u].p \in Ids /\ projects[call[u].p].is = "gone")
  /\ call[u].op = "attach" /\ call[u].at = "looked" => call[u].read.repo = "none"

SetupInv == ServiceType /\ ClientType /\ Agreed /\ \A u \in Users : Kept(u)

\* No row, no settings and no call are values of their kinds.
LEMMA NoCallIs == NoRow \in Rows /\ Zero \in Cfgs /\ NoCall \in Calls
  <1>1. NoRow \in Rows
    BY DEF NoRow, Rows, Places
  <1>2. Zero \in Cfgs
    BY DEF Zero, Cfgs
  <1> QED BY <1>1, <1>2 DEF NoCall, Calls, Ops, Ats

\* The daemon's answer leaves the call where it was, or there is none to answer.
LEMMA ReplyIs ==
  ASSUME call \in [Users -> Calls], NEW u \in Users, NEW at \in Ats, Reply(u, at)
  PROVE  /\ call' \in [Users -> Calls] /\ \A v \in Users \ {u} : call'[v] = call[v]
         /\ call'[u] = NoCall \/ call'[u] = [call[u] EXCEPT !.at = at]
  <1>1. [call[u] EXCEPT !.at = at] \in Calls
    BY DEF Calls
  <1> QED BY <1>1, NoCallIs DEF Reply

\* What a client may do to the calls: begin one, hear an answer, or go away.
Quiet(u) ==
  \/ call'[u] \in {call[u], NoCall, [call[u] EXCEPT !.heard = FALSE]}
  \/ call'[u] \in Calls /\ call'[u].at = "called" /\ (call'[u].op = "setup" => call'[u].p = 0)

\* A step of the clients that leaves the daemon's state alone keeps what holds of it.
LEMMA QuietKeeps ==
  ASSUME SetupInv, UNCHANGED Daemon, UNCHANGED present, ClientType', call' \in [Users -> Calls],
         \A u \in Users : Quiet(u)
  PROVE  SetupInv'
  <1>1. ServiceType' /\ Agreed'
    BY DEF SetupInv, ServiceType, Agreed, Daemon, settingsVars, NotInUse
  <1>2. ASSUME NEW u \in Users PROVE Kept(u)'
    <2>1. CASE call'[u] \in {call[u], [call[u] EXCEPT !.heard = FALSE]}
      BY <2>1 DEF SetupInv, ServiceType, Kept, Calls, Daemon, settingsVars
    <2>2. CASE call'[u] = NoCall
      BY <2>2 DEF Kept, NoCall
    <2>3. CASE call'[u].at = "called" /\ (call'[u].op = "setup" => call'[u].p = 0)
      BY <2>3 DEF Kept, Writes
    <2> QED BY <2>1, <2>2, <2>3 DEF Quiet
  <1> QED BY <1>1, <1>2 DEF SetupInv

\* A call that is begun is one of these.
LEMMA CallIs ==
  ASSUME call \in [Users -> Calls], NEW u \in Users, NEW op \in Ops, NEW p \in Ids \cup {0},
         NEW want \in Rows, NEW c \in Cfgs, NEW orig \in Cfgs, op = "setup" => p = 0,
         Call(u, op, p, want, c, orig)
  PROVE  call' \in [Users -> Calls] /\ \A v \in Users : Quiet(v)
  <1> DEFINE begun == [NoCall EXCEPT !.op = op, !.at = "called", !.p = p, !.want = want, !.cfg = c, !.orig = orig]
  <1>1. begun \in Calls /\ begun.at = "called" /\ (begun.op = "setup" => begun.p = 0)
    BY NoCallIs DEF NoCall, Calls, Ops, Ats
  <1>2. call' = [call EXCEPT ![u] = begun]
    BY DEF Call
  <1> HIDE DEF begun
  <1> QED BY <1>1, <1>2 DEF Quiet

\* A project once there is there no more.
Gone(p) == projects[p].is = "gone"
\* A call nobody touches goes on, provided that the settings stand while it writes and that what
\* has gone has gone.
LEMMA OtherCall ==
  ASSUME SetupInv, NEW v \in Users, call'[v] = call[v],
         call[v].op = "setup" /\ call[v].at \in Writes => holder' = holder /\ cfg' = cfg,
         \A p \in Ids : Gone(p) => Gone(p)'
  PROVE  Kept(v)'
  <1>1. Kept(v)
    BY DEF SetupInv
  <1>2. /\ call'[v].op = "setup" /\ call'[v].at \in Writes =>
             holder' = v /\ Usable(call'[v].cfg) /\ cfg' = call'[v].orig
        /\ call'[v].op = "setup" /\ call'[v].at \in {"called", "prepared"} => call'[v].p = 0
        /\ call'[v].op = "attach" /\ call'[v].at = "looked" => call'[v].read.repo = "none"
    BY <1>1 DEF Kept
  <1>3. call'[v].op = "setup" /\ call'[v].at = "failed" =>
          call'[v].p = 0 \/ (call'[v].p \in Ids /\ projects'[call'[v].p].is = "gone")
    BY <1>1 DEF Kept, Gone
  <1> QED BY <1>2, <1>3 DEF Kept, Writes, Usable

\* A call comes to its end.
Ends(u, at) == call'[u] = NoCall \/ call'[u] = [call[u] EXCEPT !.at = at]
\* A call that is answered: one that failed to set up leaves no project.
LEMMA Answers ==
  ASSUME SetupInv, NEW u \in Users, NEW at \in {"ok", "failed", "unfinished", "lost"}, Ends(u, at),
         call[u].op = "setup" /\ at = "failed" => call[u].p = 0 \/ (call[u].p \in Ids /\ projects'[call[u].p].is = "gone")
  PROVE  Kept(u)'
  <1>1. CASE call'[u] = NoCall
    BY <1>1 DEF Kept, NoCall
  <1>2. CASE call'[u] = [call[u] EXCEPT !.at = at]
    BY <1>2 DEF SetupInv, ServiceType, Kept, Calls, Gone, Writes
  <1> QED BY <1>1, <1>2 DEF Ends

\* Nothing but the calls changes: the daemon answers one of them.
LEMMA OnlyAnswers ==
  ASSUME SetupInv, NEW u \in Users, NEW at \in {"ok", "failed", "unfinished"}, Reply(u, at),
         UNCHANGED <<present, settingsVars, projects, uiVars>>,
         call[u].op = "setup" /\ at = "failed" => call[u].p = 0
  PROVE  SetupInv'
  <1>1. /\ call' \in [Users -> Calls] /\ \A v \in Users \ {u} : call'[v] = call[v]
        /\ Ends(u, at)
    BY ReplyIs DEF Ats, Ends, SetupInv, ServiceType
  <1>2. ServiceType' /\ ClientType' /\ Agreed'
    BY <1>1 DEF SetupInv, ServiceType, ClientType, Agreed, NotInUse, settingsVars, uiVars
  <1>3. ASSUME NEW v \in Users PROVE Kept(v)'
    <2>1. CASE v = u
      BY <1>1, <2>1, Answers
    <2>2. CASE v # u
      BY <1>1, <2>2, OtherCall DEF settingsVars, Gone
    <2> QED BY <2>1, <2>2
  <1> QED BY <1>2, <1>3 DEF SetupInv

\* Or looks at a row, which is one it found there or none.
LEMMA LookedIs ==
  ASSUME SetupInv, NEW u \in Users, call[u].op \in {"add", "attach", "update", "delete"}, Looked(u), UNCHANGED present,
         call[u].op = "attach" => projects[call[u].p].repo = "none" /\ Exists(call[u].p)
  PROVE  SetupInv'
  <1> DEFINE seen == IF Exists(call[u].p) THEN projects[call[u].p] ELSE NoRow
  <1> DEFINE looked == [call[u] EXCEPT !.at = "looked", !.read = seen]
  <1>0. UNCHANGED <<settingsVars, projects, uiVars>>
    BY DEF Looked
  <1>1. seen \in Rows
    BY NoCallIs DEF Exists, SetupInv, ServiceType
  <1>2. /\ looked \in Calls /\ looked.op = call[u].op /\ looked.at = "looked" /\ looked.read = seen
    BY <1>1 DEF Calls, Ats, SetupInv, ServiceType
  <1>3. call' = [call EXCEPT ![u] = looked]
    BY DEF Looked
  <1>4. looked.op = "attach" => looked.read.repo = "none"
    BY <1>2 DEF Exists
  <1> HIDE DEF looked, seen
  <1>5. ServiceType' /\ ClientType' /\ Agreed'
    BY <1>0, <1>2, <1>3 DEF SetupInv, ServiceType, ClientType, Agreed, NotInUse, settingsVars, uiVars, Usable
  <1>6. ASSUME NEW v \in Users PROVE Kept(v)'
    <2>1. CASE v = u
      BY <1>2, <1>3, <1>4, <2>1 DEF Kept, Writes, SetupInv, ServiceType
    <2>2. CASE v # u
      BY <1>0, <1>3, <2>2, OtherCall DEF SetupInv, ServiceType, settingsVars, Gone
    <2> QED BY <2>1, <2>2
  <1> QED BY <1>5, <1>6 DEF SetupInv

\* Or makes a project, at an id nobody had: what has gone stays gone.
LEMMA CreatedIs ==
  ASSUME SetupInv, NEW u \in Users, NEW at \in {"ok", "saving"}, CreateProject(u, at),
         ~SlugTaken(call[u].want.slug), UNCHANGED <<present, settingsVars, uiVars>>,
         at = "saving" => call[u].op = "setup" /\ call[u].at = "prepared"
  PROVE  SetupInv'
  <1>1. PICK p \in Free :
          /\ projects' = [projects EXCEPT ![p] = NewRow(call[u].want)]
          /\ IF at = "ok" THEN Reply(u, at) ELSE call' = [call EXCEPT ![u].at = at, ![u].p = p]
    BY DEF CreateProject
  <1>2. p \in Ids /\ projects[p].is = "none"
    BY <1>1 DEF Free
  <1>3. NewRow(call[u].want) \in Rows
    <2>1. call[u].want \in Rows
      BY DEF SetupInv, ServiceType, Calls
    <2>2. CASE call[u].want.repo = "none"
      BY <2>1, <2>2 DEF NewRow, Rows
    <2>3. CASE call[u].want.repo # "none"
      BY <2>1, <2>3 DEF NewRow, Rows
    <2> QED BY <2>2, <2>3
  <1>4. projects' \in [Ids -> Rows] /\ \A q \in Ids : Gone(q) => Gone(q)'
    BY <1>1, <1>2, <1>3 DEF Gone, SetupInv, ServiceType
  <1>5. /\ call' \in [Users -> Calls] /\ \A v \in Users \ {u} : call'[v] = call[v]
        /\ Kept(u)'
    <2>1. CASE at = "ok"
      <3>1. /\ call' \in [Users -> Calls] /\ \A v \in Users \ {u} : call'[v] = call[v]
            /\ Ends(u, at)
        BY <1>1, <2>1, ReplyIs DEF Ats, Ends, SetupInv, ServiceType
      <3> QED BY <2>1, <3>1, Answers
    <2>2. CASE at = "saving"
      <3> DEFINE made == [call[u] EXCEPT !.at = "saving", !.p = p]
      <3>1. /\ made \in Calls /\ made.at = "saving" /\ made.op = call[u].op /\ made.cfg = call[u].cfg
            /\ made.orig = call[u].orig
        BY <1>2 DEF Calls, Ats, SetupInv, ServiceType
      <3>2. call' = [call EXCEPT ![u] = made]
        BY <1>1, <2>2
      <3> HIDE DEF made
      <3>3. Kept(u) /\ cfg' = cfg /\ holder' = holder
        BY DEF SetupInv, settingsVars
      <3>4. /\ call' \in [Users -> Calls] /\ \A v \in Users \ {u} : call'[v] = call[v]
            /\ call'[u] = made
        BY <3>1, <3>2 DEF SetupInv, ServiceType
      <3> QED BY <2>2, <3>1, <3>3, <3>4 DEF Kept, Writes, Usable
    <2> QED BY <2>1, <2>2
  <1>6. ServiceType' /\ ClientType' /\ Agreed'
    BY <1>4, <1>5 DEF SetupInv, ServiceType, ClientType, Agreed, NotInUse, settingsVars, uiVars, Usable
  <1>7. ASSUME NEW v \in Users PROVE Kept(v)'
    BY <1>4, <1>5, OtherCall DEF settingsVars
  <1> QED BY <1>6, <1>7 DEF SetupInv

\* Or writes a row it read, over one that is there.
LEMMA WrittenIs ==
  ASSUME SetupInv, NEW u \in Users, NEW r \in Rows, Written(u, r), UNCHANGED present, call[u].op # "setup"
  PROVE  SetupInv'
  <1> DEFINE p == call[u].p
  <1>1. CASE ~Exists(p)
    BY <1>1, OnlyAnswers DEF Written
  <1>2. CASE Exists(p)
    <2>0. /\ projects' = [projects EXCEPT ![p] = [r EXCEPT !.archived = projects[p].archived]]
          /\ Reply(u, "ok") /\ UNCHANGED <<settingsVars, uiVars>>
      BY <1>2 DEF Written
    <2>1. [r EXCEPT !.archived = projects[p].archived] \in Rows
      BY <1>2 DEF Exists, SetupInv, ServiceType, Rows
    <2>2. projects' \in [Ids -> Rows] /\ \A q \in Ids : Gone(q) => Gone(q)'
      BY <1>2, <2>0, <2>1 DEF Exists, Gone, SetupInv, ServiceType
    <2>3. /\ call' \in [Users -> Calls] /\ \A v \in Users \ {u} : call'[v] = call[v]
          /\ Ends(u, "ok")
      BY <2>0, ReplyIs DEF Ats, Ends, SetupInv, ServiceType
    <2>4. ServiceType' /\ ClientType' /\ Agreed'
      BY <2>0, <2>2, <2>3 DEF SetupInv, ServiceType, ClientType, Agreed, NotInUse, settingsVars, uiVars, Usable
    <2>5. ASSUME NEW v \in Users PROVE Kept(v)'
      BY <2>0, <2>2, <2>3, OtherCall, Answers DEF settingsVars
    <2> QED BY <2>4, <2>5 DEF SetupInv
  <1> QED BY <1>1, <1>2

\* What the daemon does with the settings: only under the lock does anything outlast a step.
LEMMA SettingsKeep ==
  ASSUME SetupInv, NEW u \in Users, UNCHANGED present,
         \/ UpdateSettings(u) \/ ApplySetup(u) \/ SetupProject(u) \/ SaveSetup(u) \/ UndoSetup(u)
         \/ SetupInfo(u) \/ PreviewSetup(u)
  PROVE  SetupInv'
  <1>0. /\ call[u] \in Calls /\ call \in [Users -> Calls] /\ Kept(u)
        /\ \A v \in Users \ {u} : call[v].op = "setup" /\ call[v].at \in Writes => holder = v
    BY DEF SetupInv, ServiceType, Kept
  <1> DEFINE saved == Installed(call[u].cfg) /\ Usable(call[u].cfg) /\ Reply(u, "ok")
                      /\ UNCHANGED <<booted, projects, present, uiVars>>
  <1>1. ASSUME saved, holder' = "none",
               \A v \in Users \ {u} : ~(call[v].op = "setup" /\ call[v].at \in Writes)
        PROVE  SetupInv'
    <2>1. /\ call' \in [Users -> Calls] /\ \A v \in Users \ {u} : call'[v] = call[v]
          /\ Ends(u, "ok")
      BY <1>0, <1>1, ReplyIs DEF Ats, Ends
    <2>2. call[u].cfg \in Cfgs
      BY <1>0 DEF Calls
    <2>3. ServiceType' /\ ClientType' /\ Agreed'
      BY <1>1, <2>1, <2>2 DEF Installed, SetupInv, ServiceType, ClientType, Agreed, NotInUse, uiVars, Usable
    <2>4. ASSUME NEW v \in Users PROVE Kept(v)'
      BY <1>1, <2>1, OtherCall, Answers DEF Gone
    <2> QED BY <2>3, <2>4 DEF SetupInv
  <1>2. ASSUME NEW at \in {"failed", "unfinished"}, Reply(u, at), holder' = "none", holder = u,
               UNCHANGED <<booted, yaml, cfg, live, pendingRestart, present, uiVars>>,
               projects' \in [Ids -> Rows], \A p \in Ids : Gone(p) => Gone(p)',
               at = "failed" => call[u].p = 0 \/ (call[u].p \in Ids /\ projects'[call[u].p].is = "gone")
        PROVE  SetupInv'
    <2>2. /\ call' \in [Users -> Calls] /\ \A v \in Users \ {u} : call'[v] = call[v]
          /\ Ends(u, at)
      BY <1>0, <1>2, ReplyIs DEF Ats, Ends
    <2>3. ServiceType' /\ ClientType' /\ Agreed'
      BY <1>2, <2>2 DEF SetupInv, ServiceType, ClientType, Agreed, NotInUse, uiVars, Usable
    <2>4. Kept(u)'
      BY <1>2, <2>2, Answers
    <2>5. ASSUME NEW v \in Users \ {u} PROVE Kept(v)'
      BY <1>0, <1>2, <2>2, OtherCall
    <2> QED BY <2>3, <2>4, <2>5 DEF SetupInv
  <1>3. ASSUME NEW at \in {"prepared", "saving", "undoing"}, Step(u, at), call[u].op = "setup",
               holder' = u, holder \in {"none", u}, call[u].cfg.workers >= 1, cfg = call[u].orig,
               at = "prepared" => call[u].p = 0,
               UNCHANGED <<booted, yaml, cfg, live, pendingRestart, projects, present, uiVars>>
        PROVE  SetupInv'
    <2> DEFINE next == [call[u] EXCEPT !.at = at]
    <2>1. /\ next \in Calls /\ next.at = at /\ next.op = call[u].op /\ next.cfg = call[u].cfg
          /\ next.orig = call[u].orig /\ next.p = call[u].p
      BY <1>0 DEF Calls, Ats
    <2>2. call' = [call EXCEPT ![u] = next]
      BY <1>3 DEF Step
    <2> HIDE DEF next
    <2>3. ServiceType' /\ ClientType' /\ Agreed'
      BY <1>0, <1>3, <2>1, <2>2 DEF SetupInv, ServiceType, ClientType, Agreed, NotInUse, uiVars, Usable
    <2>4. Kept(u)'
      BY <1>0, <1>3, <2>1, <2>2 DEF Kept, Writes, Usable
    <2>5. ASSUME NEW v \in Users \ {u} PROVE Kept(v)'
      BY <1>0, <1>3, <2>2, OtherCall DEF Gone, Users
    <2> QED BY <2>3, <2>4, <2>5 DEF SetupInv
  <1>4. CASE UpdateSettings(u)
    BY <1>0, <1>1, <1>4, OnlyAnswers DEF UpdateSettings, Doing, settingsVars, Users
  <1>5. CASE ApplySetup(u)
    BY <1>0, <1>3, <1>5, OnlyAnswers DEF ApplySetup, Refusable, Usable, Doing, settingsVars, Kept
  <1>6. CASE SetupProject(u)
    <2>1. CASE SlugTaken(call[u].want.slug)
      BY <1>0, <1>2, <1>6, <2>1 DEF SetupProject, CreateProject, Doing, Kept, Writes, SetupInv, ServiceType, Gone
    <2>2. CASE ~SlugTaken(call[u].want.slug)
      BY <1>6, <2>2, CreatedIs DEF SetupProject, Doing, settingsVars
    <2> QED BY <2>1, <2>2
  <1>7. CASE SaveSetup(u)
    <2>0. holder = u /\ Usable(call[u].cfg) /\ cfg = call[u].orig /\ call[u].op = "setup"
      BY <1>0, <1>7 DEF SaveSetup, Doing, Kept, Writes
    <2>1. CASE Installed(call[u].cfg) /\ Reply(u, "ok") /\ holder' = "none"
      BY <1>0, <1>1, <1>7, <2>0, <2>1 DEF SaveSetup
    <2>2. CASE UNCHANGED <<yaml, cfg, live, pendingRestart, holder>> /\ Step(u, "undoing")
      BY <1>0, <1>3, <1>7, <2>0, <2>2 DEF SaveSetup, Usable
    <2>3. CASE /\ UNCHANGED <<yaml, cfg, live, pendingRestart>> /\ call[u].p = 0
               /\ Reply(u, "failed") /\ holder' = "none"
      BY <1>2, <1>7, <2>0, <2>3 DEF SaveSetup, SetupInv, ServiceType, Gone
    <2> QED BY <1>7, <2>1, <2>2, <2>3 DEF SaveSetup
  <1>8. CASE UndoSetup(u)
    <2>0. holder = u
      BY <1>0, <1>8 DEF UndoSetup, Doing, Kept, Writes
    <2>1. CASE UNCHANGED projects /\ Reply(u, "unfinished")
      BY <1>2, <1>8, <2>0, <2>1 DEF UndoSetup, SetupInv, ServiceType, Gone
    <2>2. CASE Exists(call[u].p) /\ projects' = [projects EXCEPT ![call[u].p].is = "gone"] /\ Reply(u, "failed")
      <3>1. projects' \in [Ids -> Rows] /\ \A p \in Ids : Gone(p) => Gone(p)'
        BY <2>2 DEF SetupInv, ServiceType, Gone, Rows, Exists
      <3>2. call[u].p \in Ids /\ projects'[call[u].p].is = "gone"
        BY <2>2 DEF SetupInv, ServiceType, Rows, Exists
      <3> QED BY <1>2, <1>8, <2>0, <2>2, <3>1, <3>2 DEF UndoSetup
    <2> QED BY <1>8, <2>1, <2>2 DEF UndoSetup
  <1>9. CASE SetupInfo(u)
    <2>1. CASE Reply(u, "failed")
      BY <1>9, <2>1, OnlyAnswers DEF SetupInfo, Doing
    <2>2. CASE call' = [call EXCEPT ![u] = IF @.heard THEN [@ EXCEPT !.at = "ok", !.cfg = cfg] ELSE NoCall]
      <3> DEFINE told == [call[u] EXCEPT !.at = "ok", !.cfg = cfg]
      <3>1. told \in Calls /\ told.at = "ok"
        BY <1>0 DEF Calls, Ats, SetupInv, ServiceType
      <3>2. call' = [call EXCEPT ![u] = IF call[u].heard THEN told ELSE NoCall]
        BY <2>2
      <3> HIDE DEF told
      <3>3. call' \in [Users -> Calls] /\ (call'[u] = NoCall \/ call'[u] = told)
        BY <1>0, <3>1, <3>2, NoCallIs
      <3>4. UNCHANGED <<settingsVars, projects, present, uiVars>>
        BY <1>9 DEF SetupInfo
      <3>5. ServiceType' /\ ClientType' /\ Agreed'
        BY <3>3, <3>4 DEF SetupInv, ServiceType, ClientType, Agreed, NotInUse, settingsVars, uiVars, Usable
      <3>6. Kept(u)'
        BY <3>1, <3>3 DEF Kept, NoCall, Writes
      <3>7. ASSUME NEW v \in Users \ {u} PROVE Kept(v)'
        BY <1>0, <3>2, <3>4, OtherCall DEF Gone, settingsVars
      <3> QED BY <3>5, <3>6, <3>7 DEF SetupInv
    <2> QED BY <1>9, <2>1, <2>2 DEF SetupInfo
  <1>10. CASE PreviewSetup(u)
    BY <1>10, OnlyAnswers DEF PreviewSetup, Doing
  <1> QED BY <1>4, <1>5, <1>6, <1>7, <1>8, <1>9, <1>10

\* A call of no setup may fail where it stands.
LEMMA FailsKeeps ==
  ASSUME SetupInv, NEW u \in Users, call[u].op # "setup", Fails(u), UNCHANGED present
  PROVE  SetupInv'
  BY OnlyAnswers DEF Fails

\* What the daemon does with the rows of the projects.
LEMMA ProjectsKeep ==
  ASSUME SetupInv, NEW u \in Users, UNCHANGED present,
         \/ AddProject(u) \/ AttachRepository(u) \/ CreateRepository(u) \/ UpdateProject(u)
         \/ ArchiveProject(u) \/ DeleteProject(u)
  PROVE  SetupInv'
  <1>0. /\ call[u] \in Calls /\ call \in [Users -> Calls] /\ projects \in [Ids -> Rows]
        /\ call[u].want \in Rows /\ call[u].read \in Rows
    BY DEF SetupInv, ServiceType, Calls
  <1>1. CASE AddProject(u)
    <2>1. CASE Doing(u, "add", "called")
      BY <1>1, <2>1, LookedIs, FailsKeeps DEF AddProject, Doing
    <2>2. CASE Doing(u, "add", "looked") /\ SlugTaken(call[u].want.slug)
      BY <1>1, <2>2, OnlyAnswers DEF AddProject, Doing, CreateProject
    <2>3. CASE Doing(u, "add", "looked") /\ ~SlugTaken(call[u].want.slug)
      BY <1>1, <2>3, CreatedIs DEF AddProject, Doing
    <2> QED BY <1>1, <2>1, <2>2, <2>3 DEF AddProject
  <1>2. CASE AttachRepository(u)
    <2>1. CASE Doing(u, "attach", "called")
      BY <1>2, <2>1, LookedIs, FailsKeeps DEF AttachRepository, Doing
    <2>2. CASE Doing(u, "attach", "looked")
      <3> DEFINE r == [call[u].read EXCEPT !.repo = call[u].want.repo,
                                           !.target = IF @ = "none" THEN "main" ELSE @]
      <3>1. r \in Rows
        <4>1. [call[u].read EXCEPT !.repo = call[u].want.repo] \in Rows
          BY <1>0 DEF Rows
        <4> QED BY <1>0, <4>1 DEF Rows
      <3>2. Written(u, r)
        BY <1>2, <2>2 DEF AttachRepository, Doing
      <3> QED BY <2>2, <3>1, <3>2, WrittenIs DEF Doing
    <2> QED BY <1>2, <2>1, <2>2 DEF AttachRepository
  <1>3. CASE CreateRepository(u)
    <2>1. CASE Fails(u)
      BY <1>3, <2>1, FailsKeeps DEF CreateRepository, Doing
    <2>2. CASE Reply(u, "failed") /\ UNCHANGED <<settingsVars, projects, uiVars>>
      BY <1>3, <2>2, OnlyAnswers DEF CreateRepository, Doing
    <2>3. CASE /\ Doing(u, "create", "called") /\ call' = [call EXCEPT ![u].op = "attach"]
               /\ UNCHANGED <<settingsVars, projects, uiVars>>
      <3>1. call' \in [Users -> Calls] /\ \A v \in Users : Quiet(v)
        BY <1>0, <2>3 DEF Quiet, Calls, Ops, Doing
      <3>2. ClientType' /\ ServiceType' /\ Agreed'
        BY <2>3, <3>1 DEF SetupInv, ServiceType, ClientType, Agreed, NotInUse, settingsVars, uiVars, Usable
      <3>3. Kept(u)'
        BY <1>0, <2>3 DEF Kept, Calls, Doing, Writes
      <3>4. ASSUME NEW v \in Users \ {u} PROVE Kept(v)'
        BY <1>0, <2>3, OtherCall DEF Gone, settingsVars
      <3> QED BY <3>2, <3>3, <3>4 DEF SetupInv
    <2> QED BY <1>3, <2>1, <2>2, <2>3 DEF CreateRepository
  <1>4. CASE UpdateProject(u)
    <2>1. CASE Doing(u, "update", "called")
      BY <1>4, <2>1, LookedIs, FailsKeeps DEF UpdateProject, Doing
    <2>2. CASE Doing(u, "update", "looked")
      <3> DEFINE r == [call[u].read EXCEPT !.target = call[u].want.target, !.notes = call[u].want.notes]
      <3>1. r \in Rows
        BY <1>0 DEF Rows
      <3>2. Written(u, r)
        BY <1>4, <2>2 DEF UpdateProject, Doing
      <3> QED BY <2>2, <3>1, <3>2, WrittenIs DEF Doing
    <2> QED BY <1>4, <2>1, <2>2 DEF UpdateProject
  <1>5. CASE ArchiveProject(u)
    <2>1. CASE Fails(u)
      BY <1>5, <2>1, FailsKeeps DEF ArchiveProject, Doing
    <2>2. CASE /\ Exists(call[u].p) /\ projects' = [projects EXCEPT ![call[u].p].archived = call[u].want.archived]
               /\ Reply(u, "ok") /\ UNCHANGED <<settingsVars, uiVars>>
      <3>1. projects' \in [Ids -> Rows] /\ \A p \in Ids : Gone(p) => Gone(p)'
        BY <1>0, <2>2 DEF Gone, Rows, Exists
      <3>2. /\ call' \in [Users -> Calls] /\ \A v \in Users \ {u} : call'[v] = call[v]
            /\ Ends(u, "ok")
        BY <1>0, <2>2, ReplyIs DEF Ats, Ends
      <3>3. ServiceType' /\ ClientType' /\ Agreed'
        BY <2>2, <3>1, <3>2 DEF SetupInv, ServiceType, ClientType, Agreed, NotInUse, settingsVars, uiVars, Usable
      <3>4. ASSUME NEW v \in Users PROVE Kept(v)'
        BY <2>2, <3>1, <3>2, OtherCall, Answers DEF settingsVars
      <3> QED BY <3>3, <3>4 DEF SetupInv
    <2> QED BY <1>5, <2>1, <2>2 DEF ArchiveProject
  <1>6. CASE DeleteProject(u)
    <2>1. CASE Doing(u, "delete", "called")
      BY <1>6, <2>1, LookedIs, FailsKeeps DEF DeleteProject, Doing
    <2>2. CASE Doing(u, "delete", "looked") /\ ~Exists(call[u].p)
      BY <1>6, <2>2, OnlyAnswers DEF DeleteProject, Doing
    <2>3. CASE Doing(u, "delete", "looked") /\ Exists(call[u].p)
      <3>0. /\ projects' = [projects EXCEPT ![call[u].p].is = "gone"] /\ Reply(u, "ok")
            /\ UNCHANGED <<settingsVars, uiVars>>
        BY <1>6, <2>3 DEF DeleteProject, Doing
      <3>1. projects' \in [Ids -> Rows] /\ \A p \in Ids : Gone(p) => Gone(p)'
        BY <1>0, <2>3, <3>0 DEF Gone, Rows, Exists
      <3>2. /\ call' \in [Users -> Calls] /\ \A v \in Users \ {u} : call'[v] = call[v]
            /\ Ends(u, "ok")
        BY <1>0, <3>0, ReplyIs DEF Ats, Ends
      <3>3. ServiceType' /\ ClientType' /\ Agreed'
        BY <3>0, <3>1, <3>2 DEF SetupInv, ServiceType, ClientType, Agreed, NotInUse, settingsVars, uiVars, Usable
      <3>4. ASSUME NEW v \in Users PROVE Kept(v)'
        BY <3>0, <3>1, <3>2, OtherCall, Answers DEF settingsVars
      <3> QED BY <3>3, <3>4 DEF SetupInv
    <2> QED BY <1>6, <2>1, <2>2, <2>3 DEF DeleteProject
  <1> QED BY <1>1, <1>2, <1>3, <1>4, <1>5, <1>6

\* A daemon started again: the calls it had are lost, and it is built with what the file says.
LEMMA RestartKeeps ==
  ASSUME SetupInv, Restart, UNCHANGED present
  PROVE  SetupInv'
  <1>0. /\ booted' = [workers |-> yaml.workers] /\ cfg' = yaml /\ live' = yaml /\ pendingRestart' = {}
        /\ UNCHANGED <<yaml, projects, uiVars>>
        /\ call' = [u \in Users |-> IF NotCalling(u) \/ Answered(u) THEN call[u]
                                  ELSE IF call[u].heard THEN [call[u] EXCEPT !.at = "lost"] ELSE NoCall]
    BY DEF Restart
  <1>1. ASSUME NEW u \in Users
        PROVE  call'[u] \in Calls /\ Kept(u)'
    <2>1. CASE NotCalling(u) \/ Answered(u)
      <3>1. call'[u] = call[u] /\ call[u].at \notin Writes
        BY <1>0, <2>1 DEF NotCalling, NoCall, Answered, Writes
      <3> QED BY <1>0, <3>1, OtherCall DEF SetupInv, ServiceType, Gone
    <2>2. CASE ~(NotCalling(u) \/ Answered(u))
      <3>1. [call[u] EXCEPT !.at = "lost"] \in Calls
        BY DEF SetupInv, ServiceType, Calls, Ats
      <3>2. Ends(u, "lost")
        BY <1>0, <2>2 DEF Ends
      <3> QED BY <3>1, <3>2, NoCallIs, Answers DEF Ends
    <2> QED BY <2>1, <2>2
  <1>2. call' \in [Users -> Calls]
    BY <1>0, <1>1
  <1>3. booted' \in [{"workers"} -> Nat] /\ NotInUse(yaml)' = {}
    BY <1>0 DEF SetupInv, ServiceType, Cfgs, NotInUse
  <1>4. ServiceType' /\ ClientType' /\ Agreed'
    BY <1>0, <1>2, <1>3 DEF SetupInv, ServiceType, ClientType, Agreed, uiVars, Usable
  <1> QED BY <1>1, <1>4 DEF SetupInv

\* A call that a client drops, hears the answer of, or leaves behind.
LEMMA CallDropped ==
  ASSUME call \in [Users -> Calls], NEW u \in Users,
         call' = [call EXCEPT ![u] = NoCall] \/ call' = [call EXCEPT ![u].heard = FALSE] \/ call' = call
  PROVE  call' \in [Users -> Calls] /\ \A v \in Users : Quiet(v)
  <1>1. [call[u] EXCEPT !.heard = FALSE] \in Calls
    BY DEF Calls
  <1> QED BY <1>1, NoCallIs DEF Quiet

\* The row a path and a name make.
LEMMA NamedIs == \A path \in Places, slug \in Places : Named(path, slug) \in Rows
  BY DEF Named, NoRow, Rows, Places

\* What the human does at the shell.
LEMMA CommandsKeep ==
  ASSUME SetupInv, CommandNext, UNCHANGED present
  PROVE  SetupInv'
  <1>0. call \in [Users -> Calls] /\ projects \in [Ids -> Rows] /\ "cli" \in Users
    BY DEF SetupInv, ServiceType, Users
  <1>1. ASSUME NEW op \in Ops, NEW p \in Ids \cup {0}, NEW want \in Rows, op # "setup", Commanded(op, p, want)
        PROVE  SetupInv'
    <2>1. Call("cli", op, p, want, Zero, Zero) /\ UNCHANGED <<Daemon, uiVars>>
      BY <1>1 DEF Commanded, Daemon
    <2>2. call' \in [Users -> Calls] /\ \A v \in Users : Quiet(v)
      BY <1>0, <1>1, <2>1, NoCallIs, CallIs
    <2> QED BY <2>1, <2>2, QuietKeeps DEF SetupInv, ClientType, uiVars
  <1>2. ASSUME NEW path \in Paths, ProjectAdd(path) PROVE SetupInv'
    BY <1>1, <1>2, NamedIs DEF ProjectAdd, Ops, Places
  <1>3. ASSUME NEW p \in Ids, NEW path \in Paths, ProjectSetRepo(p, path) \/ ProjectCreateRepo(p, path) PROVE SetupInv'
    BY <1>1, <1>3, NamedIs DEF ProjectSetRepo, ProjectCreateRepo, Ops, Places
  <1>4. ASSUME NEW p \in Ids, ProjectDelete(p) PROVE SetupInv'
    BY <1>1, <1>4, NoCallIs DEF ProjectDelete, Ops
  <1>5. ASSUME NEW p \in Ids, ProjectSetTarget(p, "other") PROVE SetupInv'
    <2>1. [projects[p] EXCEPT !.target = "other"] \in Rows
      BY <1>0 DEF Rows
    <2> QED BY <1>1, <1>5, <2>1 DEF ProjectSetTarget, Ops
  <1>6. ASSUME NEW p \in Ids, NEW archived \in BOOLEAN, ProjectArchive(p, archived) PROVE SetupInv'
    <2>1. [projects[p] EXCEPT !.archived = archived] \in Rows
      BY <1>0 DEF Rows
    <2> QED BY <1>1, <1>6, <2>1 DEF ProjectArchive, Ops
  <1>7. CASE CommandEnds
    <2>1. call' \in [Users -> Calls] /\ \A v \in Users : Quiet(v)
      BY <1>0, <1>7, CallDropped DEF CommandEnds
    <2> QED BY <1>7, <2>1, QuietKeeps DEF CommandEnds, Daemon, SetupInv, ClientType, uiVars
  <1> QED BY <1>2, <1>3, <1>4, <1>5, <1>6, <1>7 DEF CommandNext

\* The values the clients start from.
LEMMA FreshIs ==
  /\ FreshScreen \in [loaded : BOOLEAN, dirty : BOOLEAN, cfg : Cfgs]
  /\ NotLoading \in [on : BOOLEAN, cfg : Cfgs]
  /\ NoWizard \in [open : BOOLEAN, step : Nat, busy : BOOLEAN, info : Cfgs, cfg : Cfgs, project : Rows]
  /\ NoForm \in [p : Ids \cup {0}, row : Rows]
  BY NoCallIs DEF FreshScreen, NotLoading, NoWizard, NoForm

\* The settings screen and the prompt: copies that are shown, edited and sent.
LEMMA ScreenKeeps ==
  ASSUME SetupInv, UNCHANGED present,
         \/ EnterSettings \/ ReloadSettings \/ SettingsLoaded \/ SaveSettings \/ SettingsSaved
         \/ \E c \in Values : EditSetting(c)
         \/ OpenPrompt \/ PromptDone \/ LeavePrompt \/ LeaveForm \/ FormDone
         \/ \E path \in Repos : SubmitPrompt(path)
         \/ \E path \in Paths : NameProject(path)
         \/ \E p \in Ids : OpenForm(p)
  PROVE  SetupInv'
  <1>0. /\ call \in [Users -> Calls] /\ {"screen", "prompt", "form"} \subseteq Users
        /\ projects \in [Ids -> Rows] /\ cfg \in Cfgs /\ ClientType
    BY DEF SetupInv, ServiceType, Users
  <1>1. ASSUME UNCHANGED Daemon, ClientType', call' = call
        PROVE  SetupInv'
    BY <1>0, <1>1, CallDropped, QuietKeeps
  <1>2. ASSUME UNCHANGED Daemon, ClientType', NEW u \in {"screen", "prompt", "form"}, call' = [call EXCEPT ![u] = NoCall]
        PROVE  SetupInv'
    BY <1>0, <1>2, CallDropped, QuietKeeps
  <1>3. ASSUME UNCHANGED Daemon, ClientType', NEW u \in {"screen", "prompt", "form"}, NEW op \in Ops, NEW p \in Ids \cup {0},
               NEW want \in Rows, NEW c \in Cfgs, op # "setup", Call(u, op, p, want, c, Zero)
        PROVE  SetupInv'
    BY <1>0, <1>3, NoCallIs, CallIs, QuietKeeps
  <1>4. CASE EnterSettings \/ ReloadSettings
    <2>1. UNCHANGED <<Daemon, call, wizard, form>> /\ loading' = [on |-> TRUE, cfg |-> cfg]
      BY <1>4 DEF EnterSettings, ReloadSettings, LoadSettings
    <2>2. settings' = settings \/ settings' = [settings EXCEPT !.dirty = FALSE]
      BY <1>4 DEF EnterSettings, ReloadSettings
    <2> QED BY <1>0, <1>1, <2>1, <2>2 DEF ClientType
  <1>5. CASE SettingsLoaded
    <2>1. UNCHANGED <<Daemon, call, wizard, form>> /\ loading' = NotLoading
      BY <1>5 DEF SettingsLoaded
    <2>2. settings' = settings \/ settings' = [loaded |-> TRUE, dirty |-> FALSE, cfg |-> loading.cfg]
      BY <1>5 DEF SettingsLoaded
    <2>3. NotLoading \in [on : BOOLEAN, cfg : Cfgs]
      BY FreshIs
    <2>4. settings' \in [loaded : BOOLEAN, dirty : BOOLEAN, cfg : Cfgs]
      <3>1. settings \in [loaded : BOOLEAN, dirty : BOOLEAN, cfg : Cfgs] /\ loading.cfg \in Cfgs
        BY <1>0 DEF ClientType
      <3>2. [loaded |-> TRUE, dirty |-> FALSE, cfg |-> loading.cfg] \in [loaded : BOOLEAN, dirty : BOOLEAN, cfg : Cfgs]
        BY <3>1
      <3> QED BY <2>2, <3>1, <3>2
    <2> QED BY <1>0, <1>1, <2>1, <2>3, <2>4 DEF ClientType
  <1>6. CASE SaveSettings
    BY <1>0, <1>3, <1>6, NoCallIs DEF SaveSettings, ClientType, uiVars, Ops
  <1>7. CASE SettingsSaved
    <2>1. UNCHANGED <<Daemon, wizard, form, loading>> /\ call' = [call EXCEPT !["screen"] = NoCall]
      BY <1>7 DEF SettingsSaved
    <2>2. settings' = settings \/ settings' = [settings EXCEPT !.cfg = call["screen"].cfg, !.dirty = FALSE]
      BY <1>7 DEF SettingsSaved
    <2>3. call["screen"].cfg \in Cfgs
      BY <1>0 DEF Calls
    <2>4. ClientType'
      BY <1>0, <2>1, <2>2, <2>3 DEF ClientType
    <2> QED BY <1>2, <2>1, <2>4
  <1>8. ASSUME NEW c \in Values, EditSetting(c)
        PROVE  SetupInv'
    <2>1. UNCHANGED <<Daemon, call, loading, wizard, form>> /\ settings' = [settings EXCEPT !.cfg = c, !.dirty = TRUE]
      BY <1>8 DEF EditSetting
    <2>2. c \in Cfgs
      BY DEF Values, Cfgs
    <2> QED BY <1>0, <1>1, <2>1, <2>2 DEF ClientType
  <1>9. CASE OpenPrompt \/ LeavePrompt
    BY <1>0, <1>1, <1>9 DEF OpenPrompt, LeavePrompt, ClientType
  <1>10. CASE PromptDone
    BY <1>0, <1>2, <1>10 DEF PromptDone, ClientType
  <1>11. ASSUME NEW path \in Repos, SubmitPrompt(path)
         PROVE  SetupInv'
    BY <1>0, <1>3, <1>11, NamedIs, NoCallIs, SetupAssumption DEF SubmitPrompt, ClientType, Ops, Places
  <1>12. ASSUME NEW p \in Ids, OpenForm(p)
         PROVE  SetupInv'
    <2>1. [projects[p] EXCEPT !.notes = 1, !.target = "other"] \in Rows
      BY <1>0 DEF Rows
    <2> QED BY <1>0, <1>1, <1>12, <2>1 DEF OpenForm, ClientType
  <1>13. CASE LeaveForm
    <2>1. form.p \in Ids \cup {0} /\ form.row \in Rows
      BY <1>0 DEF ClientType
    <2>2. ClientType'
      BY <1>0, <1>13, NoCallIs DEF LeaveForm, ClientType, NoForm
    <2> QED BY <1>3, <1>13, <2>1, <2>2, NoCallIs DEF LeaveForm, Ops
  <1>14. ASSUME NEW path \in Paths, NameProject(path)
         PROVE  SetupInv'
    BY <1>0, <1>3, <1>14, NamedIs, NoCallIs DEF NameProject, ClientType, uiVars, Ops, Places
  <1>15. CASE FormDone
    BY <1>0, <1>2, <1>15 DEF FormDone, ClientType, uiVars
  <1> QED BY <1>4, <1>5, <1>6, <1>7, <1>8, <1>9, <1>10, <1>11, <1>12, <1>13, <1>14, <1>15

\* The setup wizard: a draft, and one call that writes it.
LEMMA WizardKeeps ==
  ASSUME SetupInv, UNCHANGED present,
         \/ \E c \in Values : WizardEdit(c)
         \/ StartWizard \/ WizardInfo \/ WizardStep \/ WizardSkips \/ WizardPreview
         \/ WizardApproves \/ WizardSaved \/ WizardLeft
         \/ \E path \in Repos : WizardPath(path)
  PROVE  SetupInv'
  <1> DEFINE Wizards == [open : BOOLEAN, step : Nat, busy : BOOLEAN, info : Cfgs, cfg : Cfgs, project : Rows]
  <1>0. /\ call \in [Users -> Calls] /\ "wizard" \in Users
        /\ wizard \in Wizards /\ cfg \in Cfgs /\ ClientType
        /\ call["wizard"].cfg \in Cfgs /\ call["wizard"].want \in Rows
    BY DEF SetupInv, ServiceType, ClientType, Users, Calls
  <1>1. ASSUME UNCHANGED <<Daemon, settings, form, loading>>, wizard' \in Wizards,
               \/ call' = call \/ call' = [call EXCEPT !["wizard"] = NoCall]
               \/ call' = [call EXCEPT !["wizard"].heard = FALSE]
        PROVE  SetupInv'
    <2>1. ClientType'
      BY <1>0, <1>1 DEF ClientType
    <2>2. call' \in [Users -> Calls] /\ \A v \in Users : Quiet(v)
      BY <1>0, <1>1, CallDropped
    <2> QED BY <1>1, <2>1, <2>2, QuietKeeps
  <1>2. ASSUME UNCHANGED <<Daemon, settings, form, loading>>, wizard' \in Wizards,
               NEW op \in Ops, NEW want \in Rows, NEW c \in Cfgs, NEW orig \in Cfgs,
               Call("wizard", op, 0, want, c, orig)
        PROVE  SetupInv'
    <2>1. ClientType'
      BY <1>0, <1>2 DEF ClientType
    <2>2. call' \in [Users -> Calls] /\ \A v \in Users : Quiet(v)
      BY <1>0, <1>2, CallIs
    <2> QED BY <1>2, <2>1, <2>2, QuietKeeps
  <1>3. ASSUME NEW c \in Values, WizardEdit(c)
        PROVE  SetupInv'
    <2>1. c \in Cfgs
      BY DEF Values, Cfgs
    <2> QED BY <1>0, <1>1, <1>3, <2>1 DEF WizardEdit, WizardOnly
  <1>4. CASE StartWizard
    <2>1. [NoWizard EXCEPT !.open = TRUE, !.busy = TRUE] \in Wizards
      BY FreshIs
    <2> QED BY <1>2, <1>4, <2>1, NoCallIs DEF StartWizard, Ops
  <1>5. CASE WizardInfo
    <2>1. [wizard EXCEPT !.busy = FALSE, !.info = call["wizard"].cfg, !.cfg = call["wizard"].cfg] \in Wizards
      BY <1>0
    <2> QED BY <1>1, <1>5, <2>1 DEF WizardInfo, WizardHears
  <1>6. CASE WizardStep
    <2>1. PICK s \in Nat : wizard' = [wizard EXCEPT !.step = s]
      <3>1. CASE \E s \in {0, 1, 3} : InWizard(s) /\ wizard' = [wizard EXCEPT !.step = s + 1]
        BY <3>1
      <3>2. CASE \E s \in {1, 2, 3} : InWizard(s) /\ wizard' = [wizard EXCEPT !.step = s - 1]
        BY <3>2
      <3>3. CASE wizard' = [wizard EXCEPT !.step = 3]
        BY <3>3
      <3> QED BY <1>6, <3>1, <3>2, <3>3 DEF WizardStep
    <2> QED BY <1>0, <1>1, <1>6, <2>1 DEF WizardStep, WizardOnly
  <1>7. CASE WizardSkips
    <2>1. [wizard EXCEPT !.step = 4, !.project = NoRow] \in Wizards
      BY <1>0, NoCallIs
    <2> QED BY <1>1, <1>7, <2>1 DEF WizardSkips, WizardOnly
  <1>8. CASE WizardPreview
    <2>1. [wizard EXCEPT !.busy = FALSE, !.step = 3, !.project = call["wizard"].want] \in Wizards
      BY <1>0
    <2>2. [wizard EXCEPT !.busy = FALSE] \in Wizards
      BY <1>0
    <2> QED BY <1>1, <1>8, <2>1, <2>2 DEF WizardPreview, WizardHears, WizardOnly
  <1>9. CASE WizardApproves
    <2>1. /\ [wizard EXCEPT !.busy = TRUE] \in Wizards
          /\ wizard.project \in Rows /\ wizard.cfg \in Cfgs /\ wizard.info \in Cfgs
      BY <1>0
    <2> QED BY <1>2, <1>9, <2>1 DEF WizardApproves, WizardOnly, Ops
  <1>10. CASE WizardSaved
    <2>1. [wizard EXCEPT !.busy = FALSE] \in Wizards /\ NoWizard \in Wizards
      BY <1>0, FreshIs
    <2>2. /\ UNCHANGED <<Daemon, settings, form>> /\ call' = [call EXCEPT !["wizard"] = NoCall]
          /\ wizard' \in Wizards
      BY <1>10, <2>1 DEF WizardSaved, WizardHears
    <2>3. CASE loading' = loading
      BY <1>1, <2>2, <2>3
    <2>4. CASE loading' = [on |-> TRUE, cfg |-> cfg]
      <3>1. ClientType'
        BY <1>0, <2>2, <2>4 DEF ClientType
      <3>2. call' \in [Users -> Calls] /\ \A v \in Users : Quiet(v)
        BY <1>0, <2>2, CallDropped
      <3> QED BY <2>2, <3>1, <3>2, QuietKeeps
    <2> QED BY <1>10, <2>3, <2>4 DEF WizardSaved
  <1>11. CASE WizardLeft
    <2>1. \/ call' = [call EXCEPT !["wizard"] = NoCall]
          \/ call' = [call EXCEPT !["wizard"].heard = FALSE]
      BY <1>11 DEF WizardLeft
    <2> QED BY <1>1, <1>11, <2>1, FreshIs DEF WizardLeft, WizardOnly
  <1>12. ASSUME NEW path \in Repos, WizardPath(path)
         PROVE  SetupInv'
    <2>1. [wizard EXCEPT !.busy = TRUE] \in Wizards
      BY <1>0
    <2>2. Named(path, path) \in Rows
      BY NamedIs, SetupAssumption DEF Places
    <2> QED BY <1>2, <1>12, <2>1, <2>2, NoCallIs DEF WizardPath, WizardOnly, Ops
  <1> QED BY <1>3, <1>4, <1>5, <1>6, <1>7, <1>8, <1>9, <1>10, <1>11, <1>12

\* The program that ends under its calls leaves them to the daemon.
LEMMA PanicKeeps ==
  ASSUME SetupInv, WizardPanics, UNCHANGED present
  PROVE  SetupInv'
  <1>1. UNCHANGED Daemon /\ ClientType'
    BY FreshIs DEF WizardPanics, ClientType
  <1>2. ASSUME NEW u \in Users
        PROVE  call'[u] \in Calls /\ call'[u] \in {call[u], NoCall, [call[u] EXCEPT !.heard = FALSE]}
    <2>1. [call[u] EXCEPT !.heard = FALSE] \in Calls
      BY DEF SetupInv, ServiceType, Calls
    <2>2. call'[u] \in {call[u], NoCall, [call[u] EXCEPT !.heard = FALSE]}
      BY DEF WizardPanics
    <2> QED BY <2>1, <2>2, NoCallIs DEF SetupInv, ServiceType
  <1>3. call' \in [Users -> Calls]
    BY <1>2 DEF WizardPanics
  <1> QED BY <1>1, <1>2, <1>3, QuietKeeps DEF Quiet

\* A new home satisfies the invariant.
LEMMA SetupInitKeeps == SetupInit => SetupInv
  <1> SUFFICES ASSUME SetupInit PROVE SetupInv
    OBVIOUS
  <1>1. ServiceType
    BY NoCallIs, CompaniesAssumption DEF SetupInit, ServiceType, Cfgs
  <1>2. ClientType
    BY FreshIs DEF SetupInit, ClientType
  <1>3. Agreed /\ \A u \in Users : Kept(u)
    BY DEF SetupInit, Agreed, Usable, NotInUse, Kept, NoCall
  <1> QED BY <1>1, <1>2, <1>3 DEF SetupInv

\* Every step of the two parts keeps it.
LEMMA SetupKept == SetupInv /\ [Next]_vars => SetupInv'
  <1> SUFFICES ASSUME SetupInv, [Next]_vars PROVE SetupInv'
    OBVIOUS
  <1>1. CASE SetupNext
    <2>0. UNCHANGED present /\ present \subseteq Users
      BY <1>1 DEF SetupNext, SetupInv, ServiceType
    <2>1. ASSUME NEW u \in present, DaemonNext(u) PROVE SetupInv'
      BY <2>0, <2>1, SettingsKeep, ProjectsKeep DEF DaemonNext
    <2>2. CASE ScreenNext
      BY <2>0, <2>2, ScreenKeeps, WizardKeeps, PanicKeeps DEF ScreenNext
    <2> QED BY <1>1, <2>0, <2>1, <2>2, CommandsKeep, RestartKeeps DEF SetupNext
  <1>2. CASE UNCHANGED setupVars
    <2>1. UNCHANGED Daemon /\ ClientType' /\ call' = call /\ UNCHANGED present
      BY <1>2 DEF setupVars, settingsVars, uiVars, Daemon, SetupInv, ClientType
    <2> QED BY <2>1, QuietKeeps DEF SetupInv, ServiceType, Quiet
  <1> QED BY <1>1, <1>2 DEF Next, vars

\* It therefore always holds.
LEMMA SetupInductive == Spec => []SetupInv
  <1>1. Init => SetupInv
    BY SetupInitKeeps DEF Init
  <1> QED BY <1>1, SetupKept, PTL DEF Spec

\* In every home the file, the service and the scheduler agree on settings that are usable and what
\* waits for a restart is named; nothing changes the settings under a setup that is writing; and a
\* setup that says it failed has left no project.
THEOREM SetupWhole == Spec => []SettingsWhole
  <1>1. SetupInv => SettingsWhole
    <2> SUFFICES ASSUME SetupInv PROVE SettingsWhole
      OBVIOUS
    <2>1. ASSUME NEW u \in Users, call[u].op = "setup"
          PROVE  /\ call[u].at \in {"prepared", "saving", "undoing"} => cfg = call[u].orig
                 /\ call[u].at = "failed" => ~Exists(call[u].p)
      <3>1. Kept(u) /\ ~(0 \in Ids)
        BY SetupAssumption DEF SetupInv
      <3> QED BY <2>1, <3>1 DEF Kept, Writes, Exists
    <2> QED BY <2>1 DEF SetupInv, Agreed, SettingsWhole
  <1> QED BY <1>1, SetupInductive, PTL

\* A step of the daemon writes a repository into a row only where it read none, or where a writer
\* overtook another.
LEMMA RepositoryStands ==
  ASSUME SetupInv, NEW u \in Users, DaemonNext(u), NEW p \in Ids, Exists(p), projects[p].repo # "none", ~Overtaken(p)
  PROVE  projects'[p].repo = projects[p].repo
  <1>0. /\ projects \in [Ids -> Rows] /\ call \in [Users -> Calls] /\ Kept(u)
        /\ call[u] \in Calls /\ call[u].read \in Rows
    BY DEF SetupInv, ServiceType, Calls
  <1>1. ASSUME NEW r \in Rows, Written(u, r), call[u].at = "looked", r.repo = call[u].read.repo
        PROVE  projects'[p].repo = projects[p].repo
    <2>1. CASE call[u].p = p
      <3>1. call[u].read.repo = projects[p].repo
        BY <1>1, <2>1 DEF Overtaken
      <3> QED BY <1>0, <1>1, <2>1, <3>1 DEF Written, Rows
    <2>2. CASE call[u].p # p
      BY <1>0, <1>1, <2>2 DEF Written, Exists
    <2> QED BY <2>1, <2>2
  <1>2. ASSUME NEW at \in {"ok", "saving"}, CreateProject(u, at)
        PROVE  projects'[p].repo = projects[p].repo
    <2>1. CASE SlugTaken(call[u].want.slug)
      BY <1>2, <2>1 DEF CreateProject
    <2>2. CASE ~SlugTaken(call[u].want.slug)
      <3>1. PICK q \in Free : projects' = [projects EXCEPT ![q] = NewRow(call[u].want)]
        BY <1>2, <2>2 DEF CreateProject
      <3>2. q # p /\ q \in Ids
        BY DEF Free, Exists
      <3> QED BY <1>0, <3>1, <3>2
    <2> QED BY <2>1, <2>2
  <1>3. CASE UpdateSettings(u) \/ ApplySetup(u) \/ SaveSetup(u) \/ SetupInfo(u) \/ PreviewSetup(u) \/ CreateRepository(u)
    BY <1>3 DEF UpdateSettings, ApplySetup, SaveSetup, SetupInfo, PreviewSetup, CreateRepository, Fails
  <1>4. CASE SetupProject(u)
    BY <1>2, <1>4 DEF SetupProject
  <1>5. CASE UndoSetup(u)
    BY <1>0, <1>5 DEF UndoSetup, Exists, Rows
  <1>6. CASE AddProject(u)
    BY <1>2, <1>6 DEF AddProject, Fails, Looked
  <1>7. CASE AttachRepository(u)
    <2>1. CASE Doing(u, "attach", "called")
      BY <1>7, <2>1 DEF AttachRepository, Doing, Fails, Looked
    <2>2. CASE Doing(u, "attach", "looked")
      <3> DEFINE r == [call[u].read EXCEPT !.repo = call[u].want.repo,
                                           !.target = IF @ = "none" THEN "main" ELSE @]
      <3>1. Written(u, r)
        BY <1>7, <2>2 DEF AttachRepository, Doing
      <3>2. call[u].p # p
        BY <1>0, <2>2 DEF Doing, Kept, Overtaken
      <3> HIDE DEF r
      <3> QED BY <1>0, <3>1, <3>2 DEF Written, Exists
    <2> QED BY <1>7, <2>1, <2>2 DEF AttachRepository
  <1>8. CASE UpdateProject(u)
    <2>1. CASE Doing(u, "update", "called")
      BY <1>8, <2>1 DEF UpdateProject, Doing, Fails, Looked
    <2>2. CASE Doing(u, "update", "looked")
      <3> DEFINE r == [call[u].read EXCEPT !.target = call[u].want.target, !.notes = call[u].want.notes]
      <3>1. Written(u, r)
        BY <1>8, <2>2 DEF UpdateProject, Doing
      <3>2. r \in Rows /\ r.repo = call[u].read.repo
        BY <1>0 DEF Rows, Calls
      <3> HIDE DEF r
      <3> QED BY <1>1, <2>2, <3>1, <3>2 DEF Doing
    <2> QED BY <1>8, <2>1, <2>2 DEF UpdateProject
  <1>9. CASE ArchiveProject(u) \/ DeleteProject(u)
    BY <1>0, <1>9 DEF ArchiveProject, DeleteProject, Fails, Looked, Exists, Rows
  <1> QED BY <1>3, <1>4, <1>5, <1>6, <1>7, <1>8, <1>9 DEF DaemonNext

\* A project that has a repository keeps it, whatever rows its clients send back, unless its row
\* changed between the daemon's own reading and writing of it.
THEOREM RepositoriesStand == Spec => RepositoryKept
  <1> DEFINE stands == \A p \in Ids : Exists(p) /\ projects[p].repo # "none" /\ ~Overtaken(p)
                                        => projects'[p].repo = projects[p].repo
  <1>1. SetupInv /\ [Next]_vars => [stands]_setupVars
    <2> SUFFICES ASSUME SetupInv, SetupNext PROVE stands
      BY DEF Next, vars
    <2>1. CASE \E u \in present : DaemonNext(u)
      BY <2>1, RepositoryStands DEF SetupInv, ServiceType
    <2>2. CASE CommandNext \/ ScreenNext \/ Restart
      <3>1. projects' = projects
        BY <2>2 DEF CommandNext, Commanded, ProjectAdd, ProjectSetRepo, ProjectCreateRepo, ProjectDelete,
                    ProjectSetTarget, ProjectArchive, CommandEnds, ScreenNext, Daemon, WizardOnly,
                    EnterSettings, ReloadSettings, SettingsLoaded, SaveSettings, SettingsSaved,
                    EditSetting, WizardEdit, StartWizard, WizardInfo, WizardStep, WizardSkips,
                    WizardPreview, WizardPanics, WizardApproves, WizardSaved, WizardLeft, OpenPrompt,
                    PromptDone, LeavePrompt, LeaveForm, FormDone, WizardPath, SubmitPrompt,
                    NameProject, OpenForm, Restart
      <3> QED BY <3>1
    <2> QED BY <2>1, <2>2 DEF SetupNext
  <1> QED BY <1>1, SetupInductive, PTL DEF Spec, RepositoryKept
===============================================================================
