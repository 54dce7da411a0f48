------------------------- MODULE RunSupervisorProofs -------------------------
(***************************************************************************)
(* Theorems about RunSupervisor, for every set of runs, approvals, callers *)
(* and channels, and every bound.                                          *)
(*                                                                         *)
(* First what the transactions of RunTables do, induction, and what a      *)
(* selection from a list has.  Then the approvals, which need little of    *)
(* the types: that the records have their fields, that a run that is       *)
(* written is a run, and what the tables are.  Last everything: the types, *)
(* the maps and buffers of State, whose run a channel and a task are       *)
(* about, and where every event is; and what holds at a restart.           *)
(***************************************************************************)
EXTENDS SupervisorInvariants, FiniteSetTheorems, TLAPS

-----------------------------------------------------------------------------
(* The transactions of RunTables.                                          *)

(* Voiding the open approvals of a run leaves a table of approvals.        *)
LEMMA VoidPendingType ==
    ASSUME NEW r \in Runs, approval \in [Approvals -> ApprovalRow]
    PROVE  VoidPending(r) \in [Approvals -> ApprovalRow]
  BY DEF VoidPending, ApprovalRow

(* The three transactions on approvals and the two on runs write rows of   *)
(* their tables.                                                           *)
LEMMA TablesType ==
    ASSUME TablesTypeOK,
           \/ \E r \in Runs : CreateRun(r)
           \/ \E r \in Runs, from \in RunStatus \cup {"absent"}, to \in RunStatus,
                 p \in Providers \cup {None} : TransitionRun(r, from, to, p)
           \/ \E a \in Approvals, r \in Runs, q \in Requests :
                 RecordPendingApproval(a, r, q)
           \/ \E a \in Approvals, d \in Decisions : BeginApprovalResponse(a, d)
           \/ \E a \in Approvals : ConfirmApprovalResponse(a)
    PROVE  TablesTypeOK'
  <1>1. ASSUME NEW r \in Runs, CreateRun(r) PROVE TablesTypeOK'
    BY <1>1 DEF CreateRun, TablesTypeOK, RunStatus, Unsettled
  <1>2. ASSUME NEW r \in Runs, NEW from \in RunStatus \cup {"absent"},
               NEW to \in RunStatus, NEW p \in Providers \cup {None},
               TransitionRun(r, from, to, p)
        PROVE  TablesTypeOK'
    BY <1>2, VoidPendingType DEF TransitionRun, TablesTypeOK
  <1>3. ASSUME NEW a \in Approvals, NEW r \in Runs, NEW q \in Requests,
               RecordPendingApproval(a, r, q)
        PROVE  TablesTypeOK'
    BY <1>3 DEF RecordPendingApproval, TablesTypeOK, ApprovalRow
  <1>4. ASSUME NEW a \in Approvals, NEW d \in Decisions, BeginApprovalResponse(a, d)
        PROVE  TablesTypeOK'
    BY <1>4 DEF BeginApprovalResponse, TablesTypeOK, ApprovalRow
  <1>5. ASSUME NEW a \in Approvals, ConfirmApprovalResponse(a)
        PROVE  TablesTypeOK'
    BY <1>5 DEF ConfirmApprovalResponse, TablesTypeOK, ApprovalRow
  <1> QED BY <1>1, <1>2, <1>3, <1>4, <1>5

(* What a transition writes: the run's status, and "voided" on the open    *)
(* approvals of that run if the new status is terminal.                    *)
LEMMA TransitionEffect ==
    ASSUME Tabled, NEW r \in Runs, NEW to \in RunStatus,
           NEW p \in Providers \cup {None},
           TransitionRun(r, runStatus[r], to, p)
    PROVE  /\ runStatus[r] \in Unsettled
           /\ \A q \in Runs : runStatus'[q] = IF q = r THEN to ELSE runStatus[q]
           /\ \A a \in Approvals :
                /\ approval'[a].run = approval[a].run
                /\ approval'[a].decision = approval[a].decision
                /\ approval'[a].status =
                     IF /\ to \in Terminal
                        /\ approval[a].run = r
                        /\ approval[a].status = "pending"
                     THEN "voided" ELSE approval[a].status
  <1>1. runStatus[r] \in Unsettled
    BY DEF TransitionRun, TransitionAllowed, CanTransitionTo, Unsettled
  <1>2. ASSUME NEW a \in Approvals
        PROVE  /\ approval'[a].run = approval[a].run
               /\ approval'[a].decision = approval[a].decision
               /\ approval'[a].status =
                    IF /\ to \in Terminal
                       /\ approval[a].run = r
                       /\ approval[a].status = "pending"
                    THEN "voided" ELSE approval[a].status
    <2>1. PICK requests : approval \in [Approvals -> RowsWith(requests)]
      BY DEF Tabled
    <2>2. approval[a] \in RowsWith(requests)
      BY <2>1
    <2> QED BY <2>2 DEF TransitionRun, VoidPending, IsTerminal, RowsWith
  <1>3. \A q \in Runs : runStatus'[q] = IF q = r THEN to ELSE runStatus[q]
    BY DEF TransitionRun, Tabled
  <1> QED BY <1>1, <1>2, <1>3

(* A transaction writes rows, whatever it is told about the provider's     *)
(* request.                                                                *)
LEMMA TransactionsKeepTables ==
    ASSUME Tabled, Transaction PROVE Tabled'
  <1> PICK requests : approval \in [Approvals -> RowsWith(requests)]
    BY DEF Tabled
  <1> USE DEF Tabled
  <1>1. ASSUME NEW r \in Runs, CreateRun(r) PROVE Tabled'
    BY <1>1 DEF CreateRun, RunStatus, Unsettled
  <1>2. ASSUME NEW r \in Runs, NEW to \in RunStatus, NEW p \in Providers \cup {None},
               TransitionRun(r, runStatus[r], to, p)
        PROVE  Tabled'
    <2>1. VoidPending(r) \in [Approvals -> RowsWith(requests)]
      BY DEF VoidPending, RowsWith
    <2> QED BY <1>2, <2>1 DEF TransitionRun
  <1>3. ASSUME NEW a \in Approvals, NEW r \in Runs, NEW q, RecordPendingApproval(a, r, q)
        PROVE  Tabled'
    <2>1. approval \in [Approvals -> RowsWith(requests \cup {q})]
      BY DEF RowsWith
    <2>2. approval' \in [Approvals -> RowsWith(requests \cup {q})]
      BY <1>3, <2>1 DEF RecordPendingApproval, RowsWith
    <2> QED BY <1>3, <2>2 DEF RecordPendingApproval
  <1>4. ASSUME NEW a \in Approvals, NEW d \in Decisions, BeginApprovalResponse(a, d)
        PROVE  Tabled'
    <2>1. [approval[a] EXCEPT !.status = "responding", !.decision = d] \in RowsWith(requests)
      BY DEF RowsWith
    <2>2. approval' = [approval EXCEPT ![a] =
                         [approval[a] EXCEPT !.status = "responding", !.decision = d]]
      BY <1>4 DEF BeginApprovalResponse
    <2>3. approval' \in [Approvals -> RowsWith(requests)]
      BY <2>1, <2>2
    <2> QED BY <1>4, <2>3 DEF BeginApprovalResponse
  <1>5. ASSUME NEW a \in Approvals, ConfirmApprovalResponse(a)
        PROVE  Tabled'
    BY <1>5 DEF ConfirmApprovalResponse, RowsWith
  <1> QED BY <1>1, <1>2, <1>3, <1>4, <1>5 DEF Transaction, Unconfirming

-----------------------------------------------------------------------------
(* Decisions.                                                              *)

(* A decision that was written down stays.                                 *)
LEMMA DecisionsStay ==
    ASSUME Tabled, Transaction \/ UNCHANGED tableVars, NEW a \in Approvals, NEW d,
           Decided(a, d)
    PROVE  Decided(a, d)'
  <1> PICK requests : approval \in [Approvals -> RowsWith(requests)]
    BY DEF Tabled
  <1>0. approval[a] \in RowsWith(requests)
    OBVIOUS
  <1> USE DEF Decided
  <1>1. ASSUME NEW r \in Runs, NEW to \in RunStatus, NEW p \in Providers \cup {None},
               TransitionRun(r, runStatus[r], to, p)
        PROVE  Decided(a, d)'
    BY <1>1, TransitionEffect
  <1>2. ASSUME NEW b \in Approvals, NEW r \in Runs, NEW q, RecordPendingApproval(b, r, q)
        PROVE  Decided(a, d)'
    BY <1>2 DEF RecordPendingApproval
  <1>3. ASSUME NEW b \in Approvals, NEW e \in Decisions, BeginApprovalResponse(b, e)
        PROVE  Decided(a, d)'
    BY <1>0, <1>3 DEF BeginApprovalResponse, RowsWith
  <1>4. ASSUME NEW b \in Approvals, ConfirmApprovalResponse(b)
        PROVE  Decided(a, d)'
    BY <1>0, <1>4 DEF ConfirmApprovalResponse, RowsWith
  <1>5. CASE UNCHANGED tableVars \/ \E r \in Runs : CreateRun(r)
    BY <1>5 DEF CreateRun, tableVars
  <1> QED BY <1>1, <1>2, <1>3, <1>4, <1>5 DEF Transaction, Unconfirming

(* The decision of an answer that begins is written down.                  *)
LEMMA BeginDecides ==
    ASSUME Tabled, NEW a \in Approvals, NEW d, BeginApprovalResponse(a, d)
    PROVE  /\ approval'[a].status = "responding"
           /\ approval'[a].decision = d
  <1> PICK requests : approval \in [Approvals -> RowsWith(requests)]
    BY DEF Tabled
  <1> QED BY DEF BeginApprovalResponse, RowsWith

(* A confirmation leaves the decision, and changes no other approval.      *)
LEMMA ConfirmResolves ==
    ASSUME Tabled, NEW a \in Approvals, ConfirmApprovalResponse(a)
    PROVE  /\ approval[a].status = "responding"
           /\ approval'[a].decision = approval[a].decision
           /\ \A b \in Approvals \ {a} : approval'[b] = approval[b]
  <1> PICK requests : approval \in [Approvals -> RowsWith(requests)]
    BY DEF Tabled
  <1> QED BY DEF ConfirmApprovalResponse, RowsWith

(* A call that is not a confirmation resolves nothing.                     *)
LEMMA OnlyConfirmationResolves ==
    ASSUME Tabled, Unconfirming \/ UNCHANGED tableVars, NEW a \in Approvals,
           approval'[a].status = "resolved"
    PROVE  approval[a].status = "resolved"
  <1> PICK requests : approval \in [Approvals -> RowsWith(requests)]
    BY DEF Tabled
  <1>1. approval[a] \in RowsWith(requests)
    OBVIOUS
  <1>2. ASSUME NEW r \in Runs, NEW to \in RunStatus, NEW p \in Providers \cup {None},
               TransitionRun(r, runStatus[r], to, p)
        PROVE  approval[a].status = "resolved"
    BY <1>2, TransitionEffect
  <1>3. CASE UNCHANGED tableVars \/ \E r \in Runs : CreateRun(r)
    BY <1>3 DEF CreateRun, tableVars
  <1>4. ASSUME NEW b \in Approvals, NEW r \in Runs, NEW q, RecordPendingApproval(b, r, q)
        PROVE  approval[a].status = "resolved"
    BY <1>4 DEF RecordPendingApproval
  <1>5. ASSUME NEW b \in Approvals, NEW d \in Decisions, BeginApprovalResponse(b, d)
        PROVE  approval[a].status = "resolved"
    BY <1>1, <1>5 DEF BeginApprovalResponse, RowsWith
  <1> QED BY <1>2, <1>3, <1>4, <1>5 DEF Unconfirming

(* Whatever a caller asks for, a transition that is made is one of them.   *)
LEMMA TransitionsAreTransactions ==
    ASSUME NEW r \in Runs, NEW from, NEW to, NEW p \in Providers \cup {None},
           TransitionRun(r, from, to, p)
    PROVE  Unconfirming
  <1>1. from = runStatus[r] /\ to \in RunStatus
    BY DEF TransitionRun, TransitionAllowed, CanTransitionTo, RunStatus, Unsettled, Terminal
  <1> QED BY <1>1 DEF Unconfirming

-----------------------------------------------------------------------------
(* The refinement of RunLifecycle.                                         *)

(* What AskOf says of a row, by its status.                                *)
LEMMA AskOfRow ==
    ASSUME NEW requests, NEW row \in RowsWith(requests)
    PROVE  /\ AskOf(row).run = row.run
           /\ AskOf(row).decision = row.decision
           /\ row.status = "absent" <=> AskOf(row).state = "absent"
           /\ row.status = "pending" <=> AskOf(row).state = "open"
           /\ row.status \in {"responding", "resolved"} <=> AskOf(row).state = "decided"
           /\ row.status = "voided" <=> AskOf(row).state = "void"
           /\ AskOf(row) = [state |-> AskOf(row).state, run |-> row.run,
                            decision |-> row.decision]
  BY DEF AskOf, RowsWith

(* A transaction on the run tables is a step of the lifecycle, or none.    *)
LEMMA TablesImplementLifecycle ==
    ASSUME Tabled, Transaction \/ UNCHANGED tableVars
    PROVE  [Lifecycle!Next]_(Lifecycle!lifecycleVars)
  <1> DEFINE Phase == [r \in Runs |-> PhaseOf(runStatus[r])]
             Ask == [a \in Approvals |-> AskOf(approval[a])]
  <1> PICK requests : approval \in [Approvals -> RowsWith(requests)]
    BY DEF Tabled
  <1> USE DEF Tabled
  <1>1. ASSUME NEW r \in Runs, CreateRun(r)
        PROVE  Lifecycle!Create(r)
    BY <1>1 DEF CreateRun, Lifecycle!Create, PhaseOf, IsTerminal, Terminal
  <1>2. ASSUME NEW r \in Runs, NEW to \in RunStatus, NEW p \in Providers \cup {None},
               TransitionRun(r, runStatus[r], to, p), to \in Terminal
        PROVE  Lifecycle!End(r, to)
    <2>1. Phase[r] = "active"
      BY <1>2, TransitionEffect DEF PhaseOf, IsTerminal, Unsettled, Terminal
    <2>2. Phase' = [Phase EXCEPT ![r] = to]
      <3>1. \A q \in Runs : runStatus'[q] = IF q = r THEN to ELSE runStatus[q]
        BY <1>2, TransitionEffect
      <3>2. PhaseOf(to) = to
        BY <1>2 DEF PhaseOf, IsTerminal
      <3>3. \A q \in Runs : Phase'[q] = IF q = r THEN to ELSE Phase[q]
        BY <3>1, <3>2
      <3> QED BY <3>3
    <2>3. Ask' = [a \in Approvals |->
                    IF Ask[a].state = "open" /\ Ask[a].run = r
                    THEN [Ask[a] EXCEPT !.state = "void"] ELSE Ask[a]]
      <3> SUFFICES ASSUME NEW a \in Approvals
                   PROVE  AskOf(approval'[a]) =
                            IF AskOf(approval[a]).state = "open" /\ AskOf(approval[a]).run = r
                            THEN [AskOf(approval[a]) EXCEPT !.state = "void"]
                            ELSE AskOf(approval[a])
        OBVIOUS
      <3>1. approval[a] \in RowsWith(requests) OBVIOUS
      <3>2. CASE approval[a].run = r /\ approval[a].status = "pending"
        <4>1. approval'[a] = [approval[a] EXCEPT !.status = "voided"]
          BY <1>2, <3>2 DEF TransitionRun, VoidPending, IsTerminal
        <4> QED BY <3>1, <3>2, <4>1 DEF AskOf, RowsWith
      <3>3. CASE ~(approval[a].run = r /\ approval[a].status = "pending")
        <4>1. approval'[a] = approval[a]
          BY <1>2, <3>3 DEF TransitionRun, VoidPending, IsTerminal
        <4> QED BY <3>1, <3>3, <4>1, AskOfRow
      <3> QED BY <3>2, <3>3
    <2> QED BY <2>1, <2>2, <2>3 DEF Lifecycle!End
  <1>3. ASSUME NEW r \in Runs, NEW to \in RunStatus, NEW p \in Providers \cup {None},
               TransitionRun(r, runStatus[r], to, p), to \notin Terminal
        PROVE  UNCHANGED Lifecycle!lifecycleVars
    <2>1. Phase' = Phase
      BY <1>3, TransitionEffect DEF PhaseOf, IsTerminal, Unsettled, Terminal, RunStatus
    <2>2. Ask' = Ask
      BY <1>3 DEF TransitionRun, IsTerminal
    <2> QED BY <2>1, <2>2 DEF Lifecycle!lifecycleVars
  <1>4. ASSUME NEW a \in Approvals, NEW r \in Runs, NEW q,
               RecordPendingApproval(a, r, q)
        PROVE  Lifecycle!Ask(a, r)
    <2>1. Phase[r] = "active"
      BY <1>4 DEF RecordPendingApproval, PhaseOf, IsTerminal, Terminal
    <2>2. Ask[a].state = "absent"
      BY <1>4 DEF RecordPendingApproval, AskOf
    <2>3. Ask' = [Ask EXCEPT ![a] = [state |-> "open", run |-> r, decision |-> None]]
      BY <1>4 DEF RecordPendingApproval, AskOf
    <2>4. Phase' = Phase
      BY <1>4 DEF RecordPendingApproval
    <2> QED BY <2>1, <2>2, <2>3, <2>4 DEF Lifecycle!Ask
  <1>5. ASSUME NEW a \in Approvals, NEW d \in Decisions, BeginApprovalResponse(a, d)
        PROVE  Lifecycle!Decide(a, d)
    <2>1. Ask[a].state = "open"
      BY <1>5 DEF BeginApprovalResponse, AskOf
    <2>2. /\ approval'[a].status = "responding"
          /\ approval'[a].decision = d
          /\ approval'[a].run = approval[a].run
      BY <1>5 DEF BeginApprovalResponse, RowsWith
    <2>3. AskOf(approval'[a]) =
            [state |-> "decided", run |-> AskOf(approval[a]).run, decision |-> d]
      BY <2>2 DEF AskOf
    <2>4. \A b \in Approvals \ {a} : approval'[b] = approval[b]
      BY <1>5 DEF BeginApprovalResponse
    <2>5. Ask' = [Ask EXCEPT ![a] =
                    [state |-> "decided", run |-> Ask[a].run, decision |-> d]]
      BY <2>3, <2>4
    <2>6. Phase' = Phase
      BY <1>5 DEF BeginApprovalResponse
    <2> QED BY <2>1, <2>5, <2>6 DEF Lifecycle!Decide
  <1>6. ASSUME NEW a \in Approvals, ConfirmApprovalResponse(a)
        PROVE  UNCHANGED Lifecycle!lifecycleVars
    <2>1. /\ approval[a].status = "responding"
          /\ approval'[a].status = "resolved"
          /\ approval'[a].decision = approval[a].decision
          /\ approval'[a].run = approval[a].run
      BY <1>6 DEF ConfirmApprovalResponse, RowsWith
    <2>2. AskOf(approval'[a]) = AskOf(approval[a])
      BY <2>1 DEF AskOf
    <2>3. \A b \in Approvals \ {a} : approval'[b] = approval[b]
      BY <1>6 DEF ConfirmApprovalResponse
    <2>4. Ask' = Ask
      BY <2>2, <2>3
    <2>5. Phase' = Phase
      BY <1>6 DEF ConfirmApprovalResponse
    <2> QED BY <2>4, <2>5 DEF Lifecycle!lifecycleVars
  <1>7. CASE UNCHANGED tableVars
    BY <1>7 DEF tableVars, Lifecycle!lifecycleVars
  <1> QED BY <1>1, <1>2, <1>3, <1>4, <1>5, <1>6, <1>7 DEF Lifecycle!Next, Transaction,
    Unconfirming

-----------------------------------------------------------------------------
(* Induction over the numbers, stated for sets instead of predicates.      *)

(* A set of numbers that is not empty has a least one.                     *)
LEMMA LeastNumber ==
    ASSUME NEW T \in SUBSET Nat, T # {}
    PROVE  \E x \in T : \A y \in T : x <= y
  <1>1. \E x \in T : \A y \in T : ~ (<<y, x>> \in OpToRel(<, Nat))
    BY NatLessThanWellFounded, WFMin, Zenon
  <1>2. ASSUME NEW x \in T, NEW y \in T, ~ (<<y, x>> \in OpToRel(<, Nat))
        PROVE  x <= y
    BY <1>2 DEF OpToRel
  <1> QED BY <1>1, <1>2

(* A set of numbers with zero, and with every successor, has them all.     *)
LEMMA EveryNumber ==
    ASSUME NEW T \in SUBSET Nat, 0 \in T, \A n \in T : n + 1 \in T
    PROVE  T = Nat
  <1>1. SUFFICES ASSUME Nat \ T # {} PROVE FALSE
    OBVIOUS
  <1>2. PICK x \in Nat \ T : \A y \in Nat \ T : x <= y
    <2>1. Nat \ T \in SUBSET Nat
      OBVIOUS
    <2> QED BY <1>1, <2>1, LeastNumber
  <1>3. x # 0 /\ x - 1 \in Nat /\ x - 1 \notin Nat \ T
    BY <1>2
  <1> QED BY <1>2, <1>3

-----------------------------------------------------------------------------
(* The recursive function in Among.                                        *)

(* The recursion has a solution up to every number.                        *)
LEMMA AmongSolved ==
    ASSUME NEW seq, NEW keep
    PROVE  \A m \in Nat : \E f : f = [n \in 0..m |-> AmongStep(seq, keep, f, n)]
  <1> DEFINE T == {m \in Nat : \E f : f = [n \in 0..m |-> AmongStep(seq, keep, f, n)]}
  <1>1. 0 \in T
    <2> DEFINE f == [n \in 0..0 |-> <<>>]
    <2>1. f = [n \in 0..0 |-> AmongStep(seq, keep, f, n)]
      BY DEF AmongStep
    <2> QED BY <2>1
  <1>2. ASSUME NEW m \in T PROVE m + 1 \in T
    <2>1. PICK f : f = [n \in 0..m |-> AmongStep(seq, keep, f, n)]
      OBVIOUS
    <2> DEFINE g == [n \in 0..(m + 1) |->
                        IF n = m + 1 THEN AmongStep(seq, keep, f, m + 1) ELSE f[n]]
    <2>2. ASSUME NEW n \in 0..(m + 1) PROVE g[n] = AmongStep(seq, keep, g, n)
      <3>1. CASE n = m + 1
        BY <3>1 DEF AmongStep
      <3>2. CASE n # m + 1
        <4>1. f[n] = AmongStep(seq, keep, f, n)
          BY <2>1, <3>2
        <4> QED BY <4>1, <3>2 DEF AmongStep
      <3> QED BY <3>1, <3>2
    <2>3. g = [n \in 0..(m + 1) |-> AmongStep(seq, keep, g, n)]
      BY <2>2, Zenon
    <2> HIDE DEF g
    <2>4. \E h : h = [n \in 0..(m + 1) |-> AmongStep(seq, keep, h, n)]
      BY <2>3
    <2>5. m + 1 \in Nat
      OBVIOUS
    <2> QED BY <2>4, <2>5
  <1>3. T = Nat
    <2>1. T \in SUBSET Nat
      OBVIOUS
    <2> HIDE DEF T
    <2> QED BY <1>1, <1>2, <2>1, EveryNumber
  <1> QED BY <1>3

(* The definition of Among, with the recursion as a solution.              *)
LEMMA AmongDefined ==
    ASSUME NEW seq, Len(seq) \in Nat, NEW keep
    PROVE  \E f : /\ f = [n \in 0..Len(seq) |-> AmongStep(seq, keep, f, n)]
                  /\ Among(seq, keep) = f[Len(seq)]
  <1> DEFINE f == CHOOSE f : f = [n \in 0..Len(seq) |-> AmongStep(seq, keep, f, n)]
  <1>1. f = [n \in 0..Len(seq) |-> AmongStep(seq, keep, f, n)]
    BY AmongSolved
  <1>2. Among(seq, keep) = f[Len(seq)]
    BY DEF Among, AmongStep
  <1> HIDE DEF f
  <1> QED BY <1>1, <1>2

-----------------------------------------------------------------------------
(* What Among selects.                                                     *)

(* A selection picks what is kept, in the order of the sequence.           *)
LEMMA AmongPicks ==
    ASSUME NEW S, NEW seq \in Seq(S), NEW keep
    PROVE  /\ Among(seq, keep) \in Seq(S)
           /\ Len(Among(seq, keep)) <= Len(seq)
           /\ \E at : Picks(seq, keep, Len(seq), Among(seq, keep), at)
  <1>1. PICK f : /\ f = [n \in 0..Len(seq) |-> AmongStep(seq, keep, f, n)]
                 /\ Among(seq, keep) = f[Len(seq)]
    BY AmongDefined
  <1>6. Len(seq) \in Nat /\ \A n \in 0..Len(seq) : f[n] = AmongStep(seq, keep, f, n)
    BY <1>1
  <1> DEFINE Good(m) == /\ f[m] \in Seq(S)
                        /\ Len(f[m]) <= m
                        /\ \E at : Picks(seq, keep, m, f[m], at)
             T == {m \in Nat : m <= Len(seq) => Good(m)}
  <1>2. 0 \in T
    <2>1. f[0] = <<>>
      BY <1>1 DEF AmongStep
    <2>2. Picks(seq, keep, 0, f[0], [i \in 1..0 |-> 0])
      BY <2>1 DEF Picks
    <2>3. Good(0)
      BY <2>1, <2>2
    <2> QED BY <2>3
  <1>3. ASSUME NEW m \in T PROVE m + 1 \in T
    <2> SUFFICES ASSUME m + 1 <= Len(seq) PROVE Good(m + 1)
      OBVIOUS
    <2>1. Good(m)
      OBVIOUS
    <2>2. PICK at : Picks(seq, keep, m, f[m], at)
      BY <2>1
    <2>3. f[m + 1] = AmongStep(seq, keep, f, m + 1) /\ (m + 1) - 1 = m /\ m + 1 # 0
      <3>1. m \in Nat /\ m + 1 \in 0..Len(seq)
        BY <1>6
      <3> QED BY <3>1, <1>6
    <2>4. CASE seq[m + 1] \in keep
      <3> DEFINE new == [i \in 1..(Len(f[m]) + 1) |-> IF i = Len(f[m]) + 1 THEN m + 1 ELSE at[i]]
      <3>1. f[m + 1] = Append(f[m], seq[m + 1]) /\ seq[m + 1] \in S
        BY <2>3, <2>4 DEF AmongStep
      <3>2. /\ f[m + 1] \in Seq(S) /\ Len(f[m + 1]) = Len(f[m]) + 1
            /\ f[m + 1][Len(f[m]) + 1] = seq[m + 1]
            /\ \A i \in 1..Len(f[m]) : f[m + 1][i] = f[m][i]
        BY <2>1, <3>1
      <3>3. Len(f[m]) \in Nat
        BY <2>1
      <3>4. Picks(seq, keep, m + 1, f[m + 1], new)
        <4>1. new \in [1..Len(f[m + 1]) -> 1..(m + 1)]
          BY <2>2, <3>2, <3>3 DEF Picks
        <4>2. \A i \in 1..Len(f[m + 1]) : f[m + 1][i] = seq[new[i]] /\ f[m + 1][i] \in keep
          <5> SUFFICES ASSUME NEW i \in 1..Len(f[m + 1])
                       PROVE  f[m + 1][i] = seq[new[i]] /\ f[m + 1][i] \in keep
            OBVIOUS
          <5>1. CASE i = Len(f[m]) + 1
            BY <5>1, <2>4, <3>2, <3>3
          <5>2. CASE i # Len(f[m]) + 1
            <6>1. i \in 1..Len(f[m]) /\ new[i] = at[i]
              BY <5>2, <3>2, <3>3
            <6> QED BY <6>1, <2>2, <3>2 DEF Picks
          <5> QED BY <5>1, <5>2
        <4>3. ASSUME NEW i \in 1..Len(f[m + 1]), NEW j \in 1..Len(f[m + 1]), i < j
              PROVE  new[i] < new[j]
          <5>1. i \in 1..Len(f[m]) /\ new[i] = at[i]
            BY <4>3, <3>2, <3>3
          <5>2. CASE j = Len(f[m]) + 1
            <6>1. at[i] \in 1..m
              BY <5>1, <2>2 DEF Picks
            <6>2. new[j] = m + 1
              BY <5>2, <3>2
            <6> QED BY <5>1, <6>1, <6>2
          <5>3. CASE j # Len(f[m]) + 1
            <6>1. j \in 1..Len(f[m]) /\ new[j] = at[j]
              BY <5>3, <3>2, <3>3
            <6> QED BY <5>1, <6>1, <4>3, <2>2 DEF Picks
          <5> QED BY <5>2, <5>3
        <4>4. ASSUME NEW k \in 1..(m + 1), seq[k] \in keep
              PROVE  \E i \in 1..Len(f[m + 1]) : new[i] = k
          <5>1. CASE k = m + 1
            <6>1. Len(f[m]) + 1 \in 1..Len(f[m + 1])
              BY <3>2, <3>3
            <6>2. new[Len(f[m]) + 1] = k
              BY <5>1, <3>2
            <6> QED BY <6>1, <6>2
          <5>2. CASE k # m + 1
            <6>1. PICK i \in 1..Len(f[m]) : at[i] = k
              BY <5>2, <4>4, <2>2 DEF Picks
            <6>2. i \in 1..Len(f[m + 1]) /\ new[i] = k
              BY <6>1, <3>2, <3>3
            <6> QED BY <6>2
          <5> QED BY <5>1, <5>2
        <4> QED BY <4>1, <4>2, <4>3, <4>4 DEF Picks
      <3> HIDE DEF new
      <3> QED BY <3>2, <3>4, <2>1
    <2>5. CASE seq[m + 1] \notin keep
      <3>1. f[m + 1] = f[m]
        BY <2>3, <2>5 DEF AmongStep
      <3>2. Picks(seq, keep, m + 1, f[m + 1], at)
        <4>1. at \in [1..Len(f[m]) -> 1..(m + 1)] /\ 1..m \subseteq 1..(m + 1)
          BY <2>2 DEF Picks
        <4>2. \A k \in 1..(m + 1) : seq[k] \in keep => k \in 1..m
          BY <2>5
        <4> QED BY <2>2, <3>1, <4>1, <4>2 DEF Picks
      <3> QED BY <3>1, <3>2, <2>1
    <2> QED BY <2>4, <2>5
  <1>4. T = Nat
    <2>1. T \in SUBSET Nat
      OBVIOUS
    <2> HIDE DEF T
    <2> QED BY <1>2, <1>3, <2>1, EveryNumber
  <1>5. Good(Len(seq))
    <2>1. Len(seq) \in T
      BY <1>4
    <2> QED BY <2>1
  <1> QED BY <1>1, <1>5

-----------------------------------------------------------------------------
(* The entries of a sequence.                                              *)

(* A selection has the entries that are kept, and repeats none that was    *)
(* not repeated before.                                                    *)
LEMMA AmongEntries ==
    ASSUME NEW S, NEW seq \in Seq(S), NEW keep
    PROVE  /\ Among(seq, keep) \in Seq(S)
           /\ Len(Among(seq, keep)) <= Len(seq)
           /\ Entries(Among(seq, keep)) = Entries(seq) \cap keep
           /\ NoRepeats(seq) => NoRepeats(Among(seq, keep))
  <1> DEFINE got == Among(seq, keep)
  <1>1. got \in Seq(S) /\ Len(got) <= Len(seq)
    BY AmongPicks
  <1>2. PICK at : Picks(seq, keep, Len(seq), got, at)
    BY AmongPicks
  <1>3. DOMAIN got = 1..Len(got) /\ DOMAIN seq = 1..Len(seq) /\ Len(got) \in Nat
    BY <1>1
  <1> HIDE DEF got
  <1>4. Entries(got) = Entries(seq) \cap keep
    <2>1. ASSUME NEW i \in 1..Len(got) PROVE got[i] \in Entries(seq) \cap keep
      <3>1. at[i] \in DOMAIN seq /\ got[i] = seq[at[i]] /\ got[i] \in keep
        BY <1>2, <1>3 DEF Picks
      <3> QED BY <3>1 DEF Entries
    <2>2. ASSUME NEW k \in 1..Len(seq), seq[k] \in keep PROVE seq[k] \in Entries(got)
      <3>1. PICK i \in 1..Len(got) : at[i] = k
        BY <1>2, <2>2 DEF Picks
      <3>2. got[i] = seq[k] /\ i \in DOMAIN got
        BY <1>2, <1>3, <3>1 DEF Picks
      <3> QED BY <3>2 DEF Entries
    <2> QED BY <1>3, <2>1, <2>2 DEF Entries
  <1>5. ASSUME NoRepeats(seq) PROVE NoRepeats(got)
    <2> SUFFICES ASSUME NEW i \in 1..Len(got), NEW j \in 1..Len(got), got[i] = got[j]
                 PROVE  i = j
      BY <1>3 DEF NoRepeats
    <2>1. at[i] = at[j]
      BY <1>2, <1>3, <1>5 DEF Picks, NoRepeats
    <2>2. ~ (i < j) /\ ~ (j < i)
      BY <1>2, <2>1 DEF Picks
    <2> QED BY <2>2
  <1> QED BY <1>1, <1>4, <1>5 DEF got

(* The same for the ends of a queue.                                       *)
LEMMA TailEntries ==
    ASSUME NEW S, NEW s \in Seq(S), s # <<>>
    PROVE  /\ Tail(s) \in Seq(S) /\ Len(Tail(s)) = Len(s) - 1
           /\ Head(s) \in S /\ Head(s) \in Entries(s)
           /\ Entries(Tail(s)) \subseteq Entries(s)
           /\ Entries(s) = Entries(Tail(s)) \cup {Head(s)}
           /\ NoRepeats(s) => NoRepeats(Tail(s)) /\ Head(s) \notin Entries(Tail(s))
  <1>1. /\ Tail(s) \in Seq(S) /\ Len(Tail(s)) = Len(s) - 1 /\ Len(s) \in Nat \ {0}
        /\ DOMAIN s = 1..Len(s) /\ DOMAIN Tail(s) = 1..(Len(s) - 1)
        /\ Head(s) = s[1] /\ s[1] \in S
        /\ \A i \in 1..(Len(s) - 1) : Tail(s)[i] = s[i + 1]
    OBVIOUS
  <1> DEFINE t == Tail(s)
             n == Len(s)
             h == Head(s)
  <1> HIDE DEF t, n, h
  <1>2. \A i \in 2..n : i - 1 \in 1..(n - 1) /\ t[i - 1] = s[i]
    BY <1>1 DEF t, n, h
  <1>3. Entries(t) \subseteq Entries(s)
    BY <1>1 DEF Entries, t, n, h
  <1>4. ASSUME NEW i \in 1..n PROVE s[i] \in Entries(t) \cup {h}
    <2>1. CASE i = 1
      BY <2>1, <1>1 DEF h
    <2>2. CASE i # 1
      <3>1. i \in 2..n /\ i - 1 \in DOMAIN t
        BY <2>2, <1>1 DEF t, n
      <3>2. t[i - 1] = s[i]
        BY <3>1, <1>2
      <3> QED BY <3>1, <3>2 DEF Entries
    <2> QED BY <2>1, <2>2
  <1>5. h \in Entries(s)
    BY <1>1 DEF Entries, t, n, h
  <1>6. NoRepeats(s) => NoRepeats(t) /\ h \notin Entries(t)
    BY <1>1 DEF Entries, NoRepeats, t, n, h
  <1>7. \A x \in Entries(s) : x \in Entries(t) \cup {h}
    BY <1>1, <1>4 DEF Entries, n
  <1> QED BY <1>1, <1>3, <1>5, <1>6, <1>7 DEF t, h

(* An entry at the end.                                                    *)
LEMMA AppendEntries ==
    ASSUME NEW S, NEW s \in Seq(S), NEW e \in S
    PROVE  /\ Append(s, e) \in Seq(S) /\ Len(Append(s, e)) = Len(s) + 1
           /\ Entries(Append(s, e)) = Entries(s) \cup {e}
           /\ NoRepeats(s) /\ e \notin Entries(s) => NoRepeats(Append(s, e))
  <1>1. /\ Append(s, e) \in Seq(S) /\ Len(Append(s, e)) = Len(s) + 1 /\ Len(s) \in Nat
        /\ DOMAIN s = 1..Len(s) /\ DOMAIN Append(s, e) = 1..(Len(s) + 1)
        /\ Append(s, e)[Len(s) + 1] = e
        /\ \A i \in 1..Len(s) : Append(s, e)[i] = s[i]
    OBVIOUS
  <1> DEFINE t == Append(s, e)
             n == Len(s)
  <1> HIDE DEF t, n
  <1>2. Entries(t) = Entries(s) \cup {e}
    BY <1>1 DEF Entries, t, n
  <1>3. NoRepeats(s) /\ e \notin Entries(s) => NoRepeats(t)
    BY <1>1 DEF Entries, NoRepeats, t, n
  <1> QED BY <1>1, <1>2, <1>3 DEF t

(* The empty sequence has none.                                            *)
LEMMA EmptyEntries == Entries(<<>>) = {} /\ NoRepeats(<<>>)
  BY DEF Entries, NoRepeats

(* A sequence of one.                                                      *)
LEMMA OneEntry ==
    ASSUME NEW e PROVE Entries(<<e>>) = {e} /\ NoRepeats(<<e>>)
  BY DEF Entries, NoRepeats

(* A sequence that repeats nothing has as many entries as places.          *)
LEMMA CountEntries ==
    ASSUME NEW S, NEW s \in Seq(S), NoRepeats(s)
    PROVE  IsFiniteSet(Entries(s)) /\ Cardinality(Entries(s)) = Len(s)
  <1>1. Len(s) \in Nat /\ DOMAIN s = 1..Len(s)
    OBVIOUS
  <1>2. IsFiniteSet(1..Len(s)) /\ Cardinality(1..Len(s)) = Len(s)
    BY <1>1, FS_Interval
  <1>3. ExistsBijection(1..Len(s), Entries(s))
    <2> DEFINE f == [i \in 1..Len(s) |-> s[i]]
    <2>0. f \in [1..Len(s) -> Entries(s)]
      BY <1>1 DEF Entries
    <2>1. f \in Injection(1..Len(s), Entries(s))
      <3>1. \A i, j \in 1..Len(s) : f[i] = f[j] => i = j
        BY <1>1 DEF NoRepeats
      <3> HIDE DEF f
      <3> QED BY <2>0, <3>1 DEF Injection, IsInjective
    <2>2. f \in Surjection(1..Len(s), Entries(s))
      <3>1. \A x \in Entries(s) : \E i \in 1..Len(s) : f[i] = x
        BY <1>1 DEF Entries
      <3> HIDE DEF f
      <3> QED BY <2>0, <3>1 DEF Surjection
    <2> QED BY <2>1, <2>2 DEF Bijection, ExistsBijection
  <1> QED BY <1>2, <1>3, FS_Bijection

-----------------------------------------------------------------------------
(* The state under the lock.                                               *)

(* The operations on State keep it, and but for prepare_route add none.    *)
LEMMA EmptyStateOK ==
    ASSUME NEW st PROVE NoNewAnswers(st, EmptyState)
  BY DEF EmptyState, NoNewAnswers, StateOK

(* So does the end of a handshake.                                         *)
LEMMA FinishOK ==
    ASSUME NEW st, StateOK(st)
    PROVE  NoNewAnswers(st, FinishHandshake(st))
  BY DEF FinishHandshake, NoNewAnswers, StateOK

(* Closing a run forgets answers and remembers none.                       *)
LEMMA CloseOK ==
    ASSUME NEW st, StateOK(st), NEW r
    PROVE  NoNewAnswers(st, CloseRun(st, r))
  BY DEF CloseRun, Only, NoNewAnswers, StateOK

(* So does undoing a reattachment.                                         *)
LEMMA RemoveOK ==
    ASSUME NEW st, StateOK(st), NEW r
    PROVE  NoNewAnswers(st, RemoveRouteState(st, r))
  BY DEF RemoveRouteState, Only, NoNewAnswers, StateOK

(* A start with an unknown outcome leaves the answers alone.               *)
LEMMA RetainOK ==
    ASSUME NEW st, StateOK(st), NEW r
    PROVE  NoNewAnswers(st, RetainUnknownHandshake(st, r))
  BY DEF RetainUnknownHandshake, FinishHandshake, NoNewAnswers, StateOK

(* So does an event without a route.                                       *)
LEMMA BufferOK ==
    ASSUME NEW st, StateOK(st), NEW e, NEW new \in BufferHandshakeEvent(st, e)
    PROVE  NoNewAnswers(st, new)
  BY DEF BufferHandshakeEvent, NoNewAnswers, StateOK

(* A route that is prepared brings the answers it was restored with.       *)
LEMMA PrepareOK ==
    ASSUME NEW st, StateOK(st), NEW r \in Runs, NEW c, NEW restored
    PROVE  /\ StateOK(PrepareRoute(st, r, c, restored))
           /\ \A a \in Approvals :
                 PrepareRoute(st, r, c, restored).responses[a] =
                    IF restored[a] \in Decisions THEN restored[a] ELSE st.responses[a]
  BY DEF PrepareRoute, StateOK

(* Undoing the plans of a restart brings no answer.                        *)
LEMMA PlansOK == StateOK(state) => NoNewAnswers(state, WithoutPlans)
  BY DEF WithoutPlans, Only, NoNewAnswers, StateOK

-----------------------------------------------------------------------------
(* The invariant about tasks, channels and the runs they are about.        *)

(* Channels: an event in a queue, and a new consumer.                      *)
LEMMA EnqueueOK ==
    ASSUME ConsumersOK, NEW c, NEW e, Enqueue(c, e)
    PROVE  ConsumersOK' /\ \A d \in Consumers : consumers'[d].pc = consumers[d].pc
  BY DEF ConsumersOK, Enqueue

(* A new consumer is about the run it was made for.                        *)
LEMMA NewConsumerOK ==
    ASSUME ConsumersOK, NEW c \in Consumers, NEW r \in Runs, NEW pc, NewConsumer(c, r, pc)
    PROVE  /\ ConsumersOK'
           /\ consumers'[c].pc = pc
           /\ \A d \in Consumers \ {c} : consumers'[d] = consumers[d]
  BY DEF ConsumersOK, NewConsumer, Finished

-----------------------------------------------------------------------------
(* Every step keeps it.                                                    *)
LEMMA RunsStep ==
    ASSUME Tabled, RunsInv, [Next]_vars PROVE RunsInv'
  <1> USE StateAssumption, NoneAssumption, SupervisorAssumption
  <1> USE DEF RunsInv, StateOK, NoNewAnswers, TasksOK, ConsumersOK, ReceiversHeld,
          Fields, Resting, Reattaching, Holding, Blank, Finished, At, Go, Done,
          Starter, ConsumerAt, ConsumerGo, Unused, SenderAlive, storeVars, backVars,
          pumpVars, bootVars, innerVars, providerVars
  <1>1. CASE StartStep
    <2>1. CASE RegisterStart
      BY <2>1 DEF RegisterStart
    <2>2. CASE CallStart
      BY <2>2 DEF CallStart
    <2>3. CASE StartAccepted
      BY <2>3 DEF StartAccepted
    <2>4. CASE StartUnknown
      BY <2>4, RetainOK DEF StartUnknown
    <2>5. CASE StartRejected
      BY <2>5, CloseOK, FinishOK DEF StartRejected
    <2>6. CASE MarkStart
      BY <2>6 DEF MarkStart
    <2>7. CASE BindStart
      BY <2>7 DEF BindStart
    <2>8. ASSUME NEW c \in Consumers, RouteStart(c) PROVE RunsInv'
      <3>1. Starter.run \in Runs /\ "starter" \in Tasks
        BY <2>8 DEF RouteStart, Tasks
      <3>2. StateOK(state')
        BY <2>8, <3>1, FinishOK DEF RouteStart
      <3>3. TasksOK'
        BY <2>8, <3>1 DEF RouteStart
      <3>4. ConsumersOK'
        BY <2>8, <3>1, NewConsumerOK DEF RouteStart
      <3>5. ReceiversHeld'
        BY <2>8, <3>1, NewConsumerOK DEF RouteStart
      <3>6. UNCHANGED page
        BY <2>8 DEF RouteStart
      <3> QED BY <3>2, <3>3, <3>4, <3>5, <3>6
    <2>9. ASSUME NEW c \in Consumers, AttachRoute(c) PROVE RunsInv'
      <3>1. Starter.run \in Runs /\ "starter" \in Tasks
        BY <2>9 DEF AttachRoute, Tasks
      <3>2. StateOK(state')
        BY <2>9, <3>1, PrepareOK DEF AttachRoute
      <3>3. TasksOK'
        BY <2>9, <3>1 DEF AttachRoute
      <3>4. ConsumersOK'
        BY <2>9, <3>1, NewConsumerOK DEF AttachRoute
      <3>5. ReceiversHeld'
        BY <2>9, <3>1, NewConsumerOK DEF AttachRoute
      <3>6. UNCHANGED page
        BY <2>9 DEF AttachRoute
      <3> QED BY <3>2, <3>3, <3>4, <3>5, <3>6
    <2>10. CASE Retain
      BY <2>10, FinishOK DEF Retain
    <2>11. CASE RetainMark
      BY <2>11 DEF RetainMark
    <2>12. CASE RetainPick
      BY <2>12 DEF RetainPick
    <2>13. CASE RetainSend
      BY <2>13, EnqueueOK DEF RetainSend
    <2> QED BY <1>1, <2>1, <2>2, <2>3, <2>4, <2>5, <2>6, <2>7, <2>8, <2>9, <2>10,
         <2>11, <2>12, <2>13 DEF StartStep
  <1>2. CASE PumpStep
    <2>1. CASE PumpDeliver
      <3>1. "pump" \in Tasks
        BY DEF Tasks
      <3>2. ConsumersOK' /\ \A d \in Consumers : consumers'[d].pc = consumers[d].pc
        BY <2>1, EnqueueOK DEF PumpDeliver
      <3>3. TasksOK' /\ \A u \in Tasks : task'[u].pc \in Reattaching => task'[u] = task[u]
        BY <2>1, <3>1 DEF PumpDeliver
      <3>4. UNCHANGED <<state, startup, page>>
        BY <2>1 DEF PumpDeliver
      <3> QED BY <3>2, <3>3, <3>4
    <2>2. CASE PumpBuffer
      BY <2>2, BufferOK DEF PumpBuffer
    <2>3. CASE Disconnect
      BY <2>3 DEF Disconnect
    <2>4. CASE PumpTake
      BY <2>4 DEF PumpTake
    <2>5. ASSUME NEW r \in Runs, MarkAffected(r) PROVE RunsInv'
      BY <2>5 DEF MarkAffected
    <2> QED BY <1>2, <2>1, <2>2, <2>3, <2>4, <2>5 DEF PumpStep
  <1>3. ASSUME NEW t \in Tasks, SharedStep(t) PROVE RunsInv'
    <2>1. CASE EnsureEventPump(t)
      <3>1. task[t].pc \in DOMAIN AfterPump /\ task[t].run \in Runs
        BY <2>1 DEF EnsureEventPump, AfterPump
      <3>2. AfterPump[task[t].pc] \in {"call", "send", "pick", "collect"}
        BY <3>1 DEF AfterPump
      <3>3. \A u \in Tasks : /\ DOMAIN task'[u] = Fields
                           /\ \/ task'[u] = task[u]
                              \/ task'[u].pc = "next"
                              \/ u = t /\ task'[u].pc = AfterPump[task[t].pc]
                                 /\ task'[u].run = task[t].run
        BY <2>1, <3>1 DEF EnsureEventPump
      <3>4. DOMAIN task' = Tasks /\ UNCHANGED <<state, consumers, startup, page>>
        BY <2>1 DEF EnsureEventPump
      <3>5. TasksOK'
        BY <3>1, <3>2, <3>3, <3>4
      <3>6. ReceiversHeld'
        BY <3>2, <3>3, <3>4
      <3>7. ConsumersOK'
        BY <3>4
      <3> QED BY <3>4, <3>5, <3>6, <3>7
    <2>2. CASE Send(t)
      BY <2>2, EnqueueOK DEF Send
    <2>3. CASE OverflowClose(t)
      BY <2>3, CloseOK DEF OverflowClose
    <2>4. CASE Mark(t)
      BY <2>4 DEF Mark
    <2>5. CASE MarkWrite(t)
      BY <2>5 DEF MarkWrite
    <2>6. CASE FlagUncertain(t)
      BY <2>6 DEF FlagUncertain
    <2> QED BY <1>3, <2>1, <2>2, <2>3, <2>4, <2>5, <2>6 DEF SharedStep
  <1>4. ASSUME NEW c \in Consumers, ConsumerStep(c) PROVE RunsInv'
    <2>1. CASE TakeEvent(c)
      <3>1. UNCHANGED <<state, task, startup, page>>
        BY <2>1 DEF TakeEvent
      <3>2. ConsumersOK'
        BY <2>1 DEF TakeEvent, AfterTake
      <3>3. \A d \in Consumers : consumers[d].pc = "prepared" => consumers'[d] = consumers[d]
        BY <2>1 DEF TakeEvent
      <3> QED BY <3>1, <3>2, <3>3
    <2>2. CASE AppendItem(c)
      BY <2>2 DEF AppendItem
    <2>3. CASE RecordApproval(c)
      BY <2>3 DEF RecordApproval
    <2>4. CASE RegisterApproval(c)
      BY <2>4 DEF RegisterApproval
    <2>5. CASE ApplyTerminal(c)
      BY <2>5 DEF ApplyTerminal
    <2>6. CASE ConsumerFails(c)
      BY <2>6 DEF ConsumerFails
    <2>7. CASE ChannelEnds(c)
      BY <2>7 DEF ChannelEnds
    <2>8. CASE ConsumerCloses(c)
      BY <2>8, CloseOK DEF ConsumerCloses
    <2> QED BY <1>4, <2>1, <2>2, <2>3, <2>4, <2>5, <2>6, <2>7, <2>8 DEF ConsumerStep
  <1>5. ASSUME NEW t \in Clients, ClientStep(t) PROVE RunsInv'
    <2> t \in Tasks
      BY DEF Tasks
    <2>1. CASE Reconnect(t)
      BY <2>1 DEF Reconnect
    <2>2. CASE CheckAttached(t)
      BY <2>2 DEF CheckAttached
    <2>3. CASE LoadForReattach(t)
      BY <2>3 DEF LoadForReattach
    <2>4. ASSUME NEW c \in Consumers, PrepareReattach(t, c) PROVE RunsInv'
      <3>1. task[t].run \in Runs
        BY <2>4 DEF PrepareReattach
      <3>2. StateOK(state')
        BY <2>4, <3>1, PrepareOK DEF PrepareReattach
      <3>3. TasksOK'
        BY <2>4, <3>1 DEF PrepareReattach
      <3>4. ConsumersOK'
        BY <2>4, <3>1, NewConsumerOK DEF PrepareReattach
      <3>5. ReceiversHeld'
        BY <2>4, <3>1, NewConsumerOK DEF PrepareReattach
      <3>6. UNCHANGED page
        BY <2>4 DEF PrepareReattach
      <3> QED BY <3>2, <3>3, <3>4, <3>5, <3>6
    <2>5. CASE Promote(t)
      BY <2>5 DEF Promote
    <2>6. CASE Unroute(t)
      BY <2>6, RemoveOK DEF Unroute
    <2>7. CASE ActivateReattach(t)
      BY <2>7 DEF ActivateReattach
    <2>8. CASE CollectUncertain(t)
      BY <2>8 DEF CollectUncertain
    <2>9. CASE CommandReturns(t)
      BY <2>9 DEF CommandReturns
    <2>10. CASE OutcomeUnknown(t)
      BY <2>10 DEF OutcomeUnknown
    <2>11. CASE BeginResponse(t)
      BY <2>11 DEF BeginResponse
    <2>12. CASE RememberResponse(t)
      BY <2>12 DEF RememberResponse
    <2>13. CASE Respond(t)
      BY <2>13 DEF Respond
    <2>14. CASE ConfirmResponse(t)
      BY <2>14 DEF ConfirmResponse
    <2>15. CASE ForgetApproval(t)
      BY <2>15 DEF ForgetApproval
    <2> QED BY <1>5, <2>1, <2>2, <2>3, <2>4, <2>5, <2>6, <2>7, <2>8, <2>9, <2>10,
         <2>11, <2>12, <2>13, <2>14, <2>15 DEF ClientStep
  <1>6. CASE StartupStep
    <2>1. ASSUME NEW r \in Runs, StartupDowngrade(r) PROVE RunsInv'
      BY <2>1, PlansOK DEF StartupDowngrade, DropReceivers
    <2>2. ASSUME NEW r \in Runs, NEW c \in Consumers, StartupPrepare(r, c) PROVE RunsInv'
      BY <2>2, PrepareOK, NewConsumerOK DEF StartupPrepare
    <2>3. CASE StartupFails
      BY <2>3, PlansOK DEF StartupFails, DropReceivers
    <2>4. ASSUME NEW c \in Consumers, StartupActivate(c) PROVE RunsInv'
      BY <2>4 DEF StartupActivate, Prepared
    <2>5. CASE StartupDone
      BY <2>5 DEF StartupDone, Prepared
    <2> QED BY <1>6, <2>1, <2>2, <2>3, <2>4, <2>5 DEF StartupStep
  <1>7. CASE Environment
    <2>1. ASSUME NEW r \in Runs, StartRun(r) PROVE RunsInv'
      BY <2>1 DEF StartRun
    <2>2. ASSUME NEW t \in Clients, NEW r \in Runs, ReconcileRun(t, r) PROVE RunsInv'
      BY <2>2 DEF ReconcileRun, Tasks
    <2>3. ASSUME NEW t \in Clients, NEW r \in Runs, Command(t, r) PROVE RunsInv'
      BY <2>3 DEF Command, ActiveRun, Tasks
    <2>4. ASSUME NEW t \in Clients, NEW a \in Approvals, NEW d \in Decisions, ResolveApproval(t, a, d)
          PROVE  RunsInv'
      BY <2>4 DEF ResolveApproval, ActiveRun, Tasks
    <2>5. ASSUME NEW r \in Runs, Accept(r) PROVE RunsInv'
      BY <2>5 DEF Accept
    <2>6. ASSUME NEW r \in Runs, NEW kind \in EmitKinds, Emit(r, kind) PROVE RunsInv'
      BY <2>6 DEF Emit
    <2>7. CASE PumpFail
      BY <2>7, EmptyStateOK DEF PumpFail
    <2>8. CASE Crash
      BY <2>8, EmptyStateOK DEF Crash
    <2> QED BY <1>7, <2>1, <2>2, <2>3, <2>4, <2>5, <2>6, <2>7, <2>8 DEF Environment
  <1>8. CASE UNCHANGED vars
    BY <1>8 DEF vars
  <1> QED BY ONLY [Next]_vars, <1>1, <1>2, <1>3, <1>4, <1>5, <1>6, <1>7, <1>8 DEF Next

-----------------------------------------------------------------------------
(* The tables.                                                             *)

(* However a transition ends, it writes its run or nothing.                *)
LEMMA TriesWrite ==
    ASSUME NEW r \in Runs, NEW from, NEW to, NEW p \in Runs \cup {None},
           IsTerminal(to) => EndedBy(r, to),
           TryTransition(r, from, to, p) \/ TransitionFails(r, from, to, p)
              \/ TransitionRun(r, from, to, p)
    PROVE  Writes
  <1>1. CASE TransitionRun(r, from, to, p)
    <2>1. from = runStatus[r] /\ to \in RunStatus
      BY <1>1 DEF TransitionRun, TransitionAllowed, CanTransitionTo, RunStatus,
          Unsettled, Terminal
    <2> QED BY <1>1, <2>1, StateAssumption DEF Writes
  <1> QED BY <1>1 DEF TryTransition, TransitionFails, Writes

(* What a step writes is a transaction about runs and approvals there are. *)
LEMMA TablesStep ==
    ASSUME RunsInv, AnswersInv, [Next]_vars
    PROVE  Writes
  <1>0. /\ UNCHANGED tableVars => Writes
        /\ \A s : IsTerminal(s) <=> s \in {"completed", "failed", "interrupted"}
    BY DEF Writes, IsTerminal, Terminal
  <1> USE <1>0
  <1> USE DEF RunsInv, TasksOK, ConsumersOK, Resting, At, Starter, ConsumerAt,
          storeVars
  <1>1. CASE StartStep
    <2>1. CASE RegisterStart
      BY <2>1 DEF RegisterStart
    <2>2. CASE CallStart
      BY <2>2 DEF CallStart
    <2>3. CASE StartAccepted
      BY <2>3 DEF StartAccepted
    <2>4. CASE StartUnknown
      BY <2>4 DEF StartUnknown
    <2>5. CASE StartRejected
      BY <2>5 DEF StartRejected
    <2>6. CASE MarkStart
      <3>1. "starter" \in Tasks
        BY DEF Tasks
      <3>2. At("starter", "markFailed") => EndedBy(Starter.run, "failed")
        BY DEF EndedBy
      <3> QED BY <2>6, <3>1, <3>2, TriesWrite DEF MarkStart
    <2>7. CASE BindStart
      <3>1. "starter" \in Tasks
        BY DEF Tasks
      <3> QED BY <2>7, <3>1, TriesWrite DEF BindStart
    <2>8. ASSUME NEW c \in Consumers, RouteStart(c) PROVE Writes
      BY <2>8 DEF RouteStart
    <2>9. ASSUME NEW c \in Consumers, AttachRoute(c) PROVE Writes
      BY <2>9 DEF AttachRoute, ReadFails
    <2>10. CASE Retain
      BY <2>10 DEF Retain
    <2>11. CASE RetainMark
      <3>1. "starter" \in Tasks
        BY DEF Tasks
      <3> QED BY <2>11, <3>1, TriesWrite DEF RetainMark
    <2>12. CASE RetainPick
      BY <2>12 DEF RetainPick
    <2>13. CASE RetainSend
      BY <2>13 DEF RetainSend
    <2> QED BY <1>1, <2>1, <2>2, <2>3, <2>4, <2>5, <2>6, <2>7, <2>8, <2>9, <2>10,
         <2>11, <2>12, <2>13 DEF StartStep
  <1>2. CASE PumpStep
    <2>1. CASE PumpDeliver
      BY <2>1 DEF PumpDeliver
    <2>2. CASE PumpBuffer
      BY <2>2 DEF PumpBuffer
    <2>3. CASE Disconnect
      <3>1. "pump" \in Tasks
        BY DEF Tasks
      <3> QED BY <2>3, <3>1, TriesWrite DEF Disconnect, ReadFails
    <2>4. CASE PumpTake
      BY <2>4 DEF PumpTake
    <2>5. ASSUME NEW r \in Runs, MarkAffected(r) PROVE Writes
      BY <2>5 DEF MarkAffected
    <2> QED BY <1>2, <2>1, <2>2, <2>3, <2>4, <2>5 DEF PumpStep
  <1>3. ASSUME NEW t \in Tasks, SharedStep(t) PROVE Writes
    <2>1. CASE EnsureEventPump(t)
      BY <2>1 DEF EnsureEventPump
    <2>2. CASE Send(t)
      BY <2>2 DEF Send
    <2>3. CASE OverflowClose(t)
      BY <2>3 DEF OverflowClose
    <2>4. CASE Mark(t)
      BY <2>4 DEF Mark, ReadFails
    <2>5. CASE MarkWrite(t)
      BY <2>5, TriesWrite DEF MarkWrite, Downgraded
    <2>6. CASE FlagUncertain(t)
      BY <2>6 DEF FlagUncertain
    <2> QED BY <1>3, <2>1, <2>2, <2>3, <2>4, <2>5, <2>6 DEF SharedStep
  <1>4. ASSUME NEW c \in Consumers, ConsumerStep(c) PROVE Writes
    <2>1. CASE TakeEvent(c)
      BY <2>1 DEF TakeEvent, ReadFails
    <2>2. CASE AppendItem(c)
      BY <2>2 DEF AppendItem
    <2>3. CASE RecordApproval(c)
      BY <2>3 DEF Writes
    <2>4. CASE RegisterApproval(c)
      BY <2>4 DEF RegisterApproval
    <2>5. CASE ApplyTerminal(c)
      <3>1. EndedBy(consumers[c].run, KindOf(consumers[c].event))
        BY <2>5 DEF ApplyTerminal, EndedBy
      <3> QED BY <2>5, <3>1, TriesWrite DEF ApplyTerminal
    <2>6. CASE ConsumerFails(c)
      BY <2>6, TriesWrite DEF ConsumerFails, ReadFails
    <2>7. CASE ChannelEnds(c)
      BY <2>7 DEF ChannelEnds
    <2>8. CASE ConsumerCloses(c)
      BY <2>8 DEF ConsumerCloses
    <2> QED BY <1>4, <2>1, <2>2, <2>3, <2>4, <2>5, <2>6, <2>7, <2>8 DEF ConsumerStep
  <1>5. ASSUME NEW t \in Clients, ClientStep(t) PROVE Writes
    <2> t \in Tasks
      BY DEF Tasks
    <2>1. CASE Reconnect(t)
      BY <2>1 DEF Reconnect
    <2>2. CASE CheckAttached(t)
      BY <2>2 DEF CheckAttached
    <2>3. CASE LoadForReattach(t)
      BY <2>3, TriesWrite DEF LoadForReattach, Downgraded
    <2>4. ASSUME NEW c \in Consumers, PrepareReattach(t, c) PROVE Writes
      BY <2>4 DEF PrepareReattach
    <2>5. CASE Promote(t)
      BY <2>5, TriesWrite DEF Promote, Downgraded
    <2>6. CASE Unroute(t)
      BY <2>6 DEF Unroute
    <2>7. CASE ActivateReattach(t)
      BY <2>7 DEF ActivateReattach
    <2>8. CASE CollectUncertain(t)
      BY <2>8 DEF CollectUncertain
    <2>9. CASE CommandReturns(t)
      BY <2>9 DEF CommandReturns
    <2>10. CASE OutcomeUnknown(t)
      BY <2>10, TriesWrite DEF OutcomeUnknown, ReadFails, Downgraded
    <2>11. CASE BeginResponse(t)
      BY <2>11 DEF BeginResponse, Writes, AnswersInv, Answering
    <2>12. CASE RememberResponse(t)
      BY <2>12 DEF RememberResponse
    <2>13. CASE Respond(t)
      BY <2>13 DEF Respond
    <2>14. CASE ConfirmResponse(t)
      BY <2>14 DEF Writes
    <2>15. CASE ForgetApproval(t)
      BY <2>15 DEF ForgetApproval
    <2> QED BY <1>5, <2>1, <2>2, <2>3, <2>4, <2>5, <2>6, <2>7, <2>8, <2>9, <2>10,
         <2>11, <2>12, <2>13, <2>14, <2>15 DEF ClientStep
  <1>6. CASE StartupStep
    <2>1. ASSUME NEW r \in Runs, StartupDowngrade(r) PROVE Writes
      BY <2>1, TriesWrite DEF StartupDowngrade, Downgraded
    <2>2. ASSUME NEW r \in Runs, NEW c \in Consumers, StartupPrepare(r, c) PROVE Writes
      BY <2>2, TriesWrite DEF StartupPrepare
    <2>3. CASE StartupFails
      <3>1. CASE UNCHANGED tableVars
        BY <3>1
      <3>2. ASSUME NEW r \in Runs, TransitionRun(r, "running", "disconnected", None)
            PROVE  Writes
        BY <3>2, TriesWrite
      <3> QED BY <2>3, <3>1, <3>2 DEF StartupFails
    <2>4. ASSUME NEW c \in Consumers, StartupActivate(c) PROVE Writes
      BY <2>4 DEF StartupActivate
    <2>5. CASE StartupDone
      BY <2>5 DEF StartupDone
    <2> QED BY <1>6, <2>1, <2>2, <2>3, <2>4, <2>5 DEF StartupStep
  <1>7. CASE Environment
    <2>1. ASSUME NEW r \in Runs, StartRun(r) PROVE Writes
      BY <2>1 DEF StartRun, Writes
    <2>2. ASSUME NEW t \in Clients, NEW r \in Runs, ReconcileRun(t, r) PROVE Writes
      BY <2>2 DEF ReconcileRun, Tasks
    <2>3. ASSUME NEW t \in Clients, NEW r \in Runs, Command(t, r) PROVE Writes
      BY <2>3 DEF Command, Tasks
    <2>4. ASSUME NEW t \in Clients, NEW a \in Approvals, NEW d \in Decisions, ResolveApproval(t, a, d)
          PROVE  Writes
      BY <2>4 DEF ResolveApproval, Tasks
    <2>5. ASSUME NEW r \in Runs, Accept(r) PROVE Writes
      BY <2>5 DEF Accept
    <2>6. ASSUME NEW r \in Runs, NEW kind \in EmitKinds, Emit(r, kind) PROVE Writes
      BY <2>6 DEF Emit
    <2>7. CASE PumpFail
      BY <2>7 DEF PumpFail
    <2>8. CASE Crash
      BY <2>8 DEF Crash
    <2> QED BY <1>7, <2>1, <2>2, <2>3, <2>4, <2>5, <2>6, <2>7, <2>8 DEF Environment
  <1>8. CASE UNCHANGED vars
    BY <1>8 DEF vars
  <1> QED BY [Next]_vars, <1>1, <1>2, <1>3, <1>4, <1>5, <1>6, <1>7, <1>8 DEF Next

(* A step that brings no decision that is not written down.                *)
LEMMA AnswersKept ==
    ASSUME AnswersInv, UNCHANGED answers,
           \A a \in Approvals : \A d : Decided(a, d) => Decided(a, d)',
           \A a \in Approvals :
              approval'[a].status = "resolved" => approval[a].status = "resolved",
           \A a \in Approvals :
              state'.responses[a] # None => Decided(a, state'.responses[a]),
           \A t \in Tasks, a \in Approvals :
              task'[t].restored[a] \in Decisions => Decided(a, task'[t].restored[a]),
           \A t \in Tasks : task'[t].pc \in Answering => task'[t] = task[t]
    PROVE  AnswersInv'
  <1> USE DEF AnswersInv, Decided
  <1>1. ProviderHearsTheRecordedDecision'
    BY DEF ProviderHearsTheRecordedDecision
  <1>2. ResolvedMeansDelivered'
    BY DEF ResolvedMeansDelivered
  <1>3. (\A t \in Tasks : task[t].pc \in Answering =>
           /\ task[t].approval \in Approvals
           /\ task[t].decision \in Decisions
           /\ task[t].pc \in Durable => Decided(task[t].approval, task[t].decision)
           /\ task[t].pc = "confirm" => task[t].decision \in answers[task[t].approval])'
    BY DEF Durable, Answering
  <1>4. (\A a \in Approvals :
           state.responses[a] # None => Decided(a, state.responses[a]))'
    OBVIOUS
  <1>5. (\A t \in Tasks, a \in Approvals :
           task[t].restored[a] \in Decisions => Decided(a, task[t].restored[a]))'
    OBVIOUS
  <1> QED BY <1>1, <1>2, <1>3, <1>4, <1>5

(* Every step keeps it that confirms nothing.                              *)
LEMMA AnswersStep ==
    ASSUME Tabled, RunsInv, AnswersInv, [Next]_vars,
           \A a \in Approvals : \A d : Decided(a, d) => Decided(a, d)',
           \A a \in Approvals :
              approval'[a].status = "resolved" => approval[a].status = "resolved"
    PROVE  AnswersInv'
  <1> USE NoneAssumption
  <1> USE DEF AnswersInv, StateOK, TasksOK, RunsInv, NoNewAnswers,
          ProviderHearsTheRecordedDecision, ResolvedMeansDelivered, Decided, Blank,
          Fields, Answering, Durable, At, Go, Done, Starter, storeVars, backVars,
          pumpVars, bootVars, innerVars, providerVars
  <1>1. CASE StartStep
    <2>1. CASE RegisterStart
      BY <2>1 DEF RegisterStart
    <2>2. CASE CallStart
      BY <2>2 DEF CallStart
    <2>3. CASE StartAccepted
      BY <2>3 DEF StartAccepted
    <2>4. CASE StartUnknown
      BY <2>4, RetainOK DEF StartUnknown
    <2>5. CASE StartRejected
      BY <2>5, CloseOK, FinishOK DEF StartRejected
    <2>6. CASE MarkStart
      BY <2>6 DEF MarkStart
    <2>7. CASE BindStart
      BY <2>7 DEF BindStart
    <2>8. ASSUME NEW c \in Consumers, RouteStart(c) PROVE AnswersInv'
      <3>1. "starter" \in Tasks
        BY DEF Tasks
      <3>2. \A t \in Tasks : task'[t].restored = task[t].restored
        BY <2>8, <3>1 DEF RouteStart
      <3>3. /\ UNCHANGED answers
            /\ \A t \in Tasks : task'[t].pc \in Answering => task'[t] = task[t]
        BY <2>8, <3>1 DEF RouteStart
      <3>4. \A a \in Approvals : state'.responses[a] \in {state.responses[a], None}
        BY <2>8, FinishOK DEF RouteStart
      <3>5. \A a \in Approvals :
               state'.responses[a] # None => Decided(a, state'.responses[a])
        BY <3>4
      <3>6. \A t \in Tasks, a \in Approvals :
               task'[t].restored[a] \in Decisions => Decided(a, task'[t].restored[a])
        BY <3>2
      <3> QED BY <3>3, <3>5, <3>6, AnswersKept
    <2>9. ASSUME NEW c \in Consumers, AttachRoute(c) PROVE AnswersInv'
      <3>1. Starter.run \in Runs /\ "starter" \in Tasks
        BY <2>9 DEF AttachRoute, Tasks, Resting
      <3>2. \A t \in Tasks : task'[t].restored = task[t].restored
        BY <2>9, <3>1 DEF AttachRoute
      <3>3. /\ UNCHANGED answers
            /\ \A t \in Tasks : task'[t].pc \in Answering => task'[t] = task[t]
        BY <2>9, <3>1 DEF AttachRoute
      <3>4. \A a \in Approvals : state'.responses[a] = state.responses[a]
        BY <2>9, <3>1, PrepareOK DEF AttachRoute, NoRequests
      <3>5. \A a \in Approvals :
               state'.responses[a] # None => Decided(a, state'.responses[a])
        BY <3>4
      <3>6. \A u \in Tasks, a \in Approvals :
               task'[u].restored[a] \in Decisions => Decided(a, task'[u].restored[a])
        BY <3>2 DEF NoRequests
      <3> QED BY <3>5, <3>6, <3>3, AnswersKept
    <2>10. CASE Retain
      <3>1. "starter" \in Tasks
        BY DEF Tasks
      <3>2. \A t \in Tasks : task'[t].restored = task[t].restored
        BY <2>10, <3>1 DEF Retain
      <3>3. /\ UNCHANGED answers
            /\ \A t \in Tasks : task'[t].pc \in Answering => task'[t] = task[t]
        BY <2>10, <3>1 DEF Retain
      <3>4. \A a \in Approvals : state'.responses[a] \in {state.responses[a], None}
        BY <2>10, FinishOK DEF Retain
      <3>5. \A a \in Approvals :
               state'.responses[a] # None => Decided(a, state'.responses[a])
        BY <3>4
      <3>6. \A t \in Tasks, a \in Approvals :
               task'[t].restored[a] \in Decisions => Decided(a, task'[t].restored[a])
        BY <3>2
      <3> QED BY <3>3, <3>5, <3>6, AnswersKept
    <2>11. CASE RetainMark
      <3>1. "starter" \in Tasks
        BY DEF Tasks
      <3>2. \A t \in Tasks : task'[t].restored = task[t].restored
        BY <2>11, <3>1 DEF RetainMark
      <3>3. /\ UNCHANGED answers
            /\ \A t \in Tasks : task'[t].pc \in Answering => task'[t] = task[t]
        BY <2>11, <3>1 DEF RetainMark
      <3>4. \A a \in Approvals : state'.responses[a] \in {state.responses[a], None}
        BY <2>11 DEF RetainMark
      <3>5. \A a \in Approvals :
               state'.responses[a] # None => Decided(a, state'.responses[a])
        BY <3>4
      <3>6. \A t \in Tasks, a \in Approvals :
               task'[t].restored[a] \in Decisions => Decided(a, task'[t].restored[a])
        BY <3>2
      <3> QED BY <3>3, <3>5, <3>6, AnswersKept
    <2>12. CASE RetainPick
      <3>1. "starter" \in Tasks
        BY DEF Tasks
      <3>2. \A t \in Tasks : task'[t].restored = task[t].restored
        BY <2>12, <3>1 DEF RetainPick
      <3>3. /\ UNCHANGED answers
            /\ \A t \in Tasks : task'[t].pc \in Answering => task'[t] = task[t]
        BY <2>12, <3>1 DEF RetainPick
      <3>4. \A a \in Approvals : state'.responses[a] \in {state.responses[a], None}
        BY <2>12 DEF RetainPick
      <3>5. \A a \in Approvals :
               state'.responses[a] # None => Decided(a, state'.responses[a])
        BY <3>4
      <3>6. \A t \in Tasks, a \in Approvals :
               task'[t].restored[a] \in Decisions => Decided(a, task'[t].restored[a])
        BY <3>2
      <3> QED BY <3>3, <3>5, <3>6, AnswersKept
    <2>13. CASE RetainSend
      BY <2>13 DEF RetainSend
    <2> QED BY <1>1, <2>1, <2>2, <2>3, <2>4, <2>5, <2>6, <2>7, <2>8, <2>9, <2>10,
         <2>11, <2>12, <2>13 DEF StartStep
  <1>2. CASE PumpStep
    <2>1. CASE PumpDeliver
      BY <2>1 DEF PumpDeliver
    <2>2. CASE PumpBuffer
      BY <2>2, BufferOK DEF PumpBuffer
    <2>3. CASE Disconnect
      BY <2>3 DEF Disconnect
    <2>4. CASE PumpTake
      BY <2>4 DEF PumpTake
    <2>5. ASSUME NEW r \in Runs, MarkAffected(r) PROVE AnswersInv'
      BY <2>5 DEF MarkAffected
    <2> QED BY <1>2, <2>1, <2>2, <2>3, <2>4, <2>5 DEF PumpStep
  <1>3. ASSUME NEW t \in Tasks, SharedStep(t) PROVE AnswersInv'
    <2>1. CASE EnsureEventPump(t)
      <3>1. AfterPump[task[t].pc] \notin Answering
        BY <2>1 DEF EnsureEventPump, AfterPump
      <3>2. \A u \in Tasks : task'[u].restored \in {task[u].restored, Blank.restored}
        BY <2>1 DEF EnsureEventPump
      <3>3. \A u \in Tasks : task'[u].pc \in Answering => task'[u] = task[u]
        BY <2>1, <3>1 DEF EnsureEventPump
      <3>4. UNCHANGED <<state, answers>>
        BY <2>1 DEF EnsureEventPump
      <3>5. \A u \in Tasks, a \in Approvals :
               task'[u].restored[a] \in Decisions => Decided(a, task'[u].restored[a])
        BY <3>2
      <3> QED BY <3>3, <3>4, <3>5, AnswersKept
    <2>2. CASE Send(t)
      BY <2>2 DEF Send
    <2>3. CASE OverflowClose(t)
      BY <2>3, CloseOK DEF OverflowClose
    <2>4. CASE Mark(t)
      BY <2>4 DEF Mark
    <2>5. CASE MarkWrite(t)
      BY <2>5 DEF MarkWrite
    <2>6. CASE FlagUncertain(t)
      BY <2>6 DEF FlagUncertain
    <2> QED BY <1>3, <2>1, <2>2, <2>3, <2>4, <2>5, <2>6 DEF SharedStep
  <1>4. ASSUME NEW c \in Consumers, ConsumerStep(c) PROVE AnswersInv'
    <2>1. CASE TakeEvent(c)
      <3>1. UNCHANGED <<state, task, answers>>
        BY <2>1 DEF TakeEvent
      <3> QED BY <3>1
    <2>2. CASE AppendItem(c)
      BY <2>2 DEF AppendItem
    <2>3. CASE RecordApproval(c)
      BY <2>3 DEF RecordApproval
    <2>4. CASE RegisterApproval(c)
      BY <2>4 DEF RegisterApproval
    <2>5. CASE ApplyTerminal(c)
      BY <2>5 DEF ApplyTerminal
    <2>6. CASE ConsumerFails(c)
      BY <2>6 DEF ConsumerFails
    <2>7. CASE ChannelEnds(c)
      BY <2>7 DEF ChannelEnds
    <2>8. CASE ConsumerCloses(c)
      BY <2>8, CloseOK DEF ConsumerCloses
    <2> QED BY <1>4, <2>1, <2>2, <2>3, <2>4, <2>5, <2>6, <2>7, <2>8 DEF ConsumerStep
  <1>5. ASSUME NEW t \in Clients, ClientStep(t) PROVE AnswersInv'
    <2> t \in Tasks
      BY DEF Tasks
    <2>1. CASE Reconnect(t)
      BY <2>1 DEF Reconnect
    <2>2. CASE CheckAttached(t)
      BY <2>2 DEF CheckAttached
    <2>3. CASE LoadForReattach(t)
      BY <2>3 DEF LoadForReattach, LoadRequests
    <2>4. ASSUME NEW c \in Consumers, PrepareReattach(t, c) PROVE AnswersInv'
      <3>1. task[t].run \in Runs
        BY <2>4 DEF PrepareReattach, Resting
      <3>2. \A u \in Tasks : task'[u].restored \in {task[u].restored, NoRequests}
        BY <2>4 DEF PrepareReattach
      <3>3. /\ UNCHANGED answers
            /\ \A u \in Tasks : task'[u].pc \in Answering => task'[u] = task[u]
        BY <2>4 DEF PrepareReattach
      <3>4. \A a \in Approvals : state'.responses[a] \in {state.responses[a], task[t].restored[a]}
                                  /\ (state'.responses[a] # state.responses[a] =>
                                        state'.responses[a] \in Decisions)
        BY <2>4, <3>1, PrepareOK DEF PrepareReattach
      <3>5. \A a \in Approvals :
               state'.responses[a] # None => Decided(a, state'.responses[a])
        BY <3>4
      <3>6. \A u \in Tasks, a \in Approvals :
               task'[u].restored[a] \in Decisions => Decided(a, task'[u].restored[a])
        BY <3>2 DEF NoRequests
      <3> QED BY <3>5, <3>6, <3>3, AnswersKept
    <2>5. CASE Promote(t)
      BY <2>5 DEF Promote
    <2>6. CASE Unroute(t)
      BY <2>6, RemoveOK DEF Unroute
    <2>7. CASE ActivateReattach(t)
      BY <2>7 DEF ActivateReattach
    <2>8. CASE CollectUncertain(t)
      BY <2>8 DEF CollectUncertain
    <2>9. CASE CommandReturns(t)
      BY <2>9 DEF CommandReturns
    <2>10. CASE OutcomeUnknown(t)
      BY <2>10 DEF OutcomeUnknown
    <2>11. CASE BeginResponse(t)
      <3>1. task[t].approval \in Approvals /\ task[t].decision \in Decisions
        BY <2>11 DEF BeginResponse
      <3>2. CASE BeginApprovalResponse(task[t].approval, task[t].decision) /\ Go(t, "remember")
        <4>1. Decided(task[t].approval, task[t].decision)'
          BY <3>1, <3>2, BeginDecides
        <4> QED BY <2>11, <3>2, <4>1 DEF BeginResponse
      <3>3. CASE Done(t)
        BY <2>11, <3>3 DEF BeginResponse
      <3> QED BY <2>11, <3>2, <3>3 DEF BeginResponse
    <2>12. CASE RememberResponse(t)
      BY <2>12 DEF RememberResponse
    <2>13. CASE Respond(t)
      BY <2>13 DEF Respond
    <2>14. CASE ConfirmResponse(t)
      BY <2>14 DEF ConfirmResponse
    <2>15. CASE ForgetApproval(t)
      BY <2>15 DEF ForgetApproval
    <2> QED BY <1>5, <2>1, <2>2, <2>3, <2>4, <2>5, <2>6, <2>7, <2>8, <2>9, <2>10,
         <2>11, <2>12, <2>13, <2>14, <2>15 DEF ClientStep
  <1>6. CASE StartupStep
    <2>1. ASSUME NEW r \in Runs, StartupDowngrade(r) PROVE AnswersInv'
      BY <2>1, PlansOK DEF StartupDowngrade
    <2>2. ASSUME NEW r \in Runs, NEW c \in Consumers, StartupPrepare(r, c)
          PROVE  AnswersInv'
      <3>1. UNCHANGED <<task, answers>>
        BY <2>2 DEF StartupPrepare
      <3>2. \A a \in Approvals : state'.responses[a] =
               IF LoadRequests(r)[a] \in Decisions THEN LoadRequests(r)[a]
               ELSE state.responses[a]
        BY <2>2, PrepareOK DEF StartupPrepare
      <3>3. \A a \in Approvals : LoadRequests(r)[a] \in Decisions =>
               Decided(a, LoadRequests(r)[a])
        BY StateAssumption DEF LoadRequests
      <3> QED BY <3>1, <3>2, <3>3
    <2>3. CASE StartupFails
      BY <2>3, PlansOK DEF StartupFails
    <2>4. ASSUME NEW c \in Consumers, StartupActivate(c) PROVE AnswersInv'
      BY <2>4 DEF StartupActivate
    <2>5. CASE StartupDone
      BY <2>5 DEF StartupDone
    <2> QED BY <1>6, <2>1, <2>2, <2>3, <2>4, <2>5 DEF StartupStep
  <1>7. CASE Environment
    <2>1. ASSUME NEW r \in Runs, StartRun(r) PROVE AnswersInv'
      BY <2>1 DEF StartRun
    <2>2. ASSUME NEW t \in Clients, NEW r \in Runs, ReconcileRun(t, r) PROVE AnswersInv'
      BY <2>2 DEF ReconcileRun, Tasks
    <2>3. ASSUME NEW t \in Clients, NEW r \in Runs, Command(t, r) PROVE AnswersInv'
      BY <2>3 DEF Command, Tasks
    <2>4. ASSUME NEW t \in Clients, NEW a \in Approvals, NEW d \in Decisions, ResolveApproval(t, a, d)
          PROVE  AnswersInv'
      BY <2>4 DEF ResolveApproval, Tasks
    <2>5. ASSUME NEW r \in Runs, Accept(r) PROVE AnswersInv'
      BY <2>5 DEF Accept
    <2>6. ASSUME NEW r \in Runs, NEW kind \in EmitKinds, Emit(r, kind) PROVE AnswersInv'
      BY <2>6 DEF Emit
    <2>7. CASE PumpFail
      BY <2>7, EmptyStateOK DEF PumpFail
    <2>8. CASE Crash
      <3>1. \A a \in Approvals : state'.responses[a] = None
        BY <2>8 DEF Crash, EmptyState
      <3>2. \A t \in Tasks : task'[t] = Blank
        BY <2>8 DEF Crash
      <3>3. UNCHANGED answers
        BY <2>8 DEF Crash
      <3> QED BY <3>1, <3>2, <3>3, AnswersKept
    <2> QED BY <1>7, <2>1, <2>2, <2>3, <2>4, <2>5, <2>6, <2>7, <2>8 DEF Environment
  <1>8. CASE UNCHANGED vars
    BY <1>8 DEF vars, tableVars
  <1> QED BY [Next]_vars, <1>1, <1>2, <1>3, <1>4, <1>5, <1>6, <1>7, <1>8 DEF Next

(* A confirmation comes from a task whose decision the provider has taken. *)
LEMMA ConfirmStep ==
    ASSUME Tabled, RunsInv, AnswersInv, NEW t \in Clients, ConfirmResponse(t),
           \A a \in Approvals : \A d : Decided(a, d) => Decided(a, d)'
    PROVE  AnswersInv'
  <1> DEFINE asked == task[t].approval
  <1>1. /\ t \in Tasks /\ asked \in Approvals
        /\ approval[asked].decision \in answers[asked]
    BY DEF ConfirmResponse, At, Tasks, AnswersInv, Answering, Durable, Decided
  <1>2. /\ UNCHANGED <<state, answers>>
        /\ \A u \in Tasks : task'[u].restored \in {task[u].restored, Blank.restored}
    BY <1>1 DEF ConfirmResponse, Go, Done, Blank, RunsInv, TasksOK, Fields, providerVars
  <1>3. \A u \in Tasks : task'[u].pc \in Answering => task'[u] = task[u]
    BY <1>1 DEF ConfirmResponse, Go, Done, Blank, RunsInv, TasksOK, Fields, Answering
  <1>4. \A a \in Approvals : approval'[a].status = "resolved" =>
           approval'[a].decision \in answers[a]
    <2>1. CASE ConfirmApprovalResponse(asked)
      BY <1>1, <2>1, ConfirmResolves DEF AnswersInv, ResolvedMeansDelivered
    <2>2. CASE UNCHANGED tableVars
      BY <2>2 DEF AnswersInv, ResolvedMeansDelivered, tableVars
    <2> QED BY <2>1, <2>2 DEF ConfirmResponse
  <1>5. ResolvedMeansDelivered'
    BY <1>2, <1>4 DEF ResolvedMeansDelivered
  <1>6. ProviderHearsTheRecordedDecision'
    BY <1>2 DEF AnswersInv, ProviderHearsTheRecordedDecision, Decided
  <1> HIDE DEF asked
  <1>7. (\A u \in Tasks : task[u].pc \in Answering =>
           /\ task[u].approval \in Approvals
           /\ task[u].decision \in Decisions
           /\ task[u].pc \in Durable => Decided(task[u].approval, task[u].decision)
           /\ task[u].pc = "confirm" => task[u].decision \in answers[task[u].approval])'
    BY <1>2, <1>3 DEF AnswersInv, Decided, Durable, Answering
  <1>8. (\A u \in Tasks, a \in Approvals :
           task[u].restored[a] \in Decisions => Decided(a, task[u].restored[a]))'
    BY <1>2, NoneAssumption DEF AnswersInv, Decided, Blank
  <1>9. (\A a \in Approvals :
           state.responses[a] # None => Decided(a, state.responses[a]))'
    BY <1>2 DEF AnswersInv, Decided
  <1> QED BY <1>2, <1>5, <1>6, <1>7, <1>8, <1>9 DEF AnswersInv

-----------------------------------------------------------------------------
(* The theorems.                                                           *)

(* What a step writes is one transaction, and every step keeps the         *)
(* invariant.                                                              *)
LEMMA SupervisorStep ==
    ASSUME SupervisorInv, [Next]_vars
    PROVE  SupervisorInv' /\ (Transaction \/ UNCHANGED tableVars)
  <1> USE DEF SupervisorInv
  <1>0. ASSUME NEW c \in Consumers, RecordApproval(c) PROVE Written
    BY <1>0 DEF RecordApproval, RunsInv, ConsumersOK, ConsumerAt, Written, Unconfirming
  <1>1. Written \/ \E t \in Clients : ConfirmResponse(t)
    BY <1>0, TablesStep DEF Writes, Written, Unconfirming
  <1>2. ASSUME NEW t \in Clients, ConfirmResponse(t)
        PROVE  Transaction \/ UNCHANGED tableVars
    <2>1. task[t].approval \in Approvals
      BY <1>2 DEF ConfirmResponse, At, Tasks, AnswersInv, Answering
    <2> QED BY <1>2, <2>1 DEF ConfirmResponse, Transaction
  <1>3. Transaction \/ UNCHANGED tableVars
    BY <1>1, <1>2 DEF Written, Transaction
  <1>4. Tabled'
    <2>1. CASE UNCHANGED tableVars
      BY <2>1 DEF Tabled, RowsWith, tableVars
    <2> QED BY <1>3, <2>1, TransactionsKeepTables
  <1>5. \A a \in Approvals : \A d : Decided(a, d) => Decided(a, d)'
    BY <1>3, DecisionsStay
  <1>6. AnswersInv'
    <2>1. CASE Written
      BY <1>5, <2>1, OnlyConfirmationResolves, AnswersStep DEF Written
    <2>2. CASE \E t \in Clients : ConfirmResponse(t)
      BY <1>5, <2>2, ConfirmStep
    <2> QED BY <1>1, <2>1, <2>2
  <1> QED BY <1>3, <1>4, <1>6, RunsStep

(* It holds initially.                                                     *)
LEMMA SupervisorInit == Init => SupervisorInv
  <1> SUFFICES ASSUME Init PROVE SupervisorInv
    OBVIOUS
  <1> USE DEF Init, TablesInit
  <1>1. Tabled
    <2>1. NoApproval \in RowsWith({None})
      BY DEF NoApproval, RowsWith
    <2> QED BY <2>1 DEF Tabled
  <1>2. StateOK(state) /\ \A a \in Approvals : state.responses[a] = None
    BY DEF EmptyState, StateOK
  <1>3. TasksOK /\ ConsumersOK /\ ReceiversHeld /\ page \subseteq Runs
    BY DEF TasksOK, ConsumersOK, ReceiversHeld, Blank, Finished, Fields, Resting,
        Holding
  <1>4. ProviderHearsTheRecordedDecision /\ ResolvedMeansDelivered
    BY DEF ProviderHearsTheRecordedDecision, ResolvedMeansDelivered, NoApproval
  <1>5. \A t \in Tasks : /\ task[t].pc = "idle"
                       /\ \A a \in Approvals : task[t].restored[a] = None
    BY DEF Blank
  <1> QED BY <1>1, <1>2, <1>3, <1>4, <1>5, NoneAssumption
          DEF SupervisorInv, RunsInv, AnswersInv, Answering

(* So it always holds.                                                     *)
LEMMA SupervisorInvariant == Spec => []SupervisorInv
  BY SupervisorInit, SupervisorStep, PTL DEF Spec

(* A provider is never told anything but the decision the database holds   *)
(* for the approval, so never both yes and no: whatever is answered twice, *)
(* retried after an unknown outcome, restored by a reattachment or a       *)
(* restart, or raced by the end of the run.                                *)
THEOREM DecisionsAreHeard == Spec => []ProviderHearsTheRecordedDecision
  <1>1. SupervisorInv => ProviderHearsTheRecordedDecision
    BY DEF SupervisorInv, AnswersInv
  <1> QED BY <1>1, SupervisorInvariant, PTL

(* An approval the database calls resolved was delivered: a caller         *)
(* confirms only what its own call of respond was told to be taken.        *)
THEOREM ResolvedIsDelivered == Spec => []ResolvedMeansDelivered
  <1>1. SupervisorInv => ResolvedMeansDelivered
    BY DEF SupervisorInv, AnswersInv
  <1> QED BY <1>1, SupervisorInvariant, PTL

(* The supervisor keeps the promises of RunLifecycle, for any number of    *)
(* runs, approvals, callers and channels, and whatever fails or restarts:  *)
(* runs end once, approvals are decided once and are void with their run.  *)
THEOREM SupervisorImplementsLifecycle == Spec => ImplementsLifecycle
  <1>1. Init => Lifecycle!Init
    BY DEF Init, TablesInit, Lifecycle!Init, NoApproval, PhaseOf, AskOf
  <1>2. ASSUME SupervisorInv, [Next]_vars
        PROVE  [Lifecycle!Next]_(Lifecycle!lifecycleVars)
    BY <1>2, SupervisorStep, TablesImplementLifecycle DEF SupervisorInv
  <1> QED BY <1>1, <1>2, SupervisorInvariant, PTL
          DEF Spec, ImplementsLifecycle, Lifecycle!Spec

-----------------------------------------------------------------------------
(* The state under the lock: types, routes and buffers.                    *)

(* A start that is not held has no events.                                 *)
LEMMA NotHeldType == NotHeld \in PendingStart /\ ~NotHeld.held /\ NotHeld.events = <<>>
  BY DEF NotHeld, PendingStart

(* Clearing State.                                                         *)
LEMMA EmptyLess ==
    ASSUME NEW st PROVE Lessened(st, EmptyState)
  <1>1. EmptyState \in State
    BY NotHeldType DEF EmptyState, State
  <1>2. Routed(EmptyState)
    BY DEF EmptyState, Routed
  <1>3. Bounded(EmptyState)
    <2>1. /\ EmptyState.uncertainStarts = [r \in Runs |-> NotHeld]
          /\ EmptyState.uncertainOrder = <<>> /\ EmptyState.pendingEvents = <<>>
      BY DEF EmptyState
    <2>2. Len(<<>>) <= RouteCapacity /\ Len(<<>>) <= MaxUncertainStarts
      BY StateAssumption
    <2>3. {r \in Runs : EmptyState.uncertainStarts[r].held} = {}
      BY <2>1, NotHeldType
    <2>4. \A r \in Runs : EmptyState.uncertainStarts[r].events = <<>>
      BY <2>1, NotHeldType
    <2> QED BY <2>1, <2>2, <2>3, <2>4, EmptyEntries DEF Bounded
  <1>4. \A r \in Runs : /\ EmptyState.routes[r] = None
                       /\ EmptyState.uncertainStarts[r].events = <<>>
                       /\ ~EmptyState.uncertainStarts[r].held
    BY NotHeldType DEF EmptyState
  <1>5. EmptyState.pendingEvents = <<>>
    BY DEF EmptyState
  <1> QED BY <1>1, <1>2, <1>3, <1>4, <1>5, EmptyEntries DEF Lessened, StateInv, Within

(* The values a finished handshake leaves behind.                          *)
LEMMA NoEvents == <<>> \in Seq(Event) /\ FALSE \in BOOLEAN /\ None \in Runs \cup {None}
  OBVIOUS

(* The end of a handshake clears its buffer.                               *)
LEMMA FinishLess ==
    ASSUME NEW st, StateInv(st) PROVE Lessened(st, FinishHandshake(st))
  <1> DEFINE new == FinishHandshake(st)
  <1>1. new \in State
    BY NoEvents, Zenon DEF FinishHandshake, State, StateInv
  <1>2. /\ new.pendingEvents = <<>>
        /\ new.runs = st.runs /\ new.runsByProvider = st.runsByProvider
        /\ new.routes = st.routes /\ new.uncertainStarts = st.uncertainStarts
        /\ new.uncertainOrder = st.uncertainOrder
    BY DEF FinishHandshake, State, StateInv
  <1> HIDE DEF new
  <1>3. Len(new.pendingEvents) <= RouteCapacity
    BY <1>2, StateAssumption
  <1>4. Routed(new) /\ Bounded(new)
    BY <1>2, <1>3 DEF StateInv, Routed, Bounded
  <1>5. Lessened(st, new)
    BY <1>1, <1>2, <1>4, EmptyEntries DEF Lessened, StateInv, Within
  <1> QED BY <1>5 DEF new

(* Closing a run removes its route, its uncertain start and its place in   *)
(* the queue.                                                              *)
LEMMA CloseLess ==
    ASSUME NEW st, StateInv(st), NEW r \in Runs PROVE Lessened(st, CloseRun(st, r))
  <1> DEFINE new == CloseRun(st, r)
             pend == Among(st.pendingEvents, [from : Runs \ {r}, n : 1..MaxEvents])
             routes == [st.routes EXCEPT ![r] = IF r \in st.runs THEN None ELSE @]
             byProvider == IF r \in st.runs THEN st.runsByProvider \ {r}
                           ELSE st.runsByProvider
             pending == IF r \in st.runs THEN pend ELSE st.pendingEvents
             asks == AsksWithout(st, r)
             responses == Only(st.responses, asks)
             starts == [st.uncertainStarts EXCEPT ![r] = NotHeld]
             order == Among(st.uncertainOrder, Runs \ {r})
  <1>1. pend \in Seq(Event) /\ Len(pend) <= Len(st.pendingEvents) /\ Within(pend, st.pendingEvents)
    BY AmongEntries DEF StateInv, State, Within
  <1>2. /\ order \in Seq(Runs) /\ Len(order) <= Len(st.uncertainOrder)
        /\ Entries(order) = Entries(st.uncertainOrder) \ {r}
        /\ NoRepeats(order)
    <2>1. st.uncertainOrder \in Seq(Runs) /\ NoRepeats(st.uncertainOrder)
      BY DEF StateInv, State, Bounded
    <2>2. Entries(st.uncertainOrder) \subseteq Runs
      BY <2>1 DEF Entries
    <2> QED BY <2>1, <2>2, AmongEntries
  <1> HIDE DEF pend, order
  <1>3. /\ routes \in [Runs -> Consumers \cup {None}] /\ byProvider \in SUBSET Runs
        /\ pending \in Seq(Event) /\ asks \in SUBSET Approvals
        /\ responses \in [Approvals -> Decisions \cup {None}]
        /\ starts \in [Runs -> PendingStart]
        /\ st.runs \ {r} \in SUBSET Runs /\ st.workItems \ {r} \in SUBSET Runs
        /\ st.uncertainRuns \ {r} \in SUBSET Runs
    BY <1>1, NotHeldType DEF StateInv, State, Only, AsksWithout
  <1>4. new \in State
    <2> HIDE DEF routes, byProvider, pending, asks, responses, starts
    <2>1. [st EXCEPT !.routes = routes, !.runsByProvider = byProvider,
              !.pendingEvents = pending, !.runs = st.runs \ {r},
              !.workItems = st.workItems \ {r}, !.approvals = asks,
              !.responses = responses, !.uncertainRuns = st.uncertainRuns \ {r},
              !.uncertainStarts = starts, !.uncertainOrder = order] \in State
      BY <1>2, <1>3, Zenon DEF StateInv, State
    <2> QED BY <2>1, Zenon
            DEF CloseRun, routes, byProvider, pending, asks, responses, starts, pend, order
  <1>5. /\ new.uncertainStarts = starts /\ new.uncertainOrder = order
        /\ new.pendingEvents = pending /\ new.runs = st.runs \ {r}
        /\ new.runsByProvider = byProvider /\ new.routes = routes
    BY DEF CloseRun, StateInv, State, pend, order
  <1> HIDE DEF new
  <1>6. Routed(new)
    <2>1. st.runs = st.runsByProvider /\ st.runs = {q \in Runs : st.routes[q] # None}
      BY DEF StateInv, Routed
    <2>2. \A q \in Runs : routes[q] = IF q = r /\ r \in st.runs THEN None ELSE st.routes[q]
      BY DEF StateInv, State
    <2>3. byProvider = st.runs \ {r}
      BY <2>1
    <2> HIDE DEF routes, byProvider
    <2>4. {q \in Runs : routes[q] # None} = st.runs \ {r}
      BY <2>1, <2>2
    <2> QED BY <1>5, <2>3, <2>4 DEF Routed
  <1>7. Bounded(new)
    <2>1. \A q \in Runs : starts[q] = IF q = r THEN NotHeld ELSE st.uncertainStarts[q]
      BY DEF StateInv, State
    <2>2. Len(pending) <= RouteCapacity /\ Len(order) <= MaxUncertainStarts
      BY <1>1, <1>2, StateAssumption DEF Bounded, StateInv, State
    <2>3. Len(<<>>) <= RouteCapacity
      BY StateAssumption
    <2> HIDE DEF starts, pending
    <2> QED BY <1>2, <1>5, <2>1, <2>2, <2>3, NotHeldType DEF Bounded, StateInv
  <1>8. \A q \in Runs : new.routes[q] \in {st.routes[q], None}
    BY <1>5 DEF StateInv, State
  <1>9. \A q \in Runs :
           /\ new.uncertainStarts[q].events \in {st.uncertainStarts[q].events, <<>>}
           /\ new.uncertainStarts[q].held => st.uncertainStarts[q].held
    BY <1>5, NotHeldType DEF StateInv, State
  <1>10. Lessened(st, new)
    BY <1>1, <1>4, <1>5, <1>6, <1>7, <1>8, <1>9 DEF Lessened, StateInv, Within
  <1> QED BY <1>10 DEF new

(* Undoing a reattachment removes the route.                               *)
LEMMA RemoveLess ==
    ASSUME NEW st, StateInv(st), NEW r \in Runs PROVE Lessened(st, RemoveRouteState(st, r))
  <1> DEFINE new == RemoveRouteState(st, r)
             routes == [st.routes EXCEPT ![r] = None]
             asks == AsksWithout(st, r)
             responses == Only(st.responses, asks)
  <1>1. /\ routes \in [Runs -> Consumers \cup {None}] /\ asks \in SUBSET Approvals
        /\ responses \in [Approvals -> Decisions \cup {None}]
        /\ st.runs \ {r} \in SUBSET Runs /\ st.workItems \ {r} \in SUBSET Runs
        /\ st.runsByProvider \ {r} \in SUBSET Runs /\ st.uncertainRuns \ {r} \in SUBSET Runs
    BY DEF StateInv, State, Only, AsksWithout
  <1>2. new \in State
    <2> HIDE DEF routes, asks, responses
    <2>1. [st EXCEPT !.routes = routes, !.runsByProvider = st.runsByProvider \ {r},
              !.runs = st.runs \ {r}, !.workItems = st.workItems \ {r},
              !.approvals = asks, !.responses = responses,
              !.uncertainRuns = st.uncertainRuns \ {r}] \in State
      BY <1>1, Zenon DEF StateInv, State
    <2> QED BY <2>1, Zenon DEF RemoveRouteState, routes, asks, responses
  <1>3. /\ new.routes = routes /\ new.runs = st.runs \ {r}
        /\ new.runsByProvider = st.runsByProvider \ {r}
        /\ new.pendingEvents = st.pendingEvents
        /\ new.uncertainStarts = st.uncertainStarts /\ new.uncertainOrder = st.uncertainOrder
    BY DEF RemoveRouteState, StateInv, State
  <1> HIDE DEF new
  <1>4. Routed(new) /\ Bounded(new)
    BY <1>3 DEF StateInv, State, Routed, Bounded
  <1>5. \A q \in Runs : new.routes[q] \in {st.routes[q], None}
    BY <1>3 DEF StateInv, State
  <1>6. Lessened(st, new)
    BY <1>2, <1>3, <1>4, <1>5 DEF Lessened, StateInv, Within
  <1> QED BY <1>6 DEF new

(* So does undoing the plans of a restart.                                 *)
LEMMA PlansLess == StateInv(state) => Lessened(state, WithoutPlans)
  <1> SUFFICES ASSUME StateInv(state) PROVE Lessened(state, WithoutPlans)
    OBVIOUS
  <1> DEFINE new == WithoutPlans
             planned == {consumers[c].run : c \in Prepared}
             asks == {a \in state.approvals : approval[a].run \notin planned}
             routes == [r \in Runs |-> IF r \in planned THEN None ELSE state.routes[r]]
             responses == Only(state.responses, asks)
  <1>1. /\ routes \in [Runs -> Consumers \cup {None}] /\ asks \in SUBSET Approvals
        /\ responses \in [Approvals -> Decisions \cup {None}]
        /\ state.runs \ planned \in SUBSET Runs /\ state.workItems \ planned \in SUBSET Runs
        /\ state.runsByProvider \ planned \in SUBSET Runs
        /\ state.uncertainRuns \ planned \in SUBSET Runs
    BY DEF StateInv, State, Only
  <1>2. new \in State
    <2>1. new = [state EXCEPT !.routes = routes, !.runsByProvider = state.runsByProvider \ planned,
              !.runs = state.runs \ planned, !.workItems = state.workItems \ planned,
              !.approvals = asks, !.responses = responses,
              !.uncertainRuns = state.uncertainRuns \ planned]
      BY DEF WithoutPlans, StateInv, State
    <2> HIDE DEF routes, asks, responses, planned, new
    <2>2. [state EXCEPT !.routes = routes, !.runsByProvider = state.runsByProvider \ planned,
              !.runs = state.runs \ planned, !.workItems = state.workItems \ planned,
              !.approvals = asks, !.responses = responses,
              !.uncertainRuns = state.uncertainRuns \ planned] \in State
      BY <1>1, Zenon DEF StateInv, State
    <2> QED BY <2>1, <2>2
  <1>3. /\ new.routes = routes /\ new.runs = state.runs \ planned
        /\ new.runsByProvider = state.runsByProvider \ planned
        /\ new.pendingEvents = state.pendingEvents
        /\ new.uncertainStarts = state.uncertainStarts
        /\ new.uncertainOrder = state.uncertainOrder
    BY DEF WithoutPlans, StateInv, State
  <1> HIDE DEF new
  <1>4. Routed(new) /\ Bounded(new)
    BY <1>3 DEF StateInv, State, Routed, Bounded
  <1>5. \A q \in Runs : new.routes[q] \in {state.routes[q], None}
    BY <1>3 DEF StateInv, State
  <1>6. Lessened(state, new)
    BY <1>2, <1>3, <1>4, <1>5 DEF Lessened, StateInv, Within
  <1> QED BY <1>6 DEF new

-----------------------------------------------------------------------------
(* A change of what has no part in the routes, events and uncertain starts.*)
LEMMA SameLess ==
    ASSUME NEW st, StateInv(st), NEW new \in State,
           new.routes = st.routes, new.runs = st.runs,
           new.runsByProvider = st.runsByProvider,
           new.pendingEvents = st.pendingEvents,
           new.uncertainStarts = st.uncertainStarts,
           new.uncertainOrder = st.uncertainOrder
    PROVE  Lessened(st, new)
  <1>1. Routed(new) /\ Bounded(new)
    BY DEF Routed, Bounded, StateInv
  <1> QED BY <1>1 DEF Lessened, StateInv, Within

(* Preparing a route adds it to every map.                                 *)
LEMMA PrepareAdds ==
    ASSUME NEW st, StateInv(st), NEW r \in Runs, NEW c \in Consumers,
           NEW restored \in [Approvals -> Decisions \cup {None, "asked"}]
    PROVE  RouteAdded(st, PrepareRoute(st, r, c, restored), r, c)
  <1> DEFINE new == PrepareRoute(st, r, c, restored)
             routes == [st.routes EXCEPT ![r] = c]
             asks == st.approvals \cup {a \in Approvals : restored[a] # None}
             responses == [a \in Approvals |->
                 IF restored[a] \in Decisions THEN restored[a] ELSE st.responses[a]]
  <1>1. /\ routes \in [Runs -> Consumers \cup {None}] /\ asks \in SUBSET Approvals
        /\ responses \in [Approvals -> Decisions \cup {None}]
        /\ st.runs \cup {r} \in SUBSET Runs /\ st.workItems \cup {r} \in SUBSET Runs
        /\ st.runsByProvider \cup {r} \in SUBSET Runs
        /\ st.uncertainRuns \cup {r} \in SUBSET Runs
    BY DEF StateInv, State
  <1>2. new \in State
    <2> HIDE DEF routes, asks, responses
    <2>1. [st EXCEPT !.routes = routes, !.runsByProvider = st.runsByProvider \cup {r},
              !.runs = st.runs \cup {r}, !.workItems = st.workItems \cup {r},
              !.approvals = asks, !.responses = responses,
              !.uncertainRuns = st.uncertainRuns \cup {r}] \in State
      BY <1>1, Zenon DEF StateInv, State
    <2>2. new = [st EXCEPT !.routes = routes, !.runsByProvider = st.runsByProvider \cup {r},
              !.runs = st.runs \cup {r}, !.workItems = st.workItems \cup {r},
              !.approvals = asks, !.responses = responses,
              !.uncertainRuns = st.uncertainRuns \cup {r}]
      BY DEF PrepareRoute, StateInv, State, routes, asks, responses
    <2> QED BY <2>1, <2>2
  <1>3. /\ new.routes = routes /\ new.runs = st.runs \cup {r}
        /\ new.runsByProvider = st.runsByProvider \cup {r}
        /\ new.pendingEvents = st.pendingEvents
        /\ new.uncertainStarts = st.uncertainStarts /\ new.uncertainOrder = st.uncertainOrder
    BY DEF PrepareRoute, StateInv, State
  <1>4. \A q \in Runs : routes[q] = IF q = r THEN c ELSE st.routes[q]
    BY DEF StateInv, State
  <1> HIDE DEF new, routes
  <1>5. Routed(new) /\ Bounded(new)
    <2>1. st.runs = st.runsByProvider /\ st.runs = {q \in Runs : st.routes[q] # None}
      BY DEF StateInv, Routed
    <2>2. {q \in Runs : routes[q] # None} = st.runs \cup {r}
      BY <1>4, <2>1, StateAssumption
    <2> QED BY <1>3, <2>1, <2>2 DEF StateInv, Routed, Bounded
  <1>6. RouteAdded(st, new, r, c)
    BY <1>2, <1>3, <1>4, <1>5 DEF RouteAdded, StateInv, Within
  <1> QED BY <1>6 DEF new

(* So does the end of a start that was bound.                              *)
LEMMA BindAdds ==
    ASSUME NEW st, StateInv(st), NEW r \in Runs, NEW c \in Consumers
    PROVE  RouteAdded(st, [FinishHandshake(st) EXCEPT
                    !.routes[r] = c, !.runs = @ \cup {r},
                    !.runsByProvider = @ \cup {r}], r, c)
  <1> DEFINE old == FinishHandshake(st)
             new == [old EXCEPT !.routes[r] = c, !.runs = @ \cup {r},
                                !.runsByProvider = @ \cup {r}]
             routes == [old.routes EXCEPT ![r] = c]
  <1>1. StateInv(old) /\ Within(old.pendingEvents, st.pendingEvents)
    BY FinishLess DEF Lessened
  <1>2. old.routes = st.routes /\ old.uncertainStarts = st.uncertainStarts
    BY DEF FinishHandshake, StateInv, State
  <1> HIDE DEF old
  <1>3. routes \in [Runs -> Consumers \cup {None}] /\ old.runs \cup {r} \in SUBSET Runs
        /\ old.runsByProvider \cup {r} \in SUBSET Runs
    BY <1>1 DEF StateInv, State
  <1>4. new \in State
    <2> HIDE DEF routes
    <2>1. [old EXCEPT !.routes = routes, !.runs = old.runs \cup {r},
                      !.runsByProvider = old.runsByProvider \cup {r}] \in State
      BY <1>1, <1>3, Zenon DEF StateInv, State
    <2> QED BY <2>1, Zenon DEF routes
  <1>5. /\ new.routes = routes /\ new.runs = old.runs \cup {r}
        /\ new.runsByProvider = old.runsByProvider \cup {r}
        /\ new.pendingEvents = old.pendingEvents
        /\ new.uncertainStarts = old.uncertainStarts
        /\ new.uncertainOrder = old.uncertainOrder
    BY <1>1 DEF StateInv, State
  <1>6. \A q \in Runs : routes[q] = IF q = r THEN c ELSE old.routes[q]
    BY <1>1 DEF StateInv, State
  <1> HIDE DEF new, routes
  <1>7. Routed(new) /\ Bounded(new)
    <2>1. old.runs = old.runsByProvider /\ old.runs = {q \in Runs : old.routes[q] # None}
      BY <1>1 DEF StateInv, Routed
    <2>2. {q \in Runs : routes[q] # None} = old.runs \cup {r}
      BY <1>6, <2>1, StateAssumption
    <2> QED BY <1>1, <1>5, <2>1, <2>2 DEF StateInv, Routed, Bounded
  <1>8. RouteAdded(st, new, r, c)
    BY <1>1, <1>2, <1>4, <1>5, <1>6, <1>7 DEF RouteAdded, StateInv
  <1> QED BY <1>8 DEF new, old

-----------------------------------------------------------------------------
(* The handshake buffers.                                                  *)

(* One uncertain start of st gets other contents.                          *)
LEMMA StartChanged ==
    ASSUME NEW st, StateInv(st), NEW h \in Runs, st.uncertainStarts[h].held,
           NEW p \in PendingStart, p.held, Len(p.events) <= RouteCapacity
    PROVE  LET new == [st EXCEPT !.uncertainStarts[h] = p] IN
           /\ StateInv(new)
           /\ new.routes = st.routes
           /\ new.pendingEvents = st.pendingEvents
           /\ \A r \in Runs : new.uncertainStarts[r] =
                 IF r = h THEN p ELSE st.uncertainStarts[r]
  <1> DEFINE starts == [st.uncertainStarts EXCEPT ![h] = p]
             new == [st EXCEPT !.uncertainStarts = starts]
  <1>1. starts \in [Runs -> PendingStart]
    BY DEF StateInv, State
  <1>2. new \in State
    <2> HIDE DEF starts
    <2> QED BY <1>1, Zenon DEF StateInv, State
  <1>3. /\ new.routes = st.routes /\ new.runs = st.runs
        /\ new.runsByProvider = st.runsByProvider
        /\ new.pendingEvents = st.pendingEvents
        /\ new.uncertainStarts = starts /\ new.uncertainOrder = st.uncertainOrder
    BY DEF StateInv, State
  <1>4. \A r \in Runs : starts[r] = IF r = h THEN p ELSE st.uncertainStarts[r]
    BY DEF StateInv, State
  <1>5. [st EXCEPT !.uncertainStarts[h] = p] = new
    OBVIOUS
  <1> HIDE DEF new, starts
  <1>6. Routed(new) /\ Bounded(new)
    BY <1>3, <1>4 DEF StateInv, Routed, Bounded
  <1> QED BY <1>2, <1>3, <1>4, <1>5, <1>6 DEF StateInv

(* An uncertain start takes one more event.                                *)
LEMMA StartTakes ==
    ASSUME NEW p \in PendingStart, NEW e \in Event
    PROVE  LET more == [p EXCEPT !.events = Append(@, e)] IN
           /\ more \in PendingStart
           /\ more.held <=> p.held
           /\ more.events = Append(p.events, e)
           /\ Len(more.events) = Len(p.events) + 1
  <1>1. Append(p.events, e) \in Seq(Event) /\ Len(Append(p.events, e)) = Len(p.events) + 1
    BY DEF PendingStart
  <1> DEFINE events == Append(p.events, e)
  <1> HIDE DEF events
  <1>2. [p EXCEPT !.events = events] \in PendingStart
    BY <1>1 DEF PendingStart, events
  <1>3. [p EXCEPT !.events = events].events = events
        /\ ([p EXCEPT !.events = events].held <=> p.held)
    BY DEF PendingStart
  <1> QED BY <1>1, <1>2, <1>3 DEF events

(* An event without a route is kept in one buffer or dropped.              *)
LEMMA BufferKeeps ==
    ASSUME NEW st, StateInv(st), NEW e \in Event, NEW new \in BufferHandshakeEvent(st, e)
    PROVE  Kept(st, new, e)
  <1> DEFINE holders == {r \in Runs :
                           /\ st.uncertainStarts[r].held
                           /\ EventsOf(st.uncertainStarts[r].events, e.from) # <<>>}
             empty == {i \in DOMAIN st.uncertainOrder :
                         st.uncertainStarts[st.uncertainOrder[i]].held
                         /\ st.uncertainStarts[st.uncertainOrder[i]].events = <<>>}
             first == CHOOSE i \in empty : \A j \in empty : i <= j
             h == st.uncertainOrder[first]
             full(r) == [st.uncertainStarts[r] EXCEPT !.overflow = TRUE]
             more(r) == [st.uncertainStarts[r] EXCEPT !.events = Append(@, e)]
             only(r) == [st.uncertainStarts[r] EXCEPT !.events = <<e>>]
  <1>1. CASE st.startInProgress # None /\ Len(st.pendingEvents) < RouteCapacity
    <2> DEFINE pending == Append(st.pendingEvents, e)
    <2>1. pending \in Seq(Event) /\ Len(pending) <= RouteCapacity
      BY <1>1, StateAssumption DEF StateInv, State
    <2>2. new = [st EXCEPT !.pendingEvents = pending]
      BY <1>1 DEF BufferHandshakeEvent
    <2> HIDE DEF pending
    <2>3. new \in State
      BY <2>1, <2>2, Zenon DEF StateInv, State
    <2>4. /\ new.routes = st.routes /\ new.runs = st.runs
          /\ new.runsByProvider = st.runsByProvider
          /\ new.pendingEvents = pending
          /\ new.uncertainStarts = st.uncertainStarts /\ new.uncertainOrder = st.uncertainOrder
      BY <2>2 DEF StateInv, State
    <2>5. Routed(new) /\ Bounded(new)
      BY <2>1, <2>4 DEF StateInv, Routed, Bounded
    <2> QED BY <2>3, <2>4, <2>5 DEF Kept, StateInv, pending
  <1>2. CASE st.startInProgress # None /\ ~(Len(st.pendingEvents) < RouteCapacity)
    <2>1. new = [st EXCEPT !.pendingOverflow = TRUE]
      BY <1>2 DEF BufferHandshakeEvent
    <2>2. TRUE \in BOOLEAN
      OBVIOUS
    <2>3. new \in State
      BY <2>1, <2>2, Zenon DEF StateInv, State
    <2>4. /\ new.routes = st.routes /\ new.runs = st.runs
          /\ new.runsByProvider = st.runsByProvider
          /\ new.pendingEvents = st.pendingEvents
          /\ new.uncertainStarts = st.uncertainStarts /\ new.uncertainOrder = st.uncertainOrder
      BY <2>1 DEF StateInv, State
    <2>5. StateInv(new)
      BY <2>3, <2>4, SameLess DEF Lessened
    <2> QED BY <2>4, <2>5 DEF Kept
  <1>3. CASE st.startInProgress = None /\ holders # {}
    <2>1. PICK r \in holders : new =
             IF Len(st.uncertainStarts[r].events) < RouteCapacity
             THEN [st EXCEPT !.uncertainStarts[r].events = Append(@, e)]
             ELSE [st EXCEPT !.uncertainStarts[r].overflow = TRUE]
      BY <1>3 DEF BufferHandshakeEvent
    <2>2. r \in Runs /\ st.uncertainStarts[r] \in PendingStart /\ st.uncertainStarts[r].held
          /\ st.uncertainStarts[r].events \in Seq(Event)
          /\ Len(st.uncertainStarts[r].events) <= RouteCapacity
      BY DEF StateInv, State, Bounded, PendingStart
    <2>3. CASE Len(st.uncertainStarts[r].events) < RouteCapacity
      <3>1. new = [st EXCEPT !.uncertainStarts[r] = more(r)]
        BY <2>1, <2>3
      <3>2. more(r) \in PendingStart /\ more(r).held /\ Len(more(r).events) <= RouteCapacity
            /\ more(r).events = Append(st.uncertainStarts[r].events, e)
        <4>1. Len(st.uncertainStarts[r].events) + 1 <= RouteCapacity
          BY <2>2, <2>3, StateAssumption
        <4> QED BY <2>2, <4>1, StartTakes
      <3> HIDE DEF holders, more
      <3>3. /\ StateInv(new) /\ new.routes = st.routes /\ new.pendingEvents = st.pendingEvents
            /\ \A q \in Runs : new.uncertainStarts[q] =
                 IF q = r THEN more(r) ELSE st.uncertainStarts[q]
        BY <2>2, <3>1, <3>2, StartChanged
      <3>4. \A q \in Runs : new.uncertainStarts[q].held => st.uncertainStarts[q].held
        BY <2>2, <3>3
      <3>5. \A q \in Runs : new.uncertainStarts[q].events =
               IF q = r THEN Append(st.uncertainStarts[r].events, e) ELSE st.uncertainStarts[q].events
        BY <3>2, <3>3
      <3> QED BY <2>2, <3>3, <3>4, <3>5 DEF Kept
    <2>4. CASE ~(Len(st.uncertainStarts[r].events) < RouteCapacity)
      <3>1. new = [st EXCEPT !.uncertainStarts[r] = full(r)]
        BY <2>1, <2>4
      <3>2. full(r) \in PendingStart /\ full(r).held /\ Len(full(r).events) <= RouteCapacity
            /\ full(r).events = st.uncertainStarts[r].events
        BY <2>2 DEF PendingStart
      <3> HIDE DEF holders, full
      <3>3. /\ StateInv(new) /\ new.routes = st.routes /\ new.pendingEvents = st.pendingEvents
            /\ \A q \in Runs : new.uncertainStarts[q] =
                 IF q = r THEN full(r) ELSE st.uncertainStarts[q]
        BY <2>2, <3>1, <3>2, StartChanged
      <3>4. \A q \in Runs : new.uncertainStarts[q].held => st.uncertainStarts[q].held
        BY <2>2, <3>3
      <3>5. \A q \in Runs : new.uncertainStarts[q].events = st.uncertainStarts[q].events
        BY <3>2, <3>3
      <3> QED BY <2>2, <3>3, <3>4, <3>5 DEF Kept
    <2> QED BY <2>3, <2>4
  <1>4. CASE st.startInProgress = None /\ holders = {} /\ empty # {}
    <2>1. first \in empty
      <3>1. empty \in SUBSET Nat
        BY DEF StateInv, State
      <3> HIDE DEF empty
      <3>2. \E i \in empty : \A j \in empty : i <= j
        BY <1>4, <3>1, LeastNumber
      <3> QED BY <3>2
    <2>2. new = [st EXCEPT !.uncertainStarts[h].events = <<e>>]
      BY <1>4 DEF BufferHandshakeEvent
    <2>3. h \in Runs /\ st.uncertainStarts[h] \in PendingStart /\ st.uncertainStarts[h].held
          /\ st.uncertainStarts[h].events = <<>>
      <3>1. first \in DOMAIN st.uncertainOrder
            /\ st.uncertainStarts[h].held /\ st.uncertainStarts[h].events = <<>>
        BY <2>1
      <3> HIDE DEF first
      <3>2. h \in Runs
        BY <3>1 DEF StateInv, State
      <3> QED BY <3>1, <3>2 DEF StateInv, State
    <2> HIDE DEF h, holders, empty, first
    <2>4. new = [st EXCEPT !.uncertainStarts[h] = only(h)]
      BY <2>2
    <2>5. only(h) \in PendingStart /\ only(h).held /\ Len(only(h).events) <= RouteCapacity
          /\ only(h).events = Append(st.uncertainStarts[h].events, e)
      <3>1. Append(st.uncertainStarts[h].events, e) = <<e>>
        BY <2>3
      <3>2. only(h) = more(h)
        BY <3>1
      <3>3. Len(<<>>) + 1 <= RouteCapacity
        BY StateAssumption
      <3> QED BY <2>3, <3>2, <3>3, StartTakes
    <2> HIDE DEF only
    <2>6. /\ StateInv(new) /\ new.routes = st.routes /\ new.pendingEvents = st.pendingEvents
          /\ \A q \in Runs : new.uncertainStarts[q] =
               IF q = h THEN only(h) ELSE st.uncertainStarts[q]
      BY <2>3, <2>4, <2>5, StartChanged
    <2>7. \A q \in Runs : new.uncertainStarts[q].held => st.uncertainStarts[q].held
      BY <2>3, <2>6
    <2>8. \A q \in Runs : new.uncertainStarts[q].events =
             IF q = h THEN Append(st.uncertainStarts[h].events, e) ELSE st.uncertainStarts[q].events
      BY <2>5, <2>6
    <2> QED BY <2>3, <2>6, <2>7, <2>8 DEF Kept
  <1>5. CASE st.startInProgress = None /\ holders = {} /\ empty = {}
    <2>1. new = st
      BY <1>5 DEF BufferHandshakeEvent
    <2> QED BY <2>1 DEF Kept
  <1> QED BY <1>1, <1>2, <1>3, <1>4, <1>5

(* A start with an unknown outcome takes the buffer along, and the oldest  *)
(* one makes room.                                                         *)
LEMMA RetainKeeps ==
    ASSUME NEW st, StateInv(st), NEW r \in Runs, ~st.uncertainStarts[r].held
    PROVE  Retained(st, RetainUnknownHandshake(st, r), r)
  <1> DEFINE new == RetainUnknownHandshake(st, r)
             held == {q \in Runs : st.uncertainStarts[q].held}
             evict == Cardinality(held) >= MaxUncertainStarts /\ st.uncertainOrder # <<>>
             oldest == Head(st.uncertainOrder)
             kept == [q \in Runs |-> IF evict /\ q = oldest THEN NotHeld
                                     ELSE st.uncertainStarts[q]]
             fresh == [held |-> TRUE, events |-> st.pendingEvents,
                       overflow |-> st.pendingOverflow]
             starts == [kept EXCEPT ![r] = fresh]
             rest == IF evict THEN Tail(st.uncertainOrder) ELSE st.uncertainOrder
             order == Append(rest, r)
  <1>1. /\ st.uncertainOrder \in Seq(Runs) /\ NoRepeats(st.uncertainOrder)
        /\ held = Entries(st.uncertainOrder) /\ Len(st.uncertainOrder) \in Nat
        /\ Len(st.uncertainOrder) <= MaxUncertainStarts /\ r \notin held
    BY DEF StateInv, State, Bounded
  <1>2. Cardinality(held) = Len(st.uncertainOrder)
    BY <1>1, CountEntries
  <1> HIDE DEF held
  <1>3. /\ rest \in Seq(Runs) /\ NoRepeats(rest) /\ r \notin Entries(rest)
        /\ Entries(rest) = IF evict THEN held \ {oldest} ELSE held
        /\ Len(rest) < MaxUncertainStarts
    <2>1. CASE evict
      <3>1. Len(rest) < MaxUncertainStarts
        BY <1>1, <2>1, StateAssumption
      <3> QED BY <1>1, <2>1, <3>1, TailEntries
    <2>2. CASE ~evict
      <3>1. Len(st.uncertainOrder) < MaxUncertainStarts
        <4>1. CASE st.uncertainOrder = <<>>
          BY <4>1, StateAssumption
        <4>2. CASE st.uncertainOrder # <<>>
          BY <1>1, <1>2, <2>2, <4>2, StateAssumption
        <4> QED BY <4>1, <4>2
      <3> QED BY <1>1, <2>2, <3>1
    <2> QED BY <2>1, <2>2
  <1>4. /\ order \in Seq(Runs) /\ NoRepeats(order) /\ Entries(order) = Entries(rest) \cup {r}
        /\ Len(order) <= MaxUncertainStarts
    <2> HIDE DEF rest
    <2>1. Len(order) = Len(rest) + 1 /\ Len(rest) \in Nat
      BY <1>3, AppendEntries
    <2>2. Len(order) <= MaxUncertainStarts
      BY <1>3, <2>1, StateAssumption
    <2> QED BY <1>3, <2>2, AppendEntries
  <1> HIDE DEF rest, order, oldest, evict
  <1>5. fresh \in PendingStart /\ fresh.held /\ fresh.events = st.pendingEvents
    BY DEF PendingStart, StateInv, State
  <1> HIDE DEF fresh
  <1>6. kept \in [Runs -> PendingStart]
    BY NotHeldType DEF StateInv, State
  <1>7. /\ starts \in [Runs -> PendingStart]
        /\ \A q \in Runs : starts[q] = IF q = r THEN fresh
                                       ELSE IF evict /\ q = oldest THEN NotHeld
                                       ELSE st.uncertainStarts[q]
    BY <1>5, <1>6
  <1> HIDE DEF kept, starts
  <1>8. new = [FinishHandshake(st) EXCEPT
                  !.uncertainStarts = starts, !.uncertainOrder = order,
                  !.uncertainRuns = @ \cup {r}]
    BY DEF RetainUnknownHandshake, starts, order, kept, rest, fresh, evict, held, oldest
  <1> HIDE DEF new
  <1> DEFINE done == FinishHandshake(st)
  <1>9. /\ done \in State /\ done.routes = st.routes /\ done.runs = st.runs
        /\ done.runsByProvider = st.runsByProvider /\ done.pendingEvents = <<>>
        /\ done.uncertainRuns \cup {r} \in SUBSET Runs
    <2>1. done \in State
      BY FinishLess DEF Lessened, StateInv
    <2> QED BY <2>1 DEF FinishHandshake, StateInv, State
  <1> HIDE DEF done
  <1>10. new \in State
    <2>1. [done EXCEPT !.uncertainStarts = starts, !.uncertainOrder = order,
                       !.uncertainRuns = done.uncertainRuns \cup {r}] \in State
      BY <1>4, <1>7, <1>9, Zenon DEF State
    <2> QED BY <1>8, <2>1 DEF done
  <1>11. /\ new.routes = st.routes /\ new.runs = st.runs
         /\ new.runsByProvider = st.runsByProvider /\ new.pendingEvents = <<>>
         /\ new.uncertainStarts = starts /\ new.uncertainOrder = order
    BY <1>8, <1>9 DEF done, State
  <1>12. Routed(new)
    BY <1>11 DEF StateInv, Routed
  <1>13. Bounded(new)
    <2>1. \A q \in Runs : starts[q].held <=> q \in Entries(rest) \cup {r}
      BY <1>3, <1>5, <1>7, NotHeldType DEF held
    <2>2. {q \in Runs : starts[q].held} = Entries(order)
      <3>1. Entries(rest) \subseteq Runs
        BY <1>3 DEF Entries
      <3> QED BY <1>4, <2>1, <3>1
    <2>3. Len(<<>>) <= RouteCapacity
      BY StateAssumption
    <2>4. \A q \in Runs : Len(starts[q].events) <= RouteCapacity
      BY <1>5, <1>7, <2>3, NotHeldType DEF StateInv, Bounded
    <2>5. \A q \in Runs : ~starts[q].held => starts[q].events = <<>>
      BY <1>5, <1>7, NotHeldType DEF StateInv, Bounded
    <2> QED BY <1>4, <1>11, <2>2, <2>3, <2>4, <2>5 DEF Bounded
  <1>14. \A q \in Runs : new.uncertainStarts[q].held => q = r \/ st.uncertainStarts[q].held
    BY <1>7, <1>11, NotHeldType
  <1>15. \A q \in Runs : IF q = r THEN new.uncertainStarts[q].events = st.pendingEvents
                  ELSE new.uncertainStarts[q].events \in {st.uncertainStarts[q].events, <<>>}
    BY <1>5, <1>7, <1>11, NotHeldType
  <1> QED BY <1>10, <1>11, <1>12, <1>13, <1>14, <1>15 DEF Retained, StateInv, new

(* An uncertain start that is collected is held no more.                   *)
LEMMA CollectLess ==
    ASSUME NEW st, StateInv(st), NEW r \in Runs
    PROVE  LET new == [st EXCEPT !.uncertainStarts[r] = NotHeld,
                                 !.uncertainOrder = Among(@, Runs \ {r})]
           IN  Lessened(st, new) /\ new.uncertainStarts[r].events = <<>>
  <1> DEFINE starts == [st.uncertainStarts EXCEPT ![r] = NotHeld]
             order == Among(st.uncertainOrder, Runs \ {r})
             new == [st EXCEPT !.uncertainStarts = starts, !.uncertainOrder = order]
  <1>1. /\ order \in Seq(Runs) /\ Len(order) <= Len(st.uncertainOrder)
        /\ Entries(order) = Entries(st.uncertainOrder) \ {r}
        /\ NoRepeats(order)
    <2>1. st.uncertainOrder \in Seq(Runs) /\ NoRepeats(st.uncertainOrder)
      BY DEF StateInv, State, Bounded
    <2>2. Entries(st.uncertainOrder) \subseteq Runs
      BY <2>1 DEF Entries
    <2> QED BY <2>1, <2>2, AmongEntries
  <1>2. starts \in [Runs -> PendingStart]
        /\ \A q \in Runs : starts[q] = IF q = r THEN NotHeld ELSE st.uncertainStarts[q]
    BY NotHeldType DEF StateInv, State
  <1>3. Len(order) <= MaxUncertainStarts
    BY <1>1, StateAssumption DEF Bounded, StateInv, State
  <1>4. [st EXCEPT !.uncertainStarts[r] = NotHeld,
                   !.uncertainOrder = Among(@, Runs \ {r})] = new
    OBVIOUS
  <1> HIDE DEF starts, order
  <1>5. new \in State
    BY <1>1, <1>2, Zenon DEF StateInv, State
  <1>6. /\ new.routes = st.routes /\ new.runs = st.runs
        /\ new.runsByProvider = st.runsByProvider /\ new.pendingEvents = st.pendingEvents
        /\ new.uncertainStarts = starts /\ new.uncertainOrder = order
    BY DEF StateInv, State
  <1> HIDE DEF new
  <1>7. Routed(new)
    BY <1>6 DEF StateInv, Routed
  <1>8. Bounded(new)
    <2>1. Len(<<>>) <= RouteCapacity
      BY StateAssumption
    <2> QED BY <1>1, <1>2, <1>3, <1>6, <2>1, NotHeldType DEF Bounded, StateInv
  <1>9. \A q \in Runs :
           /\ new.uncertainStarts[q].events \in {st.uncertainStarts[q].events, <<>>}
           /\ new.uncertainStarts[q].held => st.uncertainStarts[q].held
    BY <1>2, <1>6, NotHeldType
  <1>10. Lessened(st, new) /\ new.uncertainStarts[r].events = <<>>
    BY <1>2, <1>5, <1>6, <1>7, <1>8, <1>9, NotHeldType DEF Lessened, StateInv, Within
  <1> QED BY <1>4, <1>10

(* Changes of single fields.                                               *)
LEMMA AsideLess ==
    ASSUME NEW st, StateInv(st)
    PROVE  /\ Lessened(st, st)
           /\ \A runs \in SUBSET Runs : Lessened(st, [st EXCEPT !.uncertainRuns = runs])
           /\ \A asks \in SUBSET Approvals : Lessened(st, [st EXCEPT !.approvals = asks])
           /\ \A responses \in [Approvals -> Decisions \cup {None}] :
                 Lessened(st, [st EXCEPT !.responses = responses])
           /\ \A asks \in SUBSET Approvals, responses \in [Approvals -> Decisions \cup {None}] :
                 Lessened(st, [st EXCEPT !.approvals = asks, !.responses = responses])
  <1> DEFINE same(new) == /\ new \in State
                          /\ new.routes = st.routes /\ new.runs = st.runs
                          /\ new.runsByProvider = st.runsByProvider
                          /\ new.pendingEvents = st.pendingEvents
                          /\ new.uncertainStarts = st.uncertainStarts
                          /\ new.uncertainOrder = st.uncertainOrder
  <1>1. \A new : same(new) => Lessened(st, new)
    BY SameLess
  <1>2. same(st)
    BY DEF StateInv
  <1>3. ASSUME NEW runs \in SUBSET Runs PROVE same([st EXCEPT !.uncertainRuns = runs])
    <2>1. [st EXCEPT !.uncertainRuns = runs] \in State
      BY Zenon DEF StateInv, State
    <2> QED BY <2>1 DEF StateInv, State
  <1>4. ASSUME NEW asks \in SUBSET Approvals PROVE same([st EXCEPT !.approvals = asks])
    <2>1. [st EXCEPT !.approvals = asks] \in State
      BY Zenon DEF StateInv, State
    <2> QED BY <2>1 DEF StateInv, State
  <1>5. ASSUME NEW responses \in [Approvals -> Decisions \cup {None}]
        PROVE  same([st EXCEPT !.responses = responses])
    <2>1. [st EXCEPT !.responses = responses] \in State
      BY Zenon DEF StateInv, State
    <2> QED BY <2>1 DEF StateInv, State
  <1>6. ASSUME NEW asks \in SUBSET Approvals,
               NEW responses \in [Approvals -> Decisions \cup {None}]
        PROVE  same([st EXCEPT !.approvals = asks, !.responses = responses])
    <2>1. [st EXCEPT !.approvals = asks, !.responses = responses] \in State
      BY Zenon DEF StateInv, State
    <2> QED BY <2>1 DEF StateInv, State
  <1> HIDE DEF same
  <1> QED BY <1>1, <1>2, <1>3, <1>4, <1>5, <1>6

(* Registering a start empties the buffer.                                 *)
LEMMA RegisterLess ==
    ASSUME NEW st, StateInv(st), NEW r \in Runs
    PROVE  Lessened(st, [st EXCEPT !.workItems = @ \cup {r}, !.startInProgress = r,
                                   !.pendingEvents = <<>>, !.pendingOverflow = FALSE])
  <1> DEFINE items == st.workItems \cup {r}
             new == [st EXCEPT !.workItems = items, !.startInProgress = r,
                               !.pendingEvents = <<>>, !.pendingOverflow = FALSE]
  <1>1. items \in SUBSET Runs /\ r \in Runs \cup {None}
    BY DEF StateInv, State
  <1> HIDE DEF items
  <1>2. new \in State
    BY <1>1, NoEvents, Zenon DEF StateInv, State
  <1>3. /\ new.routes = st.routes /\ new.runs = st.runs
        /\ new.runsByProvider = st.runsByProvider /\ new.pendingEvents = <<>>
        /\ new.uncertainStarts = st.uncertainStarts /\ new.uncertainOrder = st.uncertainOrder
    BY DEF StateInv, State
  <1>4. [st EXCEPT !.workItems = @ \cup {r}, !.startInProgress = r,
                   !.pendingEvents = <<>>, !.pendingOverflow = FALSE] = new
    BY Zenon DEF items
  <1> HIDE DEF new
  <1>5. Len(<<>>) <= RouteCapacity
    BY StateAssumption
  <1>6. Routed(new) /\ Bounded(new)
    BY <1>3, <1>5 DEF StateInv, Routed, Bounded
  <1>7. Lessened(st, new)
    BY <1>2, <1>3, <1>6, EmptyEntries DEF Lessened, StateInv, Within
  <1> QED BY <1>4, <1>7

-----------------------------------------------------------------------------
(* What a step does to the state under the lock.                           *)

(* A step that only takes away is one of these.                            *)
LEMMA LessMoves ==
    ASSUME Lessened(state, state') PROVE StateMoves
  BY DEF Lessened, StateMoves

(* Taking away twice is taking away.                                       *)
LEMMA LessTwice ==
    ASSUME NEW st, NEW mid, NEW new, Lessened(st, mid), Lessened(mid, new)
    PROVE  Lessened(st, new)
  BY DEF Lessened, Within

(* A step that adds a route is one of these.                               *)
LEMMA AddMoves ==
    ASSUME NEW r \in Named, r \in Runs, NEW c \in Consumers,
           RouteAdded(state, state', r, c), Unused(c),
           NewConsumer(c, r, "recv") \/ NewConsumer(c, r, "prepared")
    PROVE  StateMoves
  BY DEF RouteAdded, StateMoves, RouteMade

(* What the restored requests are.                                         *)
LEMMA RequestsType ==
    ASSUME TablesTypeOK, NEW r
    PROVE  /\ LoadRequests(r) \in [Approvals -> Decisions \cup {None, "asked"}]
           /\ NoRequests \in [Approvals -> Decisions \cup {None, "asked"}]
  BY DEF TablesTypeOK, ApprovalRow, LoadRequests, NoRequests

(* Every step changes State in one of these ways.                          *)
LEMMA StateStep ==
    ASSUME TypeOK, SupervisorInv, StateInv(state), StartsOnce, [Next]_vars
    PROVE  StateMoves
  <1>0. Lessened(state, state) /\ TablesTypeOK /\ stream \in Seq(Event)
    BY AsideLess DEF TypeOK, StateInv, State, Lessened, Within
  <1> USE StateAssumption, NoneAssumption, SupervisorAssumption
  <1> USE DEF SupervisorInv, RunsInv, TasksOK, ConsumersOK, Resting, At, Go, Starter,
          ConsumerAt, ConsumerGo, storeVars, backVars, pumpVars, bootVars, innerVars,
          providerVars
  <1>1. CASE StartStep
    <2>1. CASE RegisterStart
      <3>1. Starter.run \in Runs
        BY <2>1 DEF RegisterStart, Tasks
      <3>2. Lessened(state, state')
        BY <2>1, <3>1, RegisterLess DEF RegisterStart
      <3> QED BY <1>0, <3>2, LessMoves
    <2>2. CASE CallStart
      BY <2>2, <1>0, LessMoves DEF CallStart
    <2>3. CASE StartAccepted
      BY <2>3, <1>0, LessMoves DEF StartAccepted
    <2>4. CASE StartUnknown
      <3>1. Starter.run \in Runs /\ ~state.uncertainStarts[Starter.run].held
        BY <2>4 DEF StartUnknown, Tasks, StartsOnce, Starting
      <3>2. Retained(state, state', Starter.run)
        BY <2>4, <3>1, RetainKeeps DEF StartUnknown
      <3>3. Starter'.pc = "markUnknown" /\ At("starter", "calling")
        BY <2>4 DEF StartUnknown, Tasks
      <3> QED BY <2>4, <3>2, <3>3 DEF Retained, StateMoves
    <2>5. CASE StartRejected
      <3>1. Starter.run \in Runs
        BY <2>5 DEF StartRejected, Tasks
      <3>2. StateInv(FinishHandshake(state)) /\ Lessened(state, FinishHandshake(state))
        BY FinishLess DEF Lessened
      <3>3. Lessened(FinishHandshake(state), state')
        BY <2>5, <3>1, <3>2, CloseLess DEF StartRejected
      <3>4. Lessened(state, state')
        BY <3>2, <3>3, LessTwice
      <3> QED BY <3>4, LessMoves
    <2>6. CASE MarkStart
      BY <2>6, <1>0, LessMoves DEF MarkStart
    <2>7. CASE BindStart
      BY <2>7, <1>0, LessMoves DEF BindStart
    <2>8. ASSUME NEW c \in Consumers, RouteStart(c) PROVE StateMoves
      <3>1. Starter.run \in Runs /\ Starter.run \in Named
        BY <2>8 DEF RouteStart, Tasks, Named
      <3>2. RouteAdded(state, state', Starter.run, c)
        BY <2>8, <3>1, BindAdds DEF RouteStart
      <3> QED BY <2>8, <3>1, <3>2, AddMoves DEF RouteStart
    <2>9. ASSUME NEW c \in Consumers, AttachRoute(c) PROVE StateMoves
      <3>1. Starter.run \in Runs /\ Starter.run \in Named
        BY <2>9 DEF AttachRoute, Tasks, Named
      <3>2. CASE UNCHANGED state
        BY <1>0, <3>2, LessMoves
      <3> DEFINE st == PrepareRoute(state, Starter.run, c, NoRequests)
      <3>3. CASE /\ state' = [st EXCEPT !.uncertainRuns = st.uncertainRuns \ {Starter.run}]
                 /\ Unused(c) /\ NewConsumer(c, Starter.run, "recv")
        <4>1. RouteAdded(state, st, Starter.run, c)
          BY <3>1, <1>0, RequestsType, PrepareAdds
        <4>2. StateInv(st) /\ st.uncertainRuns \ {Starter.run} \in SUBSET Runs
          BY <4>1 DEF RouteAdded, StateInv, State
        <4>3. state' = [st EXCEPT !.uncertainRuns = st.uncertainRuns \ {Starter.run}]
          BY <3>3
        <4> HIDE DEF st
        <4>4. Lessened(st, [st EXCEPT !.uncertainRuns = st.uncertainRuns \ {Starter.run}])
          BY <4>2, AsideLess
        <4>5. Lessened(st, state')
          BY <4>3, <4>4
        <4>6. state'.routes = st.routes
          BY <4>2, <4>3 DEF StateInv, State
        <4>7. Unused(c) /\ NewConsumer(c, Starter.run, "recv")
          BY <3>3
        <4>8. RouteMade(Starter.run, c)
          BY <3>1, <4>1, <4>6, <4>7 DEF RouteAdded, RouteMade
        <4>9. /\ Within(state'.pendingEvents, state.pendingEvents)
              /\ \A r \in Runs :
                   /\ state'.uncertainStarts[r].events \in {state.uncertainStarts[r].events, <<>>}
                   /\ state'.uncertainStarts[r].held => state.uncertainStarts[r].held
          BY <4>1, <4>5 DEF RouteAdded, Lessened, Within
        <4> QED BY <3>1, <4>5, <4>8, <4>9 DEF Lessened, StateMoves
      <3>4. UNCHANGED state
            \/ /\ state' = [st EXCEPT !.uncertainRuns = st.uncertainRuns \ {Starter.run}]
               /\ Unused(c) /\ NewConsumer(c, Starter.run, "recv")
        BY <2>9, Zenon DEF AttachRoute
      <3> QED BY <3>2, <3>3, <3>4
    <2>10. CASE Retain
      <3>1. Lessened(state, state')
        BY <2>10, FinishLess DEF Retain
      <3> QED BY <3>1, LessMoves
    <2>11. CASE RetainMark
      BY <2>11, <1>0, LessMoves DEF RetainMark
    <2>12. CASE RetainPick
      BY <2>12, <1>0, LessMoves DEF RetainPick
    <2>13. CASE RetainSend
      BY <2>13, <1>0, LessMoves DEF RetainSend
    <2> QED BY <1>1, <2>1, <2>2, <2>3, <2>4, <2>5, <2>6, <2>7, <2>8, <2>9, <2>10,
         <2>11, <2>12, <2>13 DEF StartStep
  <1>2. CASE PumpStep
    <2>1. CASE PumpDeliver
      BY <2>1, <1>0, LessMoves DEF PumpDeliver
    <2>2. CASE PumpBuffer
      <3>1. Kept(state, state', Head(stream))
        BY <2>2, <1>0, BufferKeeps DEF PumpBuffer
      <3> QED BY <2>2, <3>1 DEF Kept, StateMoves
    <2>3. CASE Disconnect
      BY <2>3, <1>0, LessMoves DEF Disconnect
    <2>4. CASE PumpTake
      BY <2>4, <1>0, LessMoves DEF PumpTake
    <2>5. ASSUME NEW r \in Runs, MarkAffected(r) PROVE StateMoves
      BY <2>5, <1>0, LessMoves DEF MarkAffected
    <2> QED BY <1>2, <2>1, <2>2, <2>3, <2>4, <2>5 DEF PumpStep
  <1>3. ASSUME NEW t \in Tasks, SharedStep(t) PROVE StateMoves
    <2>1. CASE EnsureEventPump(t)
      BY <2>1, <1>0, LessMoves DEF EnsureEventPump
    <2>2. CASE Send(t)
      BY <2>2, <1>0, LessMoves DEF Send
    <2>3. CASE OverflowClose(t)
      <3>1. Lessened(state, state')
        BY <2>3, CloseLess DEF OverflowClose
      <3> QED BY <3>1, LessMoves
    <2>4. CASE Mark(t)
      BY <2>4, <1>0, LessMoves DEF Mark
    <2>5. CASE MarkWrite(t)
      BY <2>5, <1>0, LessMoves DEF MarkWrite
    <2>6. CASE FlagUncertain(t)
      <3>1. state.uncertainRuns \cup {task[t].run} \in SUBSET Runs
        BY <2>6 DEF FlagUncertain, StateInv, State
      <3>2. Lessened(state, [state EXCEPT !.uncertainRuns = state.uncertainRuns \cup {task[t].run}])
        BY <3>1, AsideLess
      <3> QED BY <2>6, <3>2, <1>0, LessMoves DEF FlagUncertain
    <2> QED BY <1>3, <2>1, <2>2, <2>3, <2>4, <2>5, <2>6 DEF SharedStep
  <1>4. ASSUME NEW c \in Consumers, ConsumerStep(c) PROVE StateMoves
    <2>1. CASE TakeEvent(c)
      BY <2>1, <1>0, LessMoves DEF TakeEvent
    <2>2. CASE AppendItem(c)
      BY <2>2, <1>0, LessMoves DEF AppendItem
    <2>3. CASE RecordApproval(c)
      BY <2>3, <1>0, LessMoves DEF RecordApproval
    <2>4. CASE RegisterApproval(c)
      <3> DEFINE asks == state.approvals \cup {a \in Approvals :
                           /\ approval[a].run = consumers[c].run
                           /\ approval[a].request = consumers[c].event.n}
      <3>1. asks \in SUBSET Approvals
        BY DEF StateInv, State
      <3>2. state' = [state EXCEPT !.approvals = asks]
        BY <2>4 DEF RegisterApproval
      <3> HIDE DEF asks
      <3> QED BY <3>1, <1>0, <3>2, AsideLess, LessMoves
    <2>5. CASE ApplyTerminal(c)
      BY <2>5, <1>0, LessMoves DEF ApplyTerminal
    <2>6. CASE ConsumerFails(c)
      BY <2>6, <1>0, LessMoves DEF ConsumerFails
    <2>7. CASE ChannelEnds(c)
      BY <2>7, <1>0, LessMoves DEF ChannelEnds
    <2>8. CASE ConsumerCloses(c)
      <3>1. Lessened(state, state')
        BY <2>8, CloseLess DEF ConsumerCloses
      <3> QED BY <3>1, LessMoves
    <2> QED BY <1>4, <2>1, <2>2, <2>3, <2>4, <2>5, <2>6, <2>7, <2>8 DEF ConsumerStep
  <1>5. ASSUME NEW t \in Clients, ClientStep(t) PROVE StateMoves
    <2> t \in Tasks
      BY DEF Tasks
    <2>1. CASE Reconnect(t)
      BY <2>1, <1>0, LessMoves DEF Reconnect
    <2>2. CASE CheckAttached(t)
      <3> DEFINE runs == state.uncertainRuns \ {task[t].run}
      <3>1. runs \in SUBSET Runs
        BY DEF StateInv, State
      <3>2. state' = state \/ state' = [state EXCEPT !.uncertainRuns = runs]
        BY <2>2 DEF CheckAttached
      <3> HIDE DEF runs
      <3>3. Lessened(state, [state EXCEPT !.uncertainRuns = runs])
        BY <3>1, AsideLess
      <3> QED BY <1>0, <3>2, <3>3, LessMoves
    <2>3. CASE LoadForReattach(t)
      BY <2>3, <1>0, LessMoves DEF LoadForReattach
    <2>4. ASSUME NEW c \in Consumers, PrepareReattach(t, c) PROVE StateMoves
      <3>1. task[t].run \in Runs /\ task[t].run \in Named
        BY <2>4 DEF PrepareReattach, Named
      <3>2. task[t].restored \in [Approvals -> Decisions \cup {None, "asked"}]
        BY DEF TypeOK, Task
      <3>3. RouteAdded(state, state', task[t].run, c)
        BY <2>4, <3>1, <3>2, PrepareAdds DEF PrepareReattach
      <3> QED BY <2>4, <3>1, <3>3, AddMoves DEF PrepareReattach
    <2>5. CASE Promote(t)
      BY <2>5, <1>0, LessMoves DEF Promote
    <2>6. CASE Unroute(t)
      <3>1. Lessened(state, state')
        BY <2>6, RemoveLess DEF Unroute
      <3> QED BY <3>1, LessMoves
    <2>7. CASE ActivateReattach(t)
      <3> DEFINE runs == state.uncertainRuns \ {task[t].run}
      <3>1. runs \in SUBSET Runs
        BY DEF StateInv, State
      <3>2. state' = state \/ state' = [state EXCEPT !.uncertainRuns = runs]
        BY <2>7 DEF ActivateReattach
      <3> HIDE DEF runs
      <3>3. Lessened(state, [state EXCEPT !.uncertainRuns = runs])
        BY <3>1, AsideLess
      <3> QED BY <1>0, <3>2, <3>3, LessMoves
    <2>8. CASE CollectUncertain(t)
      <3>1. Lessened(state, state')
        BY <2>8, CollectLess DEF CollectUncertain
      <3> QED BY <3>1, LessMoves
    <2>9. CASE CommandReturns(t)
      BY <2>9, <1>0, LessMoves DEF CommandReturns
    <2>10. CASE OutcomeUnknown(t)
      BY <2>10, <1>0, LessMoves DEF OutcomeUnknown
    <2>11. CASE BeginResponse(t)
      BY <2>11, <1>0, LessMoves DEF BeginResponse
    <2>12. CASE RememberResponse(t)
      <3> DEFINE responses == [state.responses EXCEPT ![task[t].approval] = task[t].decision]
      <3>1. task[t].decision \in Decisions
        BY <2>12 DEF RememberResponse, AnswersInv, Answering
      <3>2. responses \in [Approvals -> Decisions \cup {None}]
        BY <3>1 DEF StateInv, State
      <3>3. state' = [state EXCEPT !.responses = responses]
        BY <2>12 DEF RememberResponse
      <3> HIDE DEF responses
      <3> QED BY <3>2, <3>3, AsideLess, LessMoves
    <2>13. CASE Respond(t)
      BY <2>13, <1>0, LessMoves DEF Respond
    <2>14. CASE ConfirmResponse(t)
      BY <2>14, <1>0, LessMoves DEF ConfirmResponse
    <2>15. CASE ForgetApproval(t)
      <3> DEFINE responses == [state.responses EXCEPT ![task[t].approval] = None]
                 asks == state.approvals \ {task[t].approval}
      <3>1. responses \in [Approvals -> Decisions \cup {None}] /\ asks \in SUBSET Approvals
        BY DEF StateInv, State
      <3>2. state' = [state EXCEPT !.approvals = asks, !.responses = responses]
        BY <2>15, Zenon DEF ForgetApproval
      <3> HIDE DEF responses, asks
      <3> QED BY <3>1, <1>0, <3>2, AsideLess, LessMoves
    <2> QED BY <1>5, <2>1, <2>2, <2>3, <2>4, <2>5, <2>6, <2>7, <2>8, <2>9, <2>10,
         <2>11, <2>12, <2>13, <2>14, <2>15 DEF ClientStep
  <1>6. CASE StartupStep
    <2>1. ASSUME NEW r \in Runs, StartupDowngrade(r) PROVE StateMoves
      <3>1. state' \in {state, WithoutPlans}
        BY <2>1 DEF StartupDowngrade
      <3> QED BY <3>1, <1>0, PlansLess, LessMoves
    <2>2. ASSUME NEW r \in Runs, NEW c \in Consumers, StartupPrepare(r, c) PROVE StateMoves
      <3>1. r \in Named
        BY <2>2 DEF StartupPrepare, Named
      <3>2. RouteAdded(state, state', r, c)
        BY <2>2, <1>0, RequestsType, PrepareAdds DEF StartupPrepare
      <3> QED BY <2>2, <3>1, <3>2, AddMoves DEF StartupPrepare
    <2>3. CASE StartupFails
      <3>1. state' \in {state, WithoutPlans}
        BY <2>3 DEF StartupFails
      <3> QED BY <3>1, <1>0, PlansLess, LessMoves
    <2>4. ASSUME NEW c \in Consumers, StartupActivate(c) PROVE StateMoves
      <3> DEFINE runs == state.uncertainRuns \ {consumers[c].run}
      <3>1. runs \in SUBSET Runs
        BY DEF StateInv, State
      <3>2. state' = [state EXCEPT !.uncertainRuns = runs]
        BY <2>4 DEF StartupActivate
      <3> HIDE DEF runs
      <3> QED BY <3>1, <1>0, <3>2, AsideLess, LessMoves
    <2>5. CASE StartupDone
      BY <2>5, <1>0, LessMoves DEF StartupDone
    <2> QED BY <1>6, <2>1, <2>2, <2>3, <2>4, <2>5 DEF StartupStep
  <1>7. CASE Environment
    <2>1. ASSUME NEW r \in Runs, StartRun(r) PROVE StateMoves
      BY <2>1, <1>0, LessMoves DEF StartRun
    <2>2. ASSUME NEW t \in Clients, NEW r \in Runs, ReconcileRun(t, r) PROVE StateMoves
      BY <2>2, <1>0, LessMoves DEF ReconcileRun
    <2>3. ASSUME NEW t \in Clients, NEW r \in Runs, Command(t, r) PROVE StateMoves
      BY <2>3, <1>0, LessMoves DEF Command
    <2>4. ASSUME NEW t \in Clients, NEW a \in Approvals, NEW d \in Decisions, ResolveApproval(t, a, d)
          PROVE  StateMoves
      BY <2>4, <1>0, LessMoves DEF ResolveApproval
    <2>5. ASSUME NEW r \in Runs, Accept(r) PROVE StateMoves
      BY <2>5, <1>0, LessMoves DEF Accept
    <2>6. ASSUME NEW r \in Runs, NEW kind \in EmitKinds, Emit(r, kind) PROVE StateMoves
      BY <2>6, <1>0, LessMoves DEF Emit
    <2>7. CASE PumpFail
      <3>1. Lessened(state, state')
        BY <2>7, EmptyLess DEF PumpFail
      <3> QED BY <3>1, LessMoves
    <2>8. CASE Crash
      <3>1. Lessened(state, state')
        BY <2>8, EmptyLess DEF Crash
      <3> QED BY <3>1, LessMoves
    <2> QED BY <1>7, <2>1, <2>2, <2>3, <2>4, <2>5, <2>6, <2>7, <2>8 DEF Environment
  <1>8. CASE UNCHANGED vars
    BY <1>0, <1>8, LessMoves DEF vars
  <1> QED BY ONLY [Next]_vars, <1>1, <1>2, <1>3, <1>4, <1>5, <1>6, <1>7, <1>8 DEF Next

-----------------------------------------------------------------------------
(* Channels: what an event that is sent, and a new consumer, change.       *)
LEMMA Enqueued ==
    ASSUME consumers \in [Consumers -> Consumer], NEW c, NEW e \in Event, Enqueue(c, e)
    PROVE  /\ consumers' \in [Consumers -> Consumer]
           /\ \A d \in Consumers :
                /\ consumers'[d].pc = consumers[d].pc /\ consumers'[d].run = consumers[d].run
                /\ consumers'[d].event = consumers[d].event
                /\ consumers'[d].queue = IF d = c THEN Append(consumers[c].queue, e)
                                         ELSE consumers[d].queue
  <1> USE DEF Enqueue
  <1>1. CASE c \in Consumers
    <2> DEFINE queue == Append(consumers[c].queue, e)
               new == [consumers[c] EXCEPT !.queue = queue]
    <2>1. consumers[c] \in Consumer /\ queue \in Seq(Event)
      BY <1>1 DEF Consumer
    <2>2. consumers' = [consumers EXCEPT ![c] = new]
      BY Zenon
    <2> HIDE DEF queue
    <2>3. /\ new \in Consumer /\ new.queue = queue /\ new.pc = consumers[c].pc
          /\ new.run = consumers[c].run /\ new.event = consumers[c].event
      BY <2>1 DEF Consumer
    <2> HIDE DEF new
    <2> QED BY <1>1, <2>2, <2>3 DEF queue
  <1>2. CASE c \notin Consumers
    BY <1>2
  <1> QED BY <1>1, <1>2

(* The first of some events is an event.                                   *)
LEMMA HeadType == \A todo \in Seq(Event) : todo # <<>> => Head(todo) \in Event
  OBVIOUS

(* A channel that is opened is empty.                                      *)
LEMMA Opened ==
    ASSUME consumers \in [Consumers -> Consumer], NEW c \in Consumers, NEW r \in Runs,
           NEW pc \in {"prepared", "recv"}, NewConsumer(c, r, pc)
    PROVE  /\ consumers' \in [Consumers -> Consumer]
           /\ \A d \in Consumers \ {c} : consumers'[d] = consumers[d]
           /\ consumers'[c].pc = pc /\ consumers'[c].run = r
           /\ consumers'[c].event = None /\ consumers'[c].queue = <<>>
  <1> DEFINE new == [Finished EXCEPT !.pc = pc, !.run = r]
  <1>1. new \in Consumer /\ new.pc = pc /\ new.run = r /\ new.event = None /\ new.queue = <<>>
    <2>1. <<>> \in Seq(Event) /\ 0 \in Nat /\ r \in Runs \cup {None}
            /\ None \in Event \cup {None} /\ None \in Runs \cup {None}
            /\ None \in RunStatus \cup {None}
      OBVIOUS
    <2>2. Finished \in Consumer
      BY <2>1, Zenon DEF Finished, Consumer
    <2>3. new \in Consumer
      BY <2>1, <2>2, Zenon DEF Consumer
    <2>4. new.pc = pc /\ new.run = r /\ new.event = None /\ new.queue = <<>>
      BY DEF Finished
    <2> QED BY <2>3, <2>4
  <1>2. consumers' = [consumers EXCEPT ![c] = new]
    BY DEF NewConsumer
  <1> HIDE DEF new
  <1> QED BY <1>1, <1>2

-----------------------------------------------------------------------------
(* Runs there are.                                                         *)

(* No run leaves the table.                                                *)
LEMMA RunsStay ==
    ASSUME Tabled, Transaction \/ UNCHANGED tableVars PROVE PresentRuns \subseteq PresentRuns'
  <1>1. ASSUME NEW r \in Runs, CreateRun(r) PROVE PresentRuns \subseteq PresentRuns'
    BY <1>1 DEF CreateRun, PresentRuns, Tabled
  <1>2. ASSUME NEW r \in Runs, NEW to \in RunStatus, NEW p \in Providers \cup {None},
               TransitionRun(r, runStatus[r], to, p)
        PROVE  PresentRuns \subseteq PresentRuns'
    BY <1>2, TransitionEffect DEF PresentRuns, RunStatus, Unsettled, Terminal
  <1>3. CASE UNCHANGED runStatus
    BY <1>3 DEF PresentRuns
  <1> QED BY <1>1, <1>2, <1>3
          DEF Transaction, Unconfirming, RecordPendingApproval, BeginApprovalResponse,
              ConfirmApprovalResponse, tableVars

(* Every step keeps that.                                                  *)
LEMMA PresentStep ==
    ASSUME TypeOK, SupervisorInv, Present, StatePresent, StateInv(state),
           [Next]_vars, PresentRuns \subseteq PresentRuns'
    PROVE  Present'
  <1> USE StateAssumption, NoneAssumption, SupervisorAssumption
  <1> USE DEF SupervisorInv, RunsInv, TasksOK, ConsumersOK, Present, Fields, Resting, Blank,
          Finished, At, Go, Done, Starter, ConsumerAt, ConsumerGo, storeVars, backVars,
          pumpVars, bootVars, innerVars, providerVars
  <1>1. CASE StartStep
    <2>1. CASE RegisterStart
      BY <2>1 DEF RegisterStart
    <2>2. CASE CallStart
      <3>0. Starter.run \in PresentRuns
        BY <2>2 DEF CallStart, Tasks
      <3>1. \A u \in Tasks : task'[u].pc \notin Resting => task'[u].run \in PresentRuns'
        BY <2>2, <3>0 DEF CallStart
      <3>2. \A d \in Consumers : consumers'[d].pc # "done" => consumers'[d].run \in PresentRuns'
        BY <2>2, <3>0 DEF CallStart
      <3>3. affected' \cup page' \subseteq PresentRuns'
        BY <2>2, <3>0 DEF CallStart
      <3>4. \A q \in Runs : provider'[q] # "none" => q \in PresentRuns'
        BY <2>2, <3>0 DEF CallStart
      <3> QED BY <3>1, <3>2, <3>3, <3>4
    <2>3. CASE StartAccepted
      BY <2>3 DEF StartAccepted
    <2>4. CASE StartUnknown
      BY <2>4 DEF StartUnknown
    <2>5. CASE StartRejected
      BY <2>5 DEF StartRejected
    <2>6. CASE MarkStart
      BY <2>6 DEF MarkStart
    <2>7. CASE BindStart
      BY <2>7 DEF BindStart
    <2>8. ASSUME NEW c \in Consumers, RouteStart(c) PROVE Present'
      <3>0. consumers \in [Consumers -> Consumer] /\ Starter.run \in PresentRuns /\ Starter.run \in Runs
        BY <2>8 DEF TypeOK, RouteStart, Tasks, PresentRuns
      <3>1. \A u \in Tasks : task'[u].pc \notin Resting => task'[u].run \in PresentRuns'
        BY <2>8, <3>0, Opened DEF RouteStart
      <3>2. \A d \in Consumers : consumers'[d].pc # "done" => consumers'[d].run \in PresentRuns'
        BY <2>8, <3>0, Opened DEF RouteStart
      <3>3. affected' \cup page' \subseteq PresentRuns'
        BY <2>8, <3>0, Opened DEF RouteStart
      <3>4. \A q \in Runs : provider'[q] # "none" => q \in PresentRuns'
        BY <2>8, <3>0, Opened DEF RouteStart
      <3> QED BY <3>1, <3>2, <3>3, <3>4
    <2>9. ASSUME NEW c \in Consumers, AttachRoute(c) PROVE Present'
      <3>0. consumers \in [Consumers -> Consumer] /\ Starter.run \in PresentRuns /\ Starter.run \in Runs
        BY <2>9 DEF TypeOK, AttachRoute, Tasks, PresentRuns
      <3>1. \A u \in Tasks : task'[u].pc \notin Resting => task'[u].run \in PresentRuns'
        BY <2>9, <3>0, Opened DEF AttachRoute, ReadFails
      <3>2. \A d \in Consumers : consumers'[d].pc # "done" => consumers'[d].run \in PresentRuns'
        BY <2>9, <3>0, Opened DEF AttachRoute, ReadFails
      <3>3. affected' \cup page' \subseteq PresentRuns'
        BY <2>9, <3>0, Opened DEF AttachRoute, ReadFails
      <3>4. \A q \in Runs : provider'[q] # "none" => q \in PresentRuns'
        BY <2>9, <3>0, Opened DEF AttachRoute, ReadFails
      <3> QED BY <3>1, <3>2, <3>3, <3>4
    <2>10. CASE Retain
      BY <2>10 DEF Retain
    <2>11. CASE RetainMark
      BY <2>11 DEF RetainMark
    <2>12. CASE RetainPick
      BY <2>12 DEF RetainPick
    <2>13. CASE RetainSend
      <3>0. /\ consumers \in [Consumers -> Consumer]
            /\ Starter.todo # <<>> => Head(Starter.todo) \in Event
        BY HeadType DEF TypeOK, Task, Tasks
      <3>1. \A u \in Tasks : task'[u].pc \notin Resting => task'[u].run \in PresentRuns'
        BY <2>13, <3>0, Enqueued DEF RetainSend
      <3>2. \A d \in Consumers : consumers'[d].pc # "done" => consumers'[d].run \in PresentRuns'
        BY <2>13, <3>0, Enqueued DEF RetainSend
      <3>3. affected' \cup page' \subseteq PresentRuns'
        BY <2>13, <3>0, Enqueued DEF RetainSend
      <3>4. \A q \in Runs : provider'[q] # "none" => q \in PresentRuns'
        BY <2>13, <3>0, Enqueued DEF RetainSend
      <3> QED BY <3>1, <3>2, <3>3, <3>4
    <2> QED BY <1>1, <2>1, <2>2, <2>3, <2>4, <2>5, <2>6, <2>7, <2>8, <2>9, <2>10,
         <2>11, <2>12, <2>13 DEF StartStep
  <1>2. CASE PumpStep
    <2>1. CASE PumpDeliver
      <3>0. /\ consumers \in [Consumers -> Consumer] /\ Head(stream) \in Event
            /\ state.routes[Head(stream).from] # None => Head(stream).from \in PresentRuns
        <4>1. Head(stream) \in Event /\ consumers \in [Consumers -> Consumer]
          BY <2>1, HeadType DEF TypeOK, PumpDeliver
        <4>2. Head(stream).from \in Runs
          BY <4>1 DEF Event
        <4> QED BY <4>1, <4>2 DEF StatePresent
      <3>1. \A u \in Tasks : task'[u].pc \notin Resting => task'[u].run \in PresentRuns'
        BY <2>1, <3>0, Enqueued DEF PumpDeliver
      <3>2. \A d \in Consumers : consumers'[d].pc # "done" => consumers'[d].run \in PresentRuns'
        BY <2>1, <3>0, Enqueued DEF PumpDeliver
      <3>3. affected' \cup page' \subseteq PresentRuns'
        BY <2>1, <3>0, Enqueued DEF PumpDeliver
      <3>4. \A q \in Runs : provider'[q] # "none" => q \in PresentRuns'
        BY <2>1, <3>0, Enqueued DEF PumpDeliver
      <3> QED BY <3>1, <3>2, <3>3, <3>4
    <2>2. CASE PumpBuffer
      BY <2>2 DEF PumpBuffer
    <2>3. CASE Disconnect
      BY <2>3 DEF Disconnect
    <2>4. CASE PumpTake
      BY <2>4 DEF PumpTake
    <2>5. ASSUME NEW r \in Runs, MarkAffected(r) PROVE Present'
      BY <2>5 DEF MarkAffected
    <2> QED BY <1>2, <2>1, <2>2, <2>3, <2>4, <2>5 DEF PumpStep
  <1>3. ASSUME NEW t \in Tasks, SharedStep(t) PROVE Present'
    <2>1. CASE EnsureEventPump(t)
      <3>1. \A u \in Tasks : task'[u].pc \notin Resting => task'[u].run \in PresentRuns'
        BY <2>1 DEF EnsureEventPump, AfterPump
      <3>2. \A d \in Consumers : consumers'[d].pc # "done" => consumers'[d].run \in PresentRuns'
        BY <2>1 DEF EnsureEventPump, AfterPump
      <3>3. affected' \cup page' \subseteq PresentRuns'
        BY <2>1 DEF EnsureEventPump, AfterPump
      <3>4. \A q \in Runs : provider'[q] # "none" => q \in PresentRuns'
        BY <2>1 DEF EnsureEventPump, AfterPump
      <3> QED BY <3>1, <3>2, <3>3, <3>4
    <2>2. CASE Send(t)
      <3>0. /\ consumers \in [Consumers -> Consumer]
            /\ task[t].todo # <<>> => Head(task[t].todo) \in Event
        BY HeadType DEF TypeOK, Task
      <3>1. \A u \in Tasks : task'[u].pc \notin Resting => task'[u].run \in PresentRuns'
        BY <2>2, <3>0, Enqueued DEF Send
      <3>2. \A d \in Consumers : consumers'[d].pc # "done" => consumers'[d].run \in PresentRuns'
        BY <2>2, <3>0, Enqueued DEF Send
      <3>3. affected' \cup page' \subseteq PresentRuns'
        BY <2>2, <3>0, Enqueued DEF Send
      <3>4. \A q \in Runs : provider'[q] # "none" => q \in PresentRuns'
        BY <2>2, <3>0, Enqueued DEF Send
      <3> QED BY <3>1, <3>2, <3>3, <3>4
    <2>3. CASE OverflowClose(t)
      BY <2>3 DEF OverflowClose
    <2>4. CASE Mark(t)
      BY <2>4 DEF Mark
    <2>5. CASE MarkWrite(t)
      BY <2>5 DEF MarkWrite
    <2>6. CASE FlagUncertain(t)
      BY <2>6 DEF FlagUncertain
    <2> QED BY <1>3, <2>1, <2>2, <2>3, <2>4, <2>5, <2>6 DEF SharedStep
  <1>4. ASSUME NEW c \in Consumers, ConsumerStep(c) PROVE Present'
    <2>1. CASE TakeEvent(c)
      <3>1. \A u \in Tasks : task'[u].pc \notin Resting => task'[u].run \in PresentRuns'
        BY <2>1 DEF TakeEvent, AfterTake
      <3>2. \A d \in Consumers : consumers'[d].pc # "done" => consumers'[d].run \in PresentRuns'
        BY <2>1 DEF TakeEvent, AfterTake
      <3>3. affected' \cup page' \subseteq PresentRuns'
        BY <2>1 DEF TakeEvent, AfterTake
      <3>4. \A q \in Runs : provider'[q] # "none" => q \in PresentRuns'
        BY <2>1 DEF TakeEvent, AfterTake
      <3> QED BY <3>1, <3>2, <3>3, <3>4
    <2>2. CASE AppendItem(c)
      BY <2>2 DEF AppendItem
    <2>3. CASE RecordApproval(c)
      BY <2>3 DEF RecordApproval
    <2>4. CASE RegisterApproval(c)
      BY <2>4 DEF RegisterApproval
    <2>5. CASE ApplyTerminal(c)
      BY <2>5 DEF ApplyTerminal
    <2>6. CASE ConsumerFails(c)
      BY <2>6 DEF ConsumerFails
    <2>7. CASE ChannelEnds(c)
      BY <2>7 DEF ChannelEnds
    <2>8. CASE ConsumerCloses(c)
      BY <2>8 DEF ConsumerCloses
    <2> QED BY <1>4, <2>1, <2>2, <2>3, <2>4, <2>5, <2>6, <2>7, <2>8 DEF ConsumerStep
  <1>5. ASSUME NEW t \in Clients, ClientStep(t) PROVE Present'
    <2> t \in Tasks
      BY DEF Tasks
    <2>1. CASE Reconnect(t)
      BY <2>1 DEF Reconnect
    <2>2. CASE CheckAttached(t)
      BY <2>2 DEF CheckAttached
    <2>3. CASE LoadForReattach(t)
      BY <2>3 DEF LoadForReattach
    <2>4. ASSUME NEW c \in Consumers, PrepareReattach(t, c) PROVE Present'
      <3>0. consumers \in [Consumers -> Consumer] /\ task[t].run \in PresentRuns /\ task[t].run \in Runs
        BY <2>4 DEF TypeOK, PrepareReattach, PresentRuns
      <3>1. \A u \in Tasks : task'[u].pc \notin Resting => task'[u].run \in PresentRuns'
        BY <2>4, <3>0, Opened DEF PrepareReattach
      <3>2. \A d \in Consumers : consumers'[d].pc # "done" => consumers'[d].run \in PresentRuns'
        BY <2>4, <3>0, Opened DEF PrepareReattach
      <3>3. affected' \cup page' \subseteq PresentRuns'
        BY <2>4, <3>0, Opened DEF PrepareReattach
      <3>4. \A q \in Runs : provider'[q] # "none" => q \in PresentRuns'
        BY <2>4, <3>0, Opened DEF PrepareReattach
      <3> QED BY <3>1, <3>2, <3>3, <3>4
    <2>5. CASE Promote(t)
      BY <2>5 DEF Promote
    <2>6. CASE Unroute(t)
      BY <2>6 DEF Unroute
    <2>7. CASE ActivateReattach(t)
      BY <2>7 DEF ActivateReattach
    <2>8. CASE CollectUncertain(t)
      BY <2>8 DEF CollectUncertain
    <2>9. CASE CommandReturns(t)
      BY <2>9 DEF CommandReturns
    <2>10. CASE OutcomeUnknown(t)
      BY <2>10 DEF OutcomeUnknown
    <2>11. CASE BeginResponse(t)
      BY <2>11 DEF BeginResponse
    <2>12. CASE RememberResponse(t)
      BY <2>12 DEF RememberResponse
    <2>13. CASE Respond(t)
      BY <2>13 DEF Respond
    <2>14. CASE ConfirmResponse(t)
      BY <2>14 DEF ConfirmResponse
    <2>15. CASE ForgetApproval(t)
      BY <2>15 DEF ForgetApproval
    <2> QED BY <1>5, <2>1, <2>2, <2>3, <2>4, <2>5, <2>6, <2>7, <2>8, <2>9, <2>10,
         <2>11, <2>12, <2>13, <2>14, <2>15 DEF ClientStep
  <1>6. CASE StartupStep
    <2>1. ASSUME NEW r \in Runs, StartupDowngrade(r) PROVE Present'
      <3>1. \A u \in Tasks : task'[u].pc \notin Resting => task'[u].run \in PresentRuns'
        BY <2>1 DEF StartupDowngrade, DropReceivers
      <3>2. \A d \in Consumers : consumers'[d].pc # "done" => consumers'[d].run \in PresentRuns'
        BY <2>1 DEF StartupDowngrade, DropReceivers
      <3>3. affected' \cup page' \subseteq PresentRuns'
        BY <2>1 DEF StartupDowngrade, DropReceivers
      <3>4. \A q \in Runs : provider'[q] # "none" => q \in PresentRuns'
        BY <2>1 DEF StartupDowngrade, DropReceivers
      <3> QED BY <3>1, <3>2, <3>3, <3>4
    <2>2. ASSUME NEW r \in Runs, NEW c \in Consumers, StartupPrepare(r, c) PROVE Present'
      <3>0. consumers \in [Consumers -> Consumer] /\ r \in PresentRuns
        BY <2>2 DEF TypeOK, StartupPrepare
      <3>1. \A u \in Tasks : task'[u].pc \notin Resting => task'[u].run \in PresentRuns'
        BY <2>2, Opened, <3>0 DEF StartupPrepare
      <3>2. \A d \in Consumers : consumers'[d].pc # "done" => consumers'[d].run \in PresentRuns'
        BY <2>2, Opened, <3>0 DEF StartupPrepare
      <3>3. affected' \cup page' \subseteq PresentRuns'
        BY <2>2, Opened, <3>0 DEF StartupPrepare
      <3>4. \A q \in Runs : provider'[q] # "none" => q \in PresentRuns'
        BY <2>2, Opened, <3>0 DEF StartupPrepare
      <3> QED BY <3>1, <3>2, <3>3, <3>4
    <2>3. CASE StartupFails
      <3>1. \A u \in Tasks : task'[u].pc \notin Resting => task'[u].run \in PresentRuns'
        BY <2>3 DEF StartupFails, DropReceivers
      <3>2. \A d \in Consumers : consumers'[d].pc # "done" => consumers'[d].run \in PresentRuns'
        BY <2>3 DEF StartupFails, DropReceivers
      <3>3. affected' \cup page' \subseteq PresentRuns'
        BY <2>3 DEF StartupFails, DropReceivers
      <3>4. \A q \in Runs : provider'[q] # "none" => q \in PresentRuns'
        BY <2>3 DEF StartupFails, DropReceivers
      <3> QED BY <3>1, <3>2, <3>3, <3>4
    <2>4. ASSUME NEW c \in Consumers, StartupActivate(c) PROVE Present'
      <3>1. \A u \in Tasks : task'[u].pc \notin Resting => task'[u].run \in PresentRuns'
        BY <2>4 DEF StartupActivate, Prepared
      <3>2. \A d \in Consumers : consumers'[d].pc # "done" => consumers'[d].run \in PresentRuns'
        BY <2>4 DEF StartupActivate, Prepared
      <3>3. affected' \cup page' \subseteq PresentRuns'
        BY <2>4 DEF StartupActivate, Prepared
      <3>4. \A q \in Runs : provider'[q] # "none" => q \in PresentRuns'
        BY <2>4 DEF StartupActivate, Prepared
      <3> QED BY <3>1, <3>2, <3>3, <3>4
    <2>5. CASE StartupDone
      BY <2>5 DEF StartupDone
    <2> QED BY <1>6, <2>1, <2>2, <2>3, <2>4, <2>5 DEF StartupStep
  <1>7. CASE Environment
    <2>1. ASSUME NEW r \in Runs, StartRun(r) PROVE Present'
      <3>0. r \in PresentRuns'
        BY <2>1 DEF StartRun, CreateRun, PresentRuns, TypeOK, TablesTypeOK
      <3>1. \A u \in Tasks : task'[u].pc \notin Resting => task'[u].run \in PresentRuns'
        BY <2>1, <3>0 DEF StartRun
      <3>2. \A d \in Consumers : consumers'[d].pc # "done" => consumers'[d].run \in PresentRuns'
        BY <2>1, <3>0 DEF StartRun
      <3>3. affected' \cup page' \subseteq PresentRuns'
        BY <2>1, <3>0 DEF StartRun
      <3>4. \A q \in Runs : provider'[q] # "none" => q \in PresentRuns'
        BY <2>1, <3>0 DEF StartRun
      <3> QED BY <3>1, <3>2, <3>3, <3>4
    <2>2. ASSUME NEW t \in Clients, NEW r \in Runs, ReconcileRun(t, r) PROVE Present'
      <3>1. \A u \in Tasks : task'[u].pc \notin Resting => task'[u].run \in PresentRuns'
        BY <2>2 DEF ReconcileRun, PresentRuns
      <3>2. \A d \in Consumers : consumers'[d].pc # "done" => consumers'[d].run \in PresentRuns'
        BY <2>2 DEF ReconcileRun, PresentRuns
      <3>3. affected' \cup page' \subseteq PresentRuns'
        BY <2>2 DEF ReconcileRun, PresentRuns
      <3>4. \A q \in Runs : provider'[q] # "none" => q \in PresentRuns'
        BY <2>2 DEF ReconcileRun, PresentRuns
      <3> QED BY <3>1, <3>2, <3>3, <3>4
    <2>3. ASSUME NEW t \in Clients, NEW r \in Runs, Command(t, r) PROVE Present'
      <3>0. r \in PresentRuns
        BY <2>3 DEF Command, ActiveRun, StatePresent, StateInv, Routed
      <3>1. \A u \in Tasks : task'[u].pc \notin Resting => task'[u].run \in PresentRuns'
        BY <2>3, <3>0 DEF Command
      <3>2. \A d \in Consumers : consumers'[d].pc # "done" => consumers'[d].run \in PresentRuns'
        BY <2>3, <3>0 DEF Command
      <3>3. affected' \cup page' \subseteq PresentRuns'
        BY <2>3, <3>0 DEF Command
      <3>4. \A q \in Runs : provider'[q] # "none" => q \in PresentRuns'
        BY <2>3, <3>0 DEF Command
      <3> QED BY <3>1, <3>2, <3>3, <3>4
    <2>4. ASSUME NEW t \in Clients, NEW a \in Approvals, NEW d \in Decisions, ResolveApproval(t, a, d)
          PROVE  Present'
      <3>0. approval[a].run \in PresentRuns
        BY <2>4 DEF ResolveApproval, ActiveRun, StatePresent, StateInv, Routed
      <3>1. \A u \in Tasks : task'[u].pc \notin Resting => task'[u].run \in PresentRuns'
        BY <2>4, <3>0 DEF ResolveApproval
      <3>2. \A e \in Consumers : consumers'[e].pc # "done" => consumers'[e].run \in PresentRuns'
        BY <2>4, <3>0 DEF ResolveApproval
      <3>3. affected' \cup page' \subseteq PresentRuns'
        BY <2>4, <3>0 DEF ResolveApproval
      <3>4. \A q \in Runs : provider'[q] # "none" => q \in PresentRuns'
        BY <2>4, <3>0 DEF ResolveApproval
      <3> QED BY <3>1, <3>2, <3>3, <3>4
    <2>5. ASSUME NEW r \in Runs, Accept(r) PROVE Present'
      BY <2>5 DEF Accept
    <2>6. ASSUME NEW r \in Runs, NEW kind \in EmitKinds, Emit(r, kind) PROVE Present'
      BY <2>6 DEF Emit
    <2>7. CASE PumpFail
      <3>0. state.runs \subseteq PresentRuns
        BY DEF StatePresent, StateInv, Routed
      <3>1. \A u \in Tasks : task'[u].pc \notin Resting => task'[u].run \in PresentRuns'
        BY <2>7, <3>0 DEF PumpFail
      <3>2. \A d \in Consumers : consumers'[d].pc # "done" => consumers'[d].run \in PresentRuns'
        BY <2>7, <3>0 DEF PumpFail
      <3>3. affected' \cup page' \subseteq PresentRuns'
        BY <2>7, <3>0 DEF PumpFail
      <3>4. \A q \in Runs : provider'[q] # "none" => q \in PresentRuns'
        BY <2>7, <3>0 DEF PumpFail
      <3> QED BY <3>1, <3>2, <3>3, <3>4
    <2>8. CASE Crash
      <3>1. \A u \in Tasks : task'[u].pc \notin Resting => task'[u].run \in PresentRuns'
        BY <2>8 DEF Crash, NeedsReconciliation, PresentRuns, Unsettled
      <3>2. \A d \in Consumers : consumers'[d].pc # "done" => consumers'[d].run \in PresentRuns'
        BY <2>8 DEF Crash, NeedsReconciliation, PresentRuns, Unsettled
      <3>3. affected' \cup page' \subseteq PresentRuns'
        BY <2>8 DEF Crash, NeedsReconciliation, PresentRuns, Unsettled
      <3>4. \A q \in Runs : provider'[q] # "none" => q \in PresentRuns'
        BY <2>8 DEF Crash, NeedsReconciliation, PresentRuns, Unsettled
      <3> QED BY <3>1, <3>2, <3>3, <3>4
    <2> QED BY <1>7, <2>1, <2>2, <2>3, <2>4, <2>5, <2>6, <2>7, <2>8 DEF Environment
  <1>8. CASE UNCHANGED vars
    BY <1>8 DEF vars, tableVars
  <1> QED BY ONLY [Next]_vars, <1>1, <1>2, <1>3, <1>4, <1>5, <1>6, <1>7, <1>8 DEF Next

-----------------------------------------------------------------------------
(* The types of tasks.                                                     *)

(* Setting a whole task.                                                   *)
LEMMA SetType ==
    ASSUME Typed, NEW t \in Tasks, NEW x \in Task, task' = [task EXCEPT ![t] = x]
    PROVE  Typed'
  BY DEF Typed

(* A task that rests.                                                      *)
LEMMA BlankType == Blank \in Task /\ [Blank EXCEPT !.pc = "next"] \in Task
  <1>1. /\ <<>> \in Seq(Event) /\ FALSE \in BOOLEAN
        /\ None \in Runs \cup {None} /\ None \in RunStatus \cup {None}
        /\ None \in Consumers \cup {None} /\ None \in Approvals \cup {None}
        /\ None \in Decisions \cup {None}
        /\ [a \in Approvals |-> None] \in [Approvals -> Decisions \cup {None, "asked"}]
        /\ "idle" \in Steps /\ "next" \in Steps
    BY DEF Steps
  <1>2. Blank \in Task
    BY <1>1, Zenon DEF Blank, Task
  <1> QED BY <1>1, <1>2, Zenon DEF Task

(* A task goes on.                                                         *)
LEMMA GoType ==
    ASSUME Typed, NEW t \in Tasks PROVE \A pc \in Steps : Go(t, pc) => Typed'
  <1> SUFFICES ASSUME NEW pc \in Steps, Go(t, pc) PROVE Typed'
    OBVIOUS
  <1> DEFINE x == [task[t] EXCEPT !.pc = pc]
  <1>1. task[t] \in Task
    BY DEF Typed
  <1>2. x \in Task
    BY <1>1, Zenon DEF Task
  <1>3. task' = [task EXCEPT ![t] = x]
    BY Zenon DEF Go
  <1> HIDE DEF x
  <1> QED BY <1>2, <1>3, SetType

(* A task is through.                                                      *)
LEMMA DoneType ==
    ASSUME Typed, NEW t \in Tasks, Done(t) PROVE Typed'
  <1> DEFINE x == IF t = "pump" THEN [Blank EXCEPT !.pc = "next"] ELSE Blank
  <1>1. x \in Task
    BY BlankType
  <1>2. task' = [task EXCEPT ![t] = x]
    BY DEF Done
  <1> HIDE DEF x
  <1> QED BY <1>1, <1>2, SetType

(* A task that gets new values of some fields.                             *)
LEMMA FieldsType ==
    ASSUME Typed, NEW t \in Tasks
    PROVE
        /\ \A todo \in Seq(Event) :
            task' = [task EXCEPT ![t].todo = todo] => Typed'
        /\ \A pc \in Steps, todo \in Seq(Event) :
            task' = [task EXCEPT ![t].pc = pc, ![t].todo = todo] => Typed'
        /\ \A pc \in Steps, r \in Runs \cup {None} :
            task' = [task EXCEPT ![t].pc = pc, ![t].run = r] => Typed'
        /\ \A pc \in Steps, s \in RunStatus \cup {None} :
            task' = [task EXCEPT ![t].pc = pc, ![t].seen = s] => Typed'
        /\ \A pc \in Steps, c \in Consumers \cup {None} :
            task' = [task EXCEPT ![t].pc = pc, ![t].chan = c] => Typed'
        /\ \A c \in Consumers \cup {None}, pc \in Steps :
            task' = [task EXCEPT ![t].chan = c, ![t].pc = pc] => Typed'
        /\ \A pc \in Steps, q \in [Approvals -> Decisions \cup {None, "asked"}] :
            task' = [task EXCEPT ![t].pc = pc, ![t].restored = q] => Typed'
        /\ \A pc \in Steps, r \in Runs \cup {None}, s \in RunStatus \cup {None} :
            task' = [task EXCEPT ![t].pc = pc, ![t].run = r, ![t].seen = s] => Typed'
        /\ \A pc \in Steps, c \in Consumers \cup {None}, todo \in Seq(Event) :
            task' = [task EXCEPT ![t].pc = pc, ![t].chan = c, ![t].todo = todo] => Typed'
        /\ \A pc \in Steps, todo \in Seq(Event), o \in BOOLEAN :
            task' = [task EXCEPT ![t].pc = pc, ![t].todo = todo, ![t].overflow = o] => Typed'
        /\ \A pc \in Steps, q \in [Approvals -> Decisions \cup {None, "asked"}], c \in Consumers \cup {None} :
            task' = [task EXCEPT ![t].pc = pc, ![t].restored = q, ![t].chan = c] => Typed'
        /\ \A pc \in Steps, c \in Consumers \cup {None}, todo \in Seq(Event), o \in BOOLEAN :
            task' = [task EXCEPT ![t].pc = pc, ![t].chan = c, ![t].todo = todo, ![t].overflow = o] => Typed'
  <1>0. task[t] \in Task
    BY DEF Typed
  <1>1. ASSUME NEW todo \in Seq(Event),
               task' = [task EXCEPT ![t].todo = todo]
        PROVE  Typed'
    <2> DEFINE x == [task[t] EXCEPT !.todo = todo]
    <2>1. x \in Task
      BY <1>0, Zenon DEF Task
    <2>2. task' = [task EXCEPT ![t] = x]
      BY <1>1, Zenon
    <2> HIDE DEF x
    <2> QED BY <2>1, <2>2, SetType
  <1>2. ASSUME NEW pc \in Steps,
               NEW todo \in Seq(Event),
               task' = [task EXCEPT ![t].pc = pc, ![t].todo = todo]
        PROVE  Typed'
    <2> DEFINE x == [task[t] EXCEPT !.pc = pc, !.todo = todo]
    <2>1. x \in Task
      BY <1>0, Zenon DEF Task
    <2>2. task' = [task EXCEPT ![t] = x]
      BY <1>2, Zenon
    <2> HIDE DEF x
    <2> QED BY <2>1, <2>2, SetType
  <1>3. ASSUME NEW pc \in Steps,
               NEW r \in Runs \cup {None},
               task' = [task EXCEPT ![t].pc = pc, ![t].run = r]
        PROVE  Typed'
    <2> DEFINE x == [task[t] EXCEPT !.pc = pc, !.run = r]
    <2>1. x \in Task
      BY <1>0, Zenon DEF Task
    <2>2. task' = [task EXCEPT ![t] = x]
      BY <1>3, Zenon
    <2> HIDE DEF x
    <2> QED BY <2>1, <2>2, SetType
  <1>4. ASSUME NEW pc \in Steps,
               NEW s \in RunStatus \cup {None},
               task' = [task EXCEPT ![t].pc = pc, ![t].seen = s]
        PROVE  Typed'
    <2> DEFINE x == [task[t] EXCEPT !.pc = pc, !.seen = s]
    <2>1. x \in Task
      BY <1>0, Zenon DEF Task
    <2>2. task' = [task EXCEPT ![t] = x]
      BY <1>4, Zenon
    <2> HIDE DEF x
    <2> QED BY <2>1, <2>2, SetType
  <1>5. ASSUME NEW pc \in Steps,
               NEW c \in Consumers \cup {None},
               task' = [task EXCEPT ![t].pc = pc, ![t].chan = c]
        PROVE  Typed'
    <2> DEFINE x == [task[t] EXCEPT !.pc = pc, !.chan = c]
    <2>1. x \in Task
      BY <1>0, Zenon DEF Task
    <2>2. task' = [task EXCEPT ![t] = x]
      BY <1>5, Zenon
    <2> HIDE DEF x
    <2> QED BY <2>1, <2>2, SetType
  <1>6. ASSUME NEW c \in Consumers \cup {None},
               NEW pc \in Steps,
               task' = [task EXCEPT ![t].chan = c, ![t].pc = pc]
        PROVE  Typed'
    <2> DEFINE x == [task[t] EXCEPT !.chan = c, !.pc = pc]
    <2>1. x \in Task
      BY <1>0, Zenon DEF Task
    <2>2. task' = [task EXCEPT ![t] = x]
      BY <1>6, Zenon
    <2> HIDE DEF x
    <2> QED BY <2>1, <2>2, SetType
  <1>7. ASSUME NEW pc \in Steps,
               NEW q \in [Approvals -> Decisions \cup {None, "asked"}],
               task' = [task EXCEPT ![t].pc = pc, ![t].restored = q]
        PROVE  Typed'
    <2> DEFINE x == [task[t] EXCEPT !.pc = pc, !.restored = q]
    <2>1. x \in Task
      BY <1>0, Zenon DEF Task
    <2>2. task' = [task EXCEPT ![t] = x]
      BY <1>7, Zenon
    <2> HIDE DEF x
    <2> QED BY <2>1, <2>2, SetType
  <1>8. ASSUME NEW pc \in Steps,
               NEW r \in Runs \cup {None},
               NEW s \in RunStatus \cup {None},
               task' = [task EXCEPT ![t].pc = pc, ![t].run = r, ![t].seen = s]
        PROVE  Typed'
    <2> DEFINE x == [task[t] EXCEPT !.pc = pc, !.run = r, !.seen = s]
    <2>1. x \in Task
      BY <1>0, Zenon DEF Task
    <2>2. task' = [task EXCEPT ![t] = x]
      BY <1>8, Zenon
    <2> HIDE DEF x
    <2> QED BY <2>1, <2>2, SetType
  <1>9. ASSUME NEW pc \in Steps,
               NEW c \in Consumers \cup {None},
               NEW todo \in Seq(Event),
               task' = [task EXCEPT ![t].pc = pc, ![t].chan = c, ![t].todo = todo]
        PROVE  Typed'
    <2> DEFINE x == [task[t] EXCEPT !.pc = pc, !.chan = c, !.todo = todo]
    <2>1. x \in Task
      BY <1>0, Zenon DEF Task
    <2>2. task' = [task EXCEPT ![t] = x]
      BY <1>9, Zenon
    <2> HIDE DEF x
    <2> QED BY <2>1, <2>2, SetType
  <1>10. ASSUME NEW pc \in Steps,
               NEW todo \in Seq(Event),
               NEW o \in BOOLEAN,
               task' = [task EXCEPT ![t].pc = pc, ![t].todo = todo, ![t].overflow = o]
        PROVE  Typed'
    <2> DEFINE x == [task[t] EXCEPT !.pc = pc, !.todo = todo, !.overflow = o]
    <2>1. x \in Task
      BY <1>0, Zenon DEF Task
    <2>2. task' = [task EXCEPT ![t] = x]
      BY <1>10, Zenon
    <2> HIDE DEF x
    <2> QED BY <2>1, <2>2, SetType
  <1>11. ASSUME NEW pc \in Steps,
               NEW q \in [Approvals -> Decisions \cup {None, "asked"}],
               NEW c \in Consumers \cup {None},
               task' = [task EXCEPT ![t].pc = pc, ![t].restored = q, ![t].chan = c]
        PROVE  Typed'
    <2> DEFINE x == [task[t] EXCEPT !.pc = pc, !.restored = q, !.chan = c]
    <2>1. x \in Task
      BY <1>0, Zenon DEF Task
    <2>2. task' = [task EXCEPT ![t] = x]
      BY <1>11, Zenon
    <2> HIDE DEF x
    <2> QED BY <2>1, <2>2, SetType
  <1>12. ASSUME NEW pc \in Steps,
               NEW c \in Consumers \cup {None},
               NEW todo \in Seq(Event),
               NEW o \in BOOLEAN,
               task' = [task EXCEPT ![t].pc = pc, ![t].chan = c, ![t].todo = todo, ![t].overflow = o]
        PROVE  Typed'
    <2> DEFINE x == [task[t] EXCEPT !.pc = pc, !.chan = c, !.todo = todo, !.overflow = o]
    <2>1. x \in Task
      BY <1>0, Zenon DEF Task
    <2>2. task' = [task EXCEPT ![t] = x]
      BY <1>12, Zenon
    <2> HIDE DEF x
    <2> QED BY <2>1, <2>2, SetType
  <1> QED BY <1>1, <1>2, <1>3, <1>4, <1>5, <1>6, <1>7, <1>8, <1>9, <1>10, <1>11, <1>12

(* The names of the steps.                                                 *)
LEMMA StepNames ==
    {"idle", "next", "take", "register", "call", "calling", "bind", "route", "markFailed",
     "markUnknown", "retain", "retainMark", "attach", "send", "pick", "retainSend", "close",
     "mark", "markWrite", "lost", "lostWrite", "reconnect", "attached", "load", "prepare",
     "promote", "unroute", "activate", "collect", "commanding", "unknown", "unknownWrite",
     "flag", "begin", "remember", "respond", "confirm", "forget", "pumpCall", "pumpSend",
     "pumpPick", "pumpCollect"} \subseteq Steps
  BY DEF Steps, AfterPump

(* The events of one run, out of a buffer.                                 *)
LEMMA EventsOfType ==
    ASSUME NEW seq \in Seq(Event), NEW r
    PROVE  /\ EventsOf(seq, r) \in Seq(Event)
           /\ Len(EventsOf(seq, r)) <= Len(seq)
           /\ Entries(EventsOf(seq, r)) = Entries(seq) \cap [from : {r}, n : 1..MaxEvents]
           /\ NoRepeats(seq) => NoRepeats(EventsOf(seq, r))
  BY AmongEntries DEF EventsOf

(* A run that is in the table has a status.                                *)
LEMMA SeenType ==
    ASSUME TablesTypeOK, NEW r \in PresentRuns PROVE r \in Runs /\ runStatus[r] \in RunStatus
  BY DEF TablesTypeOK, PresentRuns

(* What a task is given is of its type.                                    *)
LEMMA FieldTypes ==
    ASSUME TypeOK
    PROVE  /\ Typed
           /\ \A t \in Tasks : /\ task[t].pc \in Steps /\ task[t].run \in Runs \cup {None}
                               /\ task[t].seen \in RunStatus \cup {None}
                               /\ task[t].chan \in Consumers \cup {None}
                               /\ task[t].todo \in Seq(Event) /\ task[t].overflow \in BOOLEAN
           /\ state.pendingEvents \in Seq(Event) /\ state.pendingOverflow \in BOOLEAN
           /\ \A r \in Runs : /\ state.routes[r] \in Consumers \cup {None}
                              /\ state.uncertainStarts[r].events \in Seq(Event)
                              /\ state.uncertainStarts[r].overflow \in BOOLEAN
           /\ <<>> \in Seq(Event)
  <1>1. Typed /\ (\A t \in Tasks : task[t] \in Task) /\ <<>> \in Seq(Event)
    BY DEF TypeOK, Typed
  <1>2. /\ state.pendingEvents \in Seq(Event) /\ state.pendingOverflow \in BOOLEAN
        /\ state.uncertainStarts \in [Runs -> PendingStart]
        /\ state.routes \in [Runs -> Consumers \cup {None}]
    BY DEF TypeOK, State
  <1>3. \A r \in Runs : /\ state.uncertainStarts[r].events \in Seq(Event)
                        /\ state.uncertainStarts[r].overflow \in BOOLEAN
    BY <1>2 DEF PendingStart
  <1> QED BY <1>1, <1>2, <1>3 DEF Task

(* The rest of some events are events.                                     *)
LEMMA TailType == \A todo \in Seq(Event) : todo # <<>> => Tail(todo) \in Seq(Event)
  OBVIOUS

(* Only the pump is put back to next_event by another task.                *)
LEMMA PumpType ==
    ASSUME Typed,
           task' = IF pumpHandle THEN task
                   ELSE [task EXCEPT !["pump"] = [Blank EXCEPT !.pc = "next"]]
    PROVE  Typed'
  BY BlankType, SetType DEF Tasks, Typed

(* Every step keeps the tasks typed.                                       *)
LEMMA TypedStep ==
    ASSUME TypeOK, SupervisorInv, Present, [Next]_vars
    PROVE  Typed'
  <1>0. /\ Typed /\ "starter" \in Tasks /\ "pump" \in Tasks /\ "marker" \in Tasks
        /\ TablesTypeOK
        /\ \A t \in Tasks : /\ task[t].pc \in Steps /\ task[t].run \in Runs \cup {None}
                            /\ task[t].seen \in RunStatus \cup {None}
                            /\ task[t].chan \in Consumers \cup {None}
                            /\ task[t].todo \in Seq(Event) /\ task[t].overflow \in BOOLEAN
        /\ state.pendingEvents \in Seq(Event) /\ state.pendingOverflow \in BOOLEAN
        /\ \A r \in Runs : /\ state.routes[r] \in Consumers \cup {None}
                           /\ state.uncertainStarts[r].events \in Seq(Event)
                           /\ state.uncertainStarts[r].overflow \in BOOLEAN
        /\ <<>> \in Seq(Event)
        /\ None \in Consumers \cup {None}
    BY FieldTypes DEF Tasks, TypeOK
  <1> USE DEF At, Starter, storeVars, backVars,
          pumpVars, bootVars, innerVars, providerVars
  <1>1. CASE StartStep
    <2>1. CASE RegisterStart
      BY <2>1, GoType, DoneType, StepNames, <1>0 DEF RegisterStart
    <2>2. CASE CallStart
      BY <2>2, GoType, DoneType, StepNames, <1>0 DEF CallStart
    <2>3. CASE StartAccepted
      BY <2>3, GoType, DoneType, StepNames, <1>0 DEF StartAccepted
    <2>4. CASE StartUnknown
      BY <2>4, GoType, DoneType, StepNames, <1>0 DEF StartUnknown
    <2>5. CASE StartRejected
      BY <2>5, GoType, DoneType, StepNames, <1>0 DEF StartRejected
    <2>6. CASE MarkStart
      BY <2>6, GoType, DoneType, StepNames, <1>0 DEF MarkStart
    <2>7. CASE BindStart
      BY <2>7, GoType, DoneType, StepNames, <1>0 DEF BindStart
    <2>8. ASSUME NEW c \in Consumers, RouteStart(c) PROVE Typed'
      <3>0. EventsOf(state.pendingEvents, Starter.run) \in Seq(Event)
        BY <2>8, <1>0, EventsOfType DEF RouteStart
      <3> QED BY <2>8, <3>0, <1>0, GoType, DoneType, StepNames, FieldsType
          DEF RouteStart
    <2>9. ASSUME NEW c \in Consumers, AttachRoute(c) PROVE Typed'
      BY <2>9, GoType, DoneType, StepNames, <1>0 DEF AttachRoute
    <2>10. CASE Retain
      <3>0. EventsOf(state.pendingEvents, Starter.run) \in Seq(Event)
        BY <2>10, <1>0, EventsOfType DEF Retain
      <3> QED BY <2>10, <3>0, <1>0, GoType, DoneType, StepNames, FieldsType DEF Retain
    <2>11. CASE RetainMark
      BY <2>11, GoType, DoneType, StepNames, <1>0 DEF RetainMark
    <2>12. CASE RetainPick
      <3> DEFINE pc == IF state.routes[Starter.run] = None THEN "flag" ELSE "retainSend"
      <3>1. pc \in Steps /\ state.routes[Starter.run] \in Consumers \cup {None}
        BY <2>12, <1>0, StepNames DEF RetainPick, Present, Resting, PresentRuns
      <3>2. task' = [task EXCEPT !["starter"].chan = state.routes[Starter.run],
                                 !["starter"].pc = pc]
        BY <2>12 DEF RetainPick
      <3> HIDE DEF pc
      <3> QED BY <3>1, <3>2, <1>0, FieldsType
    <2>13. CASE RetainSend
      <3>1. CASE task' = [task EXCEPT !["starter"].todo = Tail(Starter.todo)] /\ Starter.todo # <<>>
        <4>1. Tail(Starter.todo) \in Seq(Event)
          BY <3>1, <1>0, TailType
        <4> QED BY <3>1, <4>1, <1>0, FieldsType
      <3>2. CASE task' = [task EXCEPT !["starter"].pc = "flag", !["starter"].chan = None,
                                      !["starter"].todo = <<>>]
        BY <3>2, <1>0, StepNames, FieldsType
      <3> QED BY <2>13, <3>1, <3>2, Zenon DEF RetainSend
    <2> QED BY <1>1, <2>1, <2>2, <2>3, <2>4, <2>5, <2>6, <2>7, <2>8, <2>9, <2>10,
         <2>11, <2>12, <2>13 DEF StartStep
  <1>2. CASE PumpStep
    <2>1. CASE PumpDeliver
      <3> DEFINE e == Head(stream)
                 pc == IF consumers[state.routes[e.from]].pc = "done" THEN "lost" ELSE "close"
                 r == e.from
      <3>1. pc \in Steps /\ r \in Runs \cup {None}
        BY <2>1, <1>0, HeadType, StepNames DEF PumpDeliver, TypeOK, Event
      <3>2. task' = task \/ task' = [task EXCEPT !["pump"].pc = pc, !["pump"].run = r]
        BY <2>1, Zenon DEF PumpDeliver
      <3> HIDE DEF pc, r
      <3> QED BY <3>1, <3>2, <1>0, FieldsType DEF Typed
    <2>2. CASE PumpBuffer
      BY <2>2, <1>0 DEF PumpBuffer, Typed
    <2>3. CASE Disconnect
      <3>0. runStatus[task["pump"].run] \in RunStatus
        BY <2>3, <1>0, SeenType DEF Disconnect, Present, Resting
      <3> QED BY <2>3, <3>0, <1>0, GoType, DoneType, StepNames, FieldsType
          DEF Disconnect
    <2>4. CASE PumpTake
      BY <2>4, GoType, DoneType, StepNames, <1>0, BlankType, SetType DEF PumpTake
    <2>5. ASSUME NEW r \in Runs, MarkAffected(r) PROVE Typed'
      <3>0. r \in Runs
        BY <2>5, <1>0 DEF MarkAffected
      <3> QED BY <2>5, <3>0, <1>0, GoType, DoneType, StepNames, FieldsType
          DEF MarkAffected
    <2> QED BY <1>2, <2>1, <2>2, <2>3, <2>4, <2>5 DEF PumpStep
  <1>3. ASSUME NEW t \in Tasks, SharedStep(t) PROVE Typed'
    <2>1. CASE EnsureEventPump(t)
      <3>1. PICK pc \in Steps : pc = AfterPump[task[t].pc]
        BY <2>1, StepNames DEF EnsureEventPump, AfterPump
      <3> DEFINE x == [task[t] EXCEPT !.pc = pc]
                 new == [task EXCEPT ![t] = x]
      <3>3. x \in Task
        BY <1>0, Zenon DEF Task, Typed
      <3>4. new \in [Tasks -> Task]
        <4> HIDE DEF x
        <4> QED BY <3>3, <1>0 DEF Typed
      <3>5. task' = [new EXCEPT !["pump"] = IF pumpHandle THEN task["pump"] ELSE [Blank EXCEPT !.pc = "next"]]
        BY <2>1, <3>1, Zenon DEF EnsureEventPump
      <3> HIDE DEF new
      <3> QED BY <3>4, <3>5, <1>0, BlankType DEF Typed, Tasks
    <2>2. CASE Send(t)
      <3>0. task[t].todo # <<>> => Tail(task[t].todo) \in Seq(Event)
        BY <2>2, <1>0, TailType DEF Send
      <3> QED BY <2>2, <3>0, <1>0, GoType, DoneType, StepNames, FieldsType DEF Send
    <2>3. CASE OverflowClose(t)
      <3> QED BY <2>3, <1>0, GoType, DoneType, StepNames, FieldsType DEF OverflowClose
    <2>4. CASE Mark(t)
      <3>0. runStatus[task[t].run] \in RunStatus
        BY <2>4, <1>0, SeenType DEF Mark, Present, Resting
      <3> QED BY <2>4, <3>0, <1>0, GoType, DoneType, StepNames, FieldsType DEF Mark
    <2>5. CASE MarkWrite(t)
      BY <2>5, GoType, DoneType, StepNames, <1>0 DEF MarkWrite
    <2>6. CASE FlagUncertain(t)
      BY <2>6, GoType, DoneType, StepNames, <1>0 DEF FlagUncertain
    <2> QED BY <1>3, <2>1, <2>2, <2>3, <2>4, <2>5, <2>6 DEF SharedStep
  <1>4. ASSUME NEW c \in Consumers, ConsumerStep(c) PROVE Typed'
    <2>1. CASE TakeEvent(c)
      BY <2>1, <1>0 DEF TakeEvent, Typed
    <2>2. CASE AppendItem(c)
      BY <2>2, <1>0 DEF AppendItem, Typed
    <2>3. CASE RecordApproval(c)
      BY <2>3, <1>0 DEF RecordApproval, Typed
    <2>4. CASE RegisterApproval(c)
      BY <2>4, <1>0 DEF RegisterApproval, Typed
    <2>5. CASE ApplyTerminal(c)
      BY <2>5, <1>0 DEF ApplyTerminal, Typed
    <2>6. CASE ConsumerFails(c)
      BY <2>6, <1>0 DEF ConsumerFails, Typed
    <2>7. CASE ChannelEnds(c)
      BY <2>7, <1>0 DEF ChannelEnds, Typed
    <2>8. CASE ConsumerCloses(c)
      BY <2>8, <1>0 DEF ConsumerCloses, Typed
    <2> QED BY <1>4, <2>1, <2>2, <2>3, <2>4, <2>5, <2>6, <2>7, <2>8 DEF ConsumerStep
  <1>5. ASSUME NEW t \in Clients, ClientStep(t) PROVE Typed'
    <2> t \in Tasks
      BY DEF Tasks
    <2>1. CASE Reconnect(t)
      BY <2>1, GoType, DoneType, StepNames, <1>0 DEF Reconnect
    <2>2. CASE CheckAttached(t)
      BY <2>2, GoType, DoneType, StepNames, <1>0 DEF CheckAttached
    <2>3. CASE LoadForReattach(t)
      <3>0. LoadRequests(task[t].run) \in [Approvals -> Decisions \cup {None, "asked"}]
        BY <2>3, <1>0, RequestsType DEF LoadForReattach
      <3> QED BY <2>3, <3>0, <1>0, GoType, DoneType, StepNames, FieldsType
          DEF LoadForReattach
    <2>4. ASSUME NEW c \in Consumers, PrepareReattach(t, c) PROVE Typed'
      <3>0. NoRequests \in [Approvals -> Decisions \cup {None, "asked"}]
        BY <2>4, <1>0, RequestsType DEF PrepareReattach
      <3> QED BY <2>4, <3>0, <1>0, GoType, DoneType, StepNames, FieldsType
          DEF PrepareReattach
    <2>5. CASE Promote(t)
      <3> QED BY <2>5, <1>0, GoType, DoneType, StepNames, FieldsType DEF Promote
    <2>6. CASE Unroute(t)
      BY <2>6, GoType, DoneType, StepNames, <1>0 DEF Unroute
    <2>7. CASE ActivateReattach(t)
      <3> QED BY <2>7, <1>0, GoType, DoneType, StepNames, FieldsType
          DEF ActivateReattach
    <2>8. CASE CollectUncertain(t)
      <3>1. task[t].run \in Runs
        BY <2>8 DEF CollectUncertain, Present, Resting, PresentRuns
      <3>2. EventsOf(state.uncertainStarts[task[t].run].events, task[t].run) \in Seq(Event)
        BY <3>1, <1>0, EventsOfType
      <3> DEFINE c == state.routes[task[t].run]
                 pc == IF c = None THEN "close" ELSE "send"
                 todo == EventsOf(state.uncertainStarts[task[t].run].events, task[t].run)
                 o == state.uncertainStarts[task[t].run].overflow
      <3>3. /\ pc \in Steps /\ c \in Consumers \cup {None} /\ todo \in Seq(Event)
            /\ o \in BOOLEAN
        BY <3>1, <3>2, <1>0, StepNames
      <3>4. Done(t) \/ task' = [task EXCEPT ![t].pc = pc, ![t].chan = c, ![t].todo = todo,
                                           ![t].overflow = o]
        BY <2>8 DEF CollectUncertain
      <3> HIDE DEF pc, c, todo, o
      <3>5. CASE Done(t)
        BY <3>5, <1>0, DoneType
      <3>6. CASE task' = [task EXCEPT ![t].pc = pc, ![t].chan = c, ![t].todo = todo,
                                      ![t].overflow = o]
        BY <3>6, <3>3, <1>0, FieldsType, Zenon
      <3> QED BY <3>4, <3>5, <3>6
    <2>9. CASE CommandReturns(t)
      BY <2>9, GoType, DoneType, StepNames, <1>0 DEF CommandReturns
    <2>10. CASE OutcomeUnknown(t)
      <3>0. runStatus[task[t].run] \in RunStatus
        BY <2>10, <1>0, SeenType DEF OutcomeUnknown, Present, Resting
      <3>1. \/ \E pc \in {"flag"} : Go(t, pc)
            \/ task' = [task EXCEPT ![t].pc = "unknownWrite", ![t].seen = runStatus[task[t].run]]
        BY <2>10 DEF OutcomeUnknown
      <3>2. "flag" \in Steps /\ "unknownWrite" \in Steps
        BY StepNames
      <3>3. CASE \E pc \in {"flag"} : Go(t, pc)
        BY <3>3, <3>2, <1>0, GoType
      <3>4. CASE task' = [task EXCEPT ![t].pc = "unknownWrite", ![t].seen = runStatus[task[t].run]]
        BY <3>4, <3>0, <3>2, <1>0, FieldsType, Zenon
      <3> QED BY <3>1, <3>3, <3>4
    <2>11. CASE BeginResponse(t)
      BY <2>11, GoType, DoneType, StepNames, <1>0 DEF BeginResponse
    <2>12. CASE RememberResponse(t)
      BY <2>12, GoType, DoneType, StepNames, <1>0 DEF RememberResponse
    <2>13. CASE Respond(t)
      BY <2>13, GoType, DoneType, StepNames, <1>0 DEF Respond
    <2>14. CASE ConfirmResponse(t)
      BY <2>14, GoType, DoneType, StepNames, <1>0 DEF ConfirmResponse
    <2>15. CASE ForgetApproval(t)
      BY <2>15, GoType, DoneType, StepNames, <1>0 DEF ForgetApproval
    <2> QED BY <1>5, <2>1, <2>2, <2>3, <2>4, <2>5, <2>6, <2>7, <2>8, <2>9, <2>10,
         <2>11, <2>12, <2>13, <2>14, <2>15 DEF ClientStep
  <1>6. CASE StartupStep
    <2>1. ASSUME NEW r \in Runs, StartupDowngrade(r) PROVE Typed'
      BY <2>1, <1>0 DEF StartupDowngrade, Typed
    <2>2. ASSUME NEW r \in Runs, NEW c \in Consumers, StartupPrepare(r, c) PROVE Typed'
      BY <2>2, <1>0 DEF StartupPrepare, Typed
    <2>3. CASE StartupFails
      BY <2>3, <1>0 DEF StartupFails, Typed
    <2>4. ASSUME NEW c \in Consumers, StartupActivate(c) PROVE Typed'
      BY <2>4, PumpType, <1>0 DEF StartupActivate
    <2>5. CASE StartupDone
      BY <2>5, <1>0 DEF StartupDone, Typed
    <2> QED BY <1>6, <2>1, <2>2, <2>3, <2>4, <2>5 DEF StartupStep
  <1>7. CASE Environment
    <2>1. ASSUME NEW r \in Runs, StartRun(r) PROVE Typed'
      <3>0. "starter" \in Tasks
        BY <2>1, <1>0 DEF StartRun
      <3> QED BY <2>1, <3>0, <1>0, GoType, DoneType, StepNames, FieldsType DEF StartRun
    <2>2. ASSUME NEW t \in Clients, NEW r \in Runs, ReconcileRun(t, r) PROVE Typed'
      <3>0. t \in Tasks /\ runStatus[r] \in RunStatus
        BY <2>2, <1>0 DEF ReconcileRun, Tasks, TablesTypeOK
      <3> QED BY <2>2, <3>0, <1>0, GoType, DoneType, StepNames, FieldsType
          DEF ReconcileRun
    <2>3. ASSUME NEW t \in Clients, NEW r \in Runs, Command(t, r) PROVE Typed'
      <3>0. t \in Tasks
        BY <2>3, <1>0 DEF Command, Tasks
      <3> QED BY <2>3, <3>0, <1>0, GoType, DoneType, StepNames, FieldsType DEF Command
    <2>4. ASSUME NEW t \in Clients, NEW a \in Approvals, NEW d \in Decisions, ResolveApproval(t, a, d)
          PROVE  Typed'
      <3> DEFINE said == state.responses[a]
                 pc == IF said = None THEN "begin" ELSE "respond"
                 q == approval[a].run
                 x == [Blank EXCEPT !.pc = pc, !.run = q, !.approval = a, !.decision = d]
      <3>1. /\ pc \in Steps /\ q \in Runs \cup {None} /\ a \in Approvals \cup {None}
            /\ d \in Decisions \cup {None} /\ t \in Tasks
        BY <1>0, StepNames DEF TablesTypeOK, ApprovalRow, Tasks
      <3>2. task' = [task EXCEPT ![t] = x]
        BY <2>4 DEF ResolveApproval
      <3> HIDE DEF pc, q
      <3>3. x \in Task
        BY <3>1, BlankType, Zenon DEF Task
      <3> HIDE DEF x
      <3> QED BY <3>1, <3>2, <3>3, <1>0, SetType
    <2>5. ASSUME NEW r \in Runs, Accept(r) PROVE Typed'
      BY <2>5, <1>0 DEF Accept, Typed
    <2>6. ASSUME NEW r \in Runs, NEW kind \in EmitKinds, Emit(r, kind) PROVE Typed'
      BY <2>6, <1>0 DEF Emit, Typed
    <2>7. CASE PumpFail
      BY <2>7, GoType, DoneType, StepNames, <1>0 DEF PumpFail
    <2>8. CASE Crash
      <3>1. task' = [t \in Tasks |-> Blank]
        BY <2>8 DEF Crash
      <3> QED BY <3>1, BlankType DEF Typed
    <2> QED BY <1>7, <2>1, <2>2, <2>3, <2>4, <2>5, <2>6, <2>7, <2>8 DEF Environment
  <1>8. CASE UNCHANGED vars
    BY <1>0, <1>8 DEF vars, Typed
  <1> QED BY ONLY [Next]_vars, <1>1, <1>2, <1>3, <1>4, <1>5, <1>6, <1>7, <1>8 DEF Next

-----------------------------------------------------------------------------
(* The types of consumers.                                                 *)

(* Setting a whole consumer.                                               *)
LEMMA ConsumerSet ==
    ASSUME Channelled, NEW c \in Consumers, NEW x \in Consumer,
           consumers' = [consumers EXCEPT ![c] = x]
    PROVE  Channelled'
  BY DEF Channelled

(* A consumer that is done.                                                *)
LEMMA FinishedType == Finished \in Consumer
  <1>1. <<>> \in Seq(Event) /\ 0 \in Nat
        /\ None \in Event \cup {None} /\ None \in Runs \cup {None}
        /\ None \in RunStatus \cup {None}
    OBVIOUS
  <1> QED BY <1>1, Zenon DEF Finished, Consumer

(* A consumer goes on.                                                     *)
LEMMA ConsumerGoType ==
    ASSUME Channelled, NEW c \in Consumers
    PROVE  \A pc \in ConsumerSteps : ConsumerGo(c, pc) => Channelled'
  <1> SUFFICES ASSUME NEW pc \in ConsumerSteps, ConsumerGo(c, pc) PROVE Channelled'
    OBVIOUS
  <1> DEFINE x == [consumers[c] EXCEPT !.pc = pc, !.event = None, !.cursor = 0, !.seen = None]
  <1>1. /\ consumers[c] \in Consumer /\ 0 \in Nat /\ None \in Event \cup {None}
        /\ None \in RunStatus \cup {None}
    BY DEF Channelled
  <1>2. x \in Consumer
    BY <1>1, Zenon DEF Consumer, ConsumerSteps
  <1>3. consumers' = [consumers EXCEPT ![c] = x]
    BY Zenon DEF ConsumerGo
  <1> HIDE DEF x
  <1> QED BY <1>2, <1>3, ConsumerSet

(* A consumer that gets new values of some fields.                         *)
LEMMA ConsumerFieldsType ==
    ASSUME Channelled, NEW c \in Consumers
    PROVE  /\ \A pc \in ConsumerSteps :
                consumers' = [consumers EXCEPT ![c].pc = pc] => Channelled'
           /\ \A pc \in ConsumerSteps, s \in RunStatus \cup {None} :
                consumers' = [consumers EXCEPT ![c].seen = s, ![c].pc = pc] => Channelled'
           /\ \A pc \in ConsumerSteps, queue \in Seq(Event) :
                consumers' = [consumers EXCEPT ![c].queue = queue, ![c].pc = pc] => Channelled'
           /\ \A pc \in ConsumerSteps, queue \in Seq(Event), e \in Event, n \in Nat,
                 s \in RunStatus \cup {None} :
                consumers' = [consumers EXCEPT ![c].queue = queue, ![c].event = e,
                                ![c].pc = pc, ![c].cursor = n, ![c].seen = s] => Channelled'
  <1>0. consumers[c] \in Consumer
    BY DEF Channelled
  <1>1. ASSUME NEW pc \in ConsumerSteps, consumers' = [consumers EXCEPT ![c].pc = pc]
        PROVE  Channelled'
    <2> DEFINE x == [consumers[c] EXCEPT !.pc = pc]
    <2>1. x \in Consumer
      BY <1>0, Zenon DEF Consumer, ConsumerSteps
    <2>2. consumers' = [consumers EXCEPT ![c] = x]
      BY <1>1, Zenon
    <2> HIDE DEF x
    <2> QED BY <2>1, <2>2, ConsumerSet
  <1>2. ASSUME NEW pc \in ConsumerSteps, NEW s \in RunStatus \cup {None},
               consumers' = [consumers EXCEPT ![c].seen = s, ![c].pc = pc]
        PROVE  Channelled'
    <2> DEFINE x == [consumers[c] EXCEPT !.seen = s, !.pc = pc]
    <2>1. x \in Consumer
      BY <1>0, Zenon DEF Consumer, ConsumerSteps
    <2>2. consumers' = [consumers EXCEPT ![c] = x]
      BY <1>2, Zenon
    <2> HIDE DEF x
    <2> QED BY <2>1, <2>2, ConsumerSet
  <1>3. ASSUME NEW pc \in ConsumerSteps, NEW queue \in Seq(Event),
               consumers' = [consumers EXCEPT ![c].queue = queue, ![c].pc = pc]
        PROVE  Channelled'
    <2> DEFINE x == [consumers[c] EXCEPT !.queue = queue, !.pc = pc]
    <2>1. x \in Consumer
      BY <1>0, Zenon DEF Consumer, ConsumerSteps
    <2>2. consumers' = [consumers EXCEPT ![c] = x]
      BY <1>3, Zenon
    <2> HIDE DEF x
    <2> QED BY <2>1, <2>2, ConsumerSet
  <1>4. ASSUME NEW pc \in ConsumerSteps, NEW queue \in Seq(Event), NEW e \in Event,
               NEW n \in Nat, NEW s \in RunStatus \cup {None},
               consumers' = [consumers EXCEPT ![c].queue = queue, ![c].event = e,
                                ![c].pc = pc, ![c].cursor = n, ![c].seen = s]
        PROVE  Channelled'
    <2> DEFINE x == [consumers[c] EXCEPT !.queue = queue, !.event = e, !.pc = pc,
                                         !.cursor = n, !.seen = s]
    <2>1. x \in Consumer
      BY <1>0, Zenon DEF Consumer, ConsumerSteps
    <2>2. consumers' = [consumers EXCEPT ![c] = x]
      BY <1>4, Zenon
    <2> HIDE DEF x
    <2> QED BY <2>1, <2>2, ConsumerSet
  <1> QED BY <1>1, <1>2, <1>3, <1>4

(* Every step keeps the consumers typed.                                   *)
LEMMA ChannelledStep ==
    ASSUME TypeOK, SupervisorInv, Present, [Next]_vars
    PROVE  Channelled'
  <1>0. /\ Channelled /\ "starter" \in Tasks /\ "pump" \in Tasks /\ "marker" \in Tasks
        /\ TablesTypeOK /\ stream \in Seq(Event)
        /\ timeline \in [Runs -> Seq(1..MaxEvents)]
        /\ \A t \in Tasks : task[t].todo \in Seq(Event)
    BY FieldTypes DEF Tasks, TypeOK, Channelled
  <1> USE DEF SupervisorInv, RunsInv, TasksOK, At, ConsumerAt, Starter, storeVars, backVars,
          pumpVars, bootVars, innerVars, providerVars
  <1>1. CASE StartStep
    <2>1. CASE RegisterStart
      BY <2>1, <1>0 DEF RegisterStart, Channelled
    <2>2. CASE CallStart
      BY <2>2, <1>0 DEF CallStart, Channelled
    <2>3. CASE StartAccepted
      BY <2>3, <1>0 DEF StartAccepted, Channelled
    <2>4. CASE StartUnknown
      BY <2>4, <1>0 DEF StartUnknown, Channelled
    <2>5. CASE StartRejected
      BY <2>5, <1>0 DEF StartRejected, Channelled
    <2>6. CASE MarkStart
      BY <2>6, <1>0 DEF MarkStart, Channelled
    <2>7. CASE BindStart
      BY <2>7, <1>0 DEF BindStart, Channelled
    <2>8. ASSUME NEW c \in Consumers, RouteStart(c) PROVE Channelled'
      <3>1. Starter.run \in Runs
        BY <2>8, <1>0 DEF RouteStart, Present, PresentRuns, Resting
      <3> QED BY <2>8, <3>1, <1>0, Opened DEF RouteStart, Channelled
    <2>9. ASSUME NEW c \in Consumers, AttachRoute(c) PROVE Channelled'
      <3>1. Starter.run \in Runs
        BY <2>9, <1>0 DEF AttachRoute, Present, PresentRuns, Resting
      <3> QED BY <2>9, <3>1, <1>0, Opened DEF AttachRoute, Channelled
    <2>10. CASE Retain
      BY <2>10, <1>0 DEF Retain, Channelled
    <2>11. CASE RetainMark
      BY <2>11, <1>0 DEF RetainMark, Channelled
    <2>12. CASE RetainPick
      BY <2>12, <1>0 DEF RetainPick, Channelled
    <2>13. CASE RetainSend
      <3>1. Starter.todo # <<>> => Head(Starter.todo) \in Event
        BY <1>0, HeadType
      <3> QED BY <2>13, <3>1, <1>0, Enqueued DEF RetainSend, Channelled
    <2> QED BY <1>1, <2>1, <2>2, <2>3, <2>4, <2>5, <2>6, <2>7, <2>8, <2>9, <2>10,
         <2>11, <2>12, <2>13 DEF StartStep
  <1>2. CASE PumpStep
    <2>1. CASE PumpDeliver
      <3>1. Head(stream) \in Event
        BY <2>1, <1>0, HeadType DEF PumpDeliver
      <3> QED BY <2>1, <3>1, <1>0, Enqueued DEF PumpDeliver, Channelled
    <2>2. CASE PumpBuffer
      BY <2>2, <1>0 DEF PumpBuffer, Channelled
    <2>3. CASE Disconnect
      BY <2>3, <1>0 DEF Disconnect, Channelled
    <2>4. CASE PumpTake
      BY <2>4, <1>0 DEF PumpTake, Channelled
    <2>5. ASSUME NEW r \in Runs, MarkAffected(r) PROVE Channelled'
      BY <2>5, <1>0 DEF MarkAffected, Channelled
    <2> QED BY <1>2, <2>1, <2>2, <2>3, <2>4, <2>5 DEF PumpStep
  <1>3. ASSUME NEW t \in Tasks, SharedStep(t) PROVE Channelled'
    <2>1. CASE EnsureEventPump(t)
      BY <2>1, <1>0 DEF EnsureEventPump, Channelled
    <2>2. CASE Send(t)
      <3>1. task[t].todo # <<>> => Head(task[t].todo) \in Event
        BY <1>0, HeadType
      <3> QED BY <2>2, <3>1, <1>0, Enqueued DEF Send, Channelled
    <2>3. CASE OverflowClose(t)
      BY <2>3, <1>0 DEF OverflowClose, Channelled
    <2>4. CASE Mark(t)
      BY <2>4, <1>0 DEF Mark, Channelled
    <2>5. CASE MarkWrite(t)
      BY <2>5, <1>0 DEF MarkWrite, Channelled
    <2>6. CASE FlagUncertain(t)
      BY <2>6, <1>0 DEF FlagUncertain, Channelled
    <2> QED BY <1>3, <2>1, <2>2, <2>3, <2>4, <2>5, <2>6 DEF SharedStep
  <1>4. ASSUME NEW c \in Consumers, ConsumerStep(c) PROVE Channelled'
    <2>1. CASE TakeEvent(c)
      <3> DEFINE e == Head(consumers[c].queue)
                 queue == Tail(consumers[c].queue)
                 pc == AfterTake(KindOf(e))
                 n == IF KindOf(e) = "item" THEN Len(timeline[consumers[c].run]) ELSE 0
                 s == IF IsTerminal(KindOf(e)) THEN runStatus[consumers[c].run] ELSE None
      <3>1. consumers[c].queue \in Seq(Event) /\ consumers[c].queue # <<>>
        BY <2>1, <1>0 DEF TakeEvent, Channelled, Consumer
      <3>2. consumers[c].run \in Runs /\ runStatus[consumers[c].run] \in RunStatus
        BY <2>1, <1>0, SeenType DEF TakeEvent, Present
      <3>3. timeline[consumers[c].run] \in Seq(1..MaxEvents)
        BY <3>2, <1>0
      <3>4. e \in Event /\ queue \in Seq(Event)
        BY <3>1, HeadType, TailType
      <3>5. pc \in ConsumerSteps /\ n \in Nat /\ s \in RunStatus \cup {None} /\ "fail" \in ConsumerSteps
        BY <3>2, <3>3 DEF AfterTake, ConsumerSteps
      <3>6. \/ consumers' = [consumers EXCEPT ![c].queue = queue, ![c].event = e,
                                ![c].pc = pc, ![c].cursor = n, ![c].seen = s]
            \/ consumers' = [consumers EXCEPT ![c].queue = queue, ![c].pc = "fail"]
        BY <2>1, Zenon DEF TakeEvent
      <3> HIDE DEF e, queue, pc, n, s
      <3>7. CASE consumers' = [consumers EXCEPT ![c].queue = queue, ![c].event = e,
                                ![c].pc = pc, ![c].cursor = n, ![c].seen = s]
        BY <3>4, <3>5, <3>7, <1>0, ConsumerFieldsType, Zenon
      <3>8. CASE consumers' = [consumers EXCEPT ![c].queue = queue, ![c].pc = "fail"]
        BY <3>4, <3>5, <3>8, <1>0, ConsumerFieldsType, Zenon
      <3> QED BY <3>6, <3>7, <3>8
    <2>2. CASE AppendItem(c)
      BY <2>2, <1>0, ConsumerGoType DEF AppendItem, ConsumerSteps, Channelled
    <2>3. CASE RecordApproval(c)
      BY <2>3, <1>0, ConsumerGoType, ConsumerFieldsType DEF RecordApproval,
          ConsumerSteps
    <2>4. CASE RegisterApproval(c)
      BY <2>4, <1>0, ConsumerGoType DEF RegisterApproval, ConsumerSteps, Channelled
    <2>5. CASE ApplyTerminal(c)
      BY <2>5, <1>0, ConsumerGoType DEF ApplyTerminal, ConsumerSteps, Channelled
    <2>6. CASE ConsumerFails(c)
      <3> DEFINE s == runStatus[consumers[c].run]
                 pc == IF s \in {"starting", "running"} THEN "failWrite" ELSE "close"
      <3>1. s \in RunStatus \cup {None} /\ pc \in ConsumerSteps /\ "close" \in ConsumerSteps
        BY <2>6, <1>0, SeenType DEF ConsumerFails, Present, ConsumerSteps
      <3>2. ConsumerGo(c, "close") \/ consumers' = [consumers EXCEPT ![c].seen = s, ![c].pc = pc]
        BY <2>6 DEF ConsumerFails
      <3> HIDE DEF s, pc
      <3> QED BY <3>1, <3>2, <1>0, ConsumerGoType, ConsumerFieldsType
    <2>7. CASE ChannelEnds(c)
      BY <2>7, <1>0, ConsumerGoType DEF ChannelEnds, ConsumerSteps, Channelled
    <2>8. CASE ConsumerCloses(c)
      BY <2>8, <1>0, ConsumerSet, FinishedType DEF ConsumerCloses
    <2> QED BY <1>4, <2>1, <2>2, <2>3, <2>4, <2>5, <2>6, <2>7, <2>8 DEF ConsumerStep
  <1>5. ASSUME NEW t \in Clients, ClientStep(t) PROVE Channelled'
    <2> t \in Tasks
      BY DEF Tasks
    <2>1. CASE Reconnect(t)
      BY <2>1, <1>0 DEF Reconnect, Channelled
    <2>2. CASE CheckAttached(t)
      BY <2>2, <1>0 DEF CheckAttached, Channelled
    <2>3. CASE LoadForReattach(t)
      BY <2>3, <1>0 DEF LoadForReattach, Channelled
    <2>4. ASSUME NEW c \in Consumers, PrepareReattach(t, c) PROVE Channelled'
      <3>1. task[t].run \in Runs
        BY <2>4, <1>0 DEF PrepareReattach, Present, PresentRuns, Resting
      <3> QED BY <2>4, <3>1, <1>0, Opened DEF PrepareReattach, Channelled
    <2>5. CASE Promote(t)
      <3>1. task[t].chan \in Consumers
        BY <2>5 DEF Promote, ReceiversHeld, Holding
      <3> QED BY <2>5, <3>1, <1>0, ConsumerSet, FinishedType DEF Promote, Channelled
    <2>6. CASE Unroute(t)
      BY <2>6, <1>0 DEF Unroute, Channelled
    <2>7. CASE ActivateReattach(t)
      <3>1. task[t].chan \in Consumers
        BY <2>7 DEF ActivateReattach, ReceiversHeld, Holding
      <3> QED BY <2>7, <3>1, <1>0, ConsumerFieldsType DEF ActivateReattach,
          ConsumerSteps
    <2>8. CASE CollectUncertain(t)
      BY <2>8, <1>0 DEF CollectUncertain, Channelled
    <2>9. CASE CommandReturns(t)
      BY <2>9, <1>0 DEF CommandReturns, Channelled
    <2>10. CASE OutcomeUnknown(t)
      BY <2>10, <1>0 DEF OutcomeUnknown, Channelled
    <2>11. CASE BeginResponse(t)
      BY <2>11, <1>0 DEF BeginResponse, Channelled
    <2>12. CASE RememberResponse(t)
      BY <2>12, <1>0 DEF RememberResponse, Channelled
    <2>13. CASE Respond(t)
      BY <2>13, <1>0 DEF Respond, Channelled
    <2>14. CASE ConfirmResponse(t)
      BY <2>14, <1>0 DEF ConfirmResponse, Channelled
    <2>15. CASE ForgetApproval(t)
      BY <2>15, <1>0 DEF ForgetApproval, Channelled
    <2> QED BY <1>5, <2>1, <2>2, <2>3, <2>4, <2>5, <2>6, <2>7, <2>8, <2>9, <2>10,
         <2>11, <2>12, <2>13, <2>14, <2>15 DEF ClientStep
  <1>6. CASE StartupStep
    <2>1. ASSUME NEW r \in Runs, StartupDowngrade(r) PROVE Channelled'
      BY <2>1, <1>0, FinishedType DEF StartupDowngrade, Channelled, DropReceivers
    <2>2. ASSUME NEW r \in Runs, NEW c \in Consumers, StartupPrepare(r, c) PROVE Channelled'
      BY <2>2, <1>0, Opened DEF StartupPrepare, Channelled
    <2>3. CASE StartupFails
      BY <2>3, <1>0, FinishedType DEF StartupFails, Channelled, DropReceivers
    <2>4. ASSUME NEW c \in Consumers, StartupActivate(c) PROVE Channelled'
      BY <2>4, <1>0, ConsumerFieldsType DEF StartupActivate, ConsumerSteps
    <2>5. CASE StartupDone
      BY <2>5, <1>0 DEF StartupDone, Channelled
    <2> QED BY <1>6, <2>1, <2>2, <2>3, <2>4, <2>5 DEF StartupStep
  <1>7. CASE Environment
    <2>1. ASSUME NEW r \in Runs, StartRun(r) PROVE Channelled'
      BY <2>1, <1>0 DEF StartRun, Channelled
    <2>2. ASSUME NEW t \in Clients, NEW r \in Runs, ReconcileRun(t, r) PROVE Channelled'
      BY <2>2, <1>0 DEF ReconcileRun, Channelled
    <2>3. ASSUME NEW t \in Clients, NEW r \in Runs, Command(t, r) PROVE Channelled'
      BY <2>3, <1>0 DEF Command, Channelled
    <2>4. ASSUME NEW t \in Clients, NEW a \in Approvals, NEW d \in Decisions, ResolveApproval(t, a, d)
          PROVE  Channelled'
      BY <2>4, <1>0 DEF ResolveApproval, Channelled
    <2>5. ASSUME NEW r \in Runs, Accept(r) PROVE Channelled'
      BY <2>5, <1>0 DEF Accept, Channelled
    <2>6. ASSUME NEW r \in Runs, NEW kind \in EmitKinds, Emit(r, kind) PROVE Channelled'
      BY <2>6, <1>0 DEF Emit, Channelled
    <2>7. CASE PumpFail
      BY <2>7, <1>0 DEF PumpFail, Channelled
    <2>8. CASE Crash
      BY <2>8, <1>0, FinishedType DEF Crash, Channelled
    <2> QED BY <1>7, <2>1, <2>2, <2>3, <2>4, <2>5, <2>6, <2>7, <2>8 DEF Environment
  <1>8. CASE UNCHANGED vars
    BY <1>0, <1>8 DEF vars, Channelled
  <1> QED BY ONLY [Next]_vars, <1>1, <1>2, <1>3, <1>4, <1>5, <1>6, <1>7, <1>8 DEF Next

-----------------------------------------------------------------------------
(* Channels and their senders.                                             *)

(* A channel changes its run only when it is opened or done.               *)
LEMMA RunsOfChannels ==
    ASSUME TypeOK, SupervisorInv, [Next]_vars
    PROVE  RunsChange
  <1>0. /\ consumers \in [Consumers -> Consumer] /\ stream \in Seq(Event)
        /\ \A t \in Tasks : task[t].todo \in Seq(Event)
        /\ "starter" \in Tasks /\ "pump" \in Tasks /\ "marker" \in Tasks
    BY FieldTypes DEF Tasks, TypeOK
  <1> USE DEF SupervisorInv, RunsInv, TasksOK, ConsumersOK, RunsChange, Finished, At,
              ConsumerAt,
          ConsumerGo, Starter, storeVars, backVars, pumpVars, bootVars, innerVars,
          providerVars
  <1>1. CASE StartStep
    <2>1. CASE RegisterStart
      BY <2>1 DEF RegisterStart
    <2>2. CASE CallStart
      BY <2>2 DEF CallStart
    <2>3. CASE StartAccepted
      BY <2>3 DEF StartAccepted
    <2>4. CASE StartUnknown
      BY <2>4 DEF StartUnknown
    <2>5. CASE StartRejected
      BY <2>5 DEF StartRejected
    <2>6. CASE MarkStart
      BY <2>6 DEF MarkStart
    <2>7. CASE BindStart
      BY <2>7 DEF BindStart
    <2>8. ASSUME NEW c \in Consumers, RouteStart(c) PROVE RunsChange
      <3>1. Starter.run \in Runs
        BY <2>8, <1>0 DEF RouteStart, Resting
      <3>2. NewConsumer(c, Starter.run, "recv") /\ Unused(c)
        BY <2>8 DEF RouteStart
      <3> QED BY <3>1, <3>2, <1>0, Opened
    <2>9. ASSUME NEW c \in Consumers, AttachRoute(c) PROVE RunsChange
      <3>1. Starter.run \in Runs
        BY <2>9, <1>0 DEF AttachRoute, Resting
      <3> QED BY <2>9, <3>1, <1>0, Opened DEF AttachRoute
    <2>10. CASE Retain
      BY <2>10 DEF Retain
    <2>11. CASE RetainMark
      BY <2>11 DEF RetainMark
    <2>12. CASE RetainPick
      BY <2>12 DEF RetainPick
    <2>13. CASE RetainSend
      <3>1. Starter.todo # <<>> => Head(Starter.todo) \in Event
        BY <1>0, HeadType
      <3> QED BY <2>13, <3>1, <1>0, Enqueued DEF RetainSend
    <2> QED BY <1>1, <2>1, <2>2, <2>3, <2>4, <2>5, <2>6, <2>7, <2>8, <2>9, <2>10,
         <2>11, <2>12, <2>13 DEF StartStep
  <1>2. CASE PumpStep
    <2>1. CASE PumpDeliver
      <3>1. Head(stream) \in Event
        BY <2>1, <1>0, HeadType DEF PumpDeliver
      <3> QED BY <2>1, <3>1, <1>0, Enqueued DEF PumpDeliver
    <2>2. CASE PumpBuffer
      BY <2>2 DEF PumpBuffer
    <2>3. CASE Disconnect
      BY <2>3 DEF Disconnect
    <2>4. CASE PumpTake
      BY <2>4 DEF PumpTake
    <2>5. ASSUME NEW r \in Runs, MarkAffected(r) PROVE RunsChange
      BY <2>5 DEF MarkAffected
    <2> QED BY <1>2, <2>1, <2>2, <2>3, <2>4, <2>5 DEF PumpStep
  <1>3. ASSUME NEW t \in Tasks, SharedStep(t) PROVE RunsChange
    <2>1. CASE EnsureEventPump(t)
      BY <2>1 DEF EnsureEventPump
    <2>2. CASE Send(t)
      <3>1. task[t].todo # <<>> => Head(task[t].todo) \in Event
        BY <1>0, HeadType
      <3> QED BY <2>2, <3>1, <1>0, Enqueued DEF Send
    <2>3. CASE OverflowClose(t)
      BY <2>3 DEF OverflowClose
    <2>4. CASE Mark(t)
      BY <2>4 DEF Mark
    <2>5. CASE MarkWrite(t)
      BY <2>5 DEF MarkWrite
    <2>6. CASE FlagUncertain(t)
      BY <2>6 DEF FlagUncertain
    <2> QED BY <1>3, <2>1, <2>2, <2>3, <2>4, <2>5, <2>6 DEF SharedStep
  <1>4. ASSUME NEW c \in Consumers, ConsumerStep(c) PROVE RunsChange
    <2>1. CASE TakeEvent(c)
      BY <2>1 DEF TakeEvent
    <2>2. CASE AppendItem(c)
      BY <2>2 DEF AppendItem
    <2>3. CASE RecordApproval(c)
      BY <2>3 DEF RecordApproval
    <2>4. CASE RegisterApproval(c)
      BY <2>4 DEF RegisterApproval
    <2>5. CASE ApplyTerminal(c)
      BY <2>5 DEF ApplyTerminal
    <2>6. CASE ConsumerFails(c)
      BY <2>6 DEF ConsumerFails
    <2>7. CASE ChannelEnds(c)
      BY <2>7 DEF ChannelEnds
    <2>8. CASE ConsumerCloses(c)
      BY <2>8 DEF ConsumerCloses
    <2> QED BY <1>4, <2>1, <2>2, <2>3, <2>4, <2>5, <2>6, <2>7, <2>8 DEF ConsumerStep
  <1>5. ASSUME NEW t \in Clients, ClientStep(t) PROVE RunsChange
    <2> t \in Tasks
      BY DEF Tasks
    <2>1. CASE Reconnect(t)
      BY <2>1 DEF Reconnect
    <2>2. CASE CheckAttached(t)
      BY <2>2 DEF CheckAttached
    <2>3. CASE LoadForReattach(t)
      BY <2>3 DEF LoadForReattach
    <2>4. ASSUME NEW c \in Consumers, PrepareReattach(t, c) PROVE RunsChange
      <3>1. task[t].run \in Runs
        BY <2>4, <1>0 DEF PrepareReattach, Resting
      <3> QED BY <2>4, <3>1, <1>0, Opened DEF PrepareReattach
    <2>5. CASE Promote(t)
      BY <2>5 DEF Promote
    <2>6. CASE Unroute(t)
      BY <2>6 DEF Unroute
    <2>7. CASE ActivateReattach(t)
      BY <2>7 DEF ActivateReattach
    <2>8. CASE CollectUncertain(t)
      BY <2>8 DEF CollectUncertain
    <2>9. CASE CommandReturns(t)
      BY <2>9 DEF CommandReturns
    <2>10. CASE OutcomeUnknown(t)
      BY <2>10 DEF OutcomeUnknown
    <2>11. CASE BeginResponse(t)
      BY <2>11 DEF BeginResponse
    <2>12. CASE RememberResponse(t)
      BY <2>12 DEF RememberResponse
    <2>13. CASE Respond(t)
      BY <2>13 DEF Respond
    <2>14. CASE ConfirmResponse(t)
      BY <2>14 DEF ConfirmResponse
    <2>15. CASE ForgetApproval(t)
      BY <2>15 DEF ForgetApproval
    <2> QED BY <1>5, <2>1, <2>2, <2>3, <2>4, <2>5, <2>6, <2>7, <2>8, <2>9, <2>10,
         <2>11, <2>12, <2>13, <2>14, <2>15 DEF ClientStep
  <1>6. CASE StartupStep
    <2>1. ASSUME NEW r \in Runs, StartupDowngrade(r) PROVE RunsChange
      BY <2>1 DEF StartupDowngrade, DropReceivers
    <2>2. ASSUME NEW r \in Runs, NEW c \in Consumers, StartupPrepare(r, c) PROVE RunsChange
      BY <2>2, <1>0, Opened DEF StartupPrepare
    <2>3. CASE StartupFails
      BY <2>3 DEF StartupFails, DropReceivers
    <2>4. ASSUME NEW c \in Consumers, StartupActivate(c) PROVE RunsChange
      BY <2>4 DEF StartupActivate
    <2>5. CASE StartupDone
      BY <2>5 DEF StartupDone
    <2> QED BY <1>6, <2>1, <2>2, <2>3, <2>4, <2>5 DEF StartupStep
  <1>7. CASE Environment
    <2>1. ASSUME NEW r \in Runs, StartRun(r) PROVE RunsChange
      BY <2>1 DEF StartRun
    <2>2. ASSUME NEW t \in Clients, NEW r \in Runs, ReconcileRun(t, r) PROVE RunsChange
      BY <2>2 DEF ReconcileRun
    <2>3. ASSUME NEW t \in Clients, NEW r \in Runs, Command(t, r) PROVE RunsChange
      BY <2>3 DEF Command
    <2>4. ASSUME NEW t \in Clients, NEW a \in Approvals, NEW d \in Decisions, ResolveApproval(t, a, d)
          PROVE  RunsChange
      BY <2>4 DEF ResolveApproval
    <2>5. ASSUME NEW r \in Runs, Accept(r) PROVE RunsChange
      BY <2>5 DEF Accept
    <2>6. ASSUME NEW r \in Runs, NEW kind \in EmitKinds, Emit(r, kind) PROVE RunsChange
      BY <2>6 DEF Emit
    <2>7. CASE PumpFail
      BY <2>7 DEF PumpFail
    <2>8. CASE Crash
      BY <2>8 DEF Crash
    <2> QED BY <1>7, <2>1, <2>2, <2>3, <2>4, <2>5, <2>6, <2>7, <2>8 DEF Environment
  <1>8. CASE UNCHANGED vars
    BY <1>8 DEF vars
  <1> QED BY ONLY [Next]_vars, <1>1, <1>2, <1>3, <1>4, <1>5, <1>6, <1>7, <1>8 DEF Next

(* So every route keeps leading to a consumer of its run.                  *)
LEMMA RoutesStep ==
    ASSUME TypeOK, SupervisorInv, RoutesInv, StateMoves, RunsChange PROVE RoutesInv'
  <1>0. /\ \A r \in Runs : state.routes[r] \in Consumers \cup {None}
        /\ \A r \in Runs : state'.routes[r] \in Consumers \cup {None}
    BY DEF TypeOK, State, StateMoves, StateInv
  <1>1. ASSUME NEW r \in Runs, state.routes[r] # None
        PROVE  consumers'[state.routes[r]].run \in {r, None}
    BY <1>0, <1>1 DEF RoutesInv, RunsChange, Unused, SenderAlive
  <1>2. CASE \A r \in Runs : state'.routes[r] \in {state.routes[r], None}
    BY <1>1, <1>2 DEF RoutesInv
  <1>3. ASSUME NEW r \in Runs, NEW c \in Consumers, RouteMade(r, c)
        PROVE  RoutesInv'
    <2>1. consumers'[c].run = r
      BY <1>3 DEF RouteMade, NewConsumer, Finished, SupervisorInv, RunsInv, ConsumersOK
    <2> QED BY <1>1, <1>3, <2>1 DEF RoutesInv, RouteMade
  <1> QED BY <1>2, <1>3 DEF StateMoves

(* An event of its run goes into a channel that accepts it.                *)
LEMMA EnqueueKeeps ==
    ASSUME TypeOK, ChannelsInv, NEW c, NEW e \in Event, Enqueue(c, e), Accepts(c),
           c \in Consumers => e.from = consumers[c].run
    PROVE  ChannelsInv'
  <1>1. /\ consumers' \in [Consumers -> Consumer]
        /\ \A d \in Consumers :
             /\ consumers'[d].pc = consumers[d].pc /\ consumers'[d].run = consumers[d].run
             /\ consumers'[d].event = consumers[d].event
             /\ consumers'[d].queue = IF d = c THEN Append(consumers[c].queue, e)
                                      ELSE consumers[d].queue
    BY Enqueued DEF TypeOK
  <1>2. ASSUME c \in Consumers
        PROVE  /\ Len(Append(consumers[c].queue, e)) <= RouteCapacity
               /\ Entries(Append(consumers[c].queue, e)) = Entries(consumers[c].queue) \cup {e}
    <2>1. consumers[c].queue \in Seq(Event)
      BY <1>2 DEF TypeOK, Consumer
    <2>2. Len(consumers[c].queue) < RouteCapacity /\ Len(consumers[c].queue) \in Nat
      BY <2>1 DEF Accepts
    <2> QED BY <2>1, <2>2, AppendEntries, StateAssumption
  <1> QED BY <1>1, <1>2 DEF ChannelsInv

(* A channel that is opened has nothing in it.                             *)
LEMMA OpenKeeps ==
    ASSUME TypeOK, ChannelsInv, NEW c \in Consumers, NEW r \in Runs,
           NewConsumer(c, r, "recv") \/ NewConsumer(c, r, "prepared")
    PROVE  ChannelsInv'
  <1>1. PICK pc \in {"recv", "prepared"} : NewConsumer(c, r, pc)
    OBVIOUS
  <1>2. /\ \A d \in Consumers \ {c} : consumers'[d] = consumers[d]
        /\ consumers'[c].pc = pc /\ consumers'[c].run = r /\ consumers'[c].queue = <<>>
    BY <1>1, Opened DEF TypeOK
  <1>3. Len(<<>>) <= RouteCapacity
    BY StateAssumption
  <1> QED BY <1>2, <1>3, EmptyEntries DEF ChannelsInv, Handling

(* A consumer that drops the event it has in hand, if any, keeps the rest. *)
LEMMA KeepChannels ==
    ASSUME ChannelsInv,
           \A d \in Consumers :
              \/ consumers'[d] = consumers[d]
              \/ consumers'[d] = Finished
              \/ /\ consumers'[d].run = consumers[d].run
                 /\ consumers'[d].queue = consumers[d].queue
                 /\ consumers'[d].pc # "done"
                 /\ \/ consumers'[d].pc \notin Handling
                    \/ /\ consumers[d].pc \in Handling
                       /\ consumers'[d].event = consumers[d].event
    PROVE  ChannelsInv'
  <1>1. Len(<<>>) <= RouteCapacity /\ Finished.pc = "done" /\ Finished.run = None
          /\ Finished.queue = <<>>
    BY StateAssumption DEF Finished
  <1> QED BY <1>1, EmptyEntries DEF ChannelsInv, Handling

(* Every step keeps the channels: an event is sent only to its run, and    *)
(* only when there is room.                                                *)
LEMMA ChannelsStep ==
    ASSUME TypeOK, SupervisorInv, ChannelsInv, SendersInv, RoutesInv, [Next]_vars
    PROVE  ChannelsInv'
  <1>0. /\ consumers \in [Consumers -> Consumer] /\ stream \in Seq(Event)
        /\ \A t \in Tasks : task[t].todo \in Seq(Event)
        /\ "starter" \in Tasks /\ "pump" \in Tasks /\ "marker" \in Tasks
    BY FieldTypes DEF Tasks, TypeOK
  <1> USE DEF SupervisorInv, RunsInv, TasksOK, ConsumersOK, RunsChange, Finished, At,
              ConsumerAt,
          ConsumerGo, Starter, storeVars, backVars, pumpVars, bootVars, innerVars,
          providerVars
  <1>1. CASE StartStep
    <2>1. CASE RegisterStart
      BY <2>1, <1>0, KeepChannels DEF RegisterStart
    <2>2. CASE CallStart
      BY <2>2, <1>0, KeepChannels DEF CallStart
    <2>3. CASE StartAccepted
      BY <2>3, <1>0, KeepChannels DEF StartAccepted
    <2>4. CASE StartUnknown
      BY <2>4, <1>0, KeepChannels DEF StartUnknown
    <2>5. CASE StartRejected
      BY <2>5, <1>0, KeepChannels DEF StartRejected
    <2>6. CASE MarkStart
      BY <2>6, <1>0, KeepChannels DEF MarkStart
    <2>7. CASE BindStart
      BY <2>7, <1>0, KeepChannels DEF BindStart
    <2>8. ASSUME NEW c \in Consumers, RouteStart(c) PROVE ChannelsInv'
      <3>1. Starter.run \in Runs
        BY <2>8, <1>0 DEF RouteStart, Resting
      <3>2. NewConsumer(c, Starter.run, "recv")
        BY <2>8 DEF RouteStart
      <3> QED BY <3>1, <3>2, <1>0, OpenKeeps
    <2>9. ASSUME NEW c \in Consumers, AttachRoute(c) PROVE ChannelsInv'
      <3>1. Starter.run \in Runs
        BY <2>9, <1>0 DEF AttachRoute, Resting
      <3>2. NewConsumer(c, Starter.run, "recv") \/ UNCHANGED consumers
        BY <2>9 DEF AttachRoute
      <3> QED BY <3>1, <3>2, <1>0, KeepChannels, OpenKeeps
    <2>10. CASE Retain
      BY <2>10, <1>0, KeepChannels DEF Retain
    <2>11. CASE RetainMark
      BY <2>11, <1>0, KeepChannels DEF RetainMark
    <2>12. CASE RetainPick
      BY <2>12, <1>0, KeepChannels DEF RetainPick
    <2>13. CASE RetainSend
      <3> DEFINE c == task["starter"].chan
                 e == Head(task["starter"].todo)
      <3>1. UNCHANGED consumers
              \/ (Enqueue(c, e) /\ Accepts(c) /\ task["starter"].todo # <<>> /\ task["starter"].pc \in {"send", "retainSend"})
        BY <2>13 DEF RetainSend
      <3>2. task["starter"].todo # <<>> => e \in Event /\ e \in Entries(task["starter"].todo)
        BY <1>0, TailEntries
      <3>3. /\ task["starter"].pc \in {"send", "retainSend"} => task["starter"].run \in Runs
            /\ task["starter"].chan \in Consumers \cup {None}
        BY <1>0, FieldTypes DEF Resting
      <3>4. c # None /\ c \in Consumers => consumers[c].run \in {task["starter"].run, None}
        BY <1>0 DEF SendersInv
      <3>5. Accepts(c) /\ c \in Consumers => consumers[c].run \in Runs
        BY DEF Accepts
      <3>6. task["starter"].todo # <<>> => e.from = task["starter"].run
        BY <3>2, <1>0 DEF SendersInv
      <3>7. Accepts(c) /\ c \in Consumers /\ task["starter"].todo # <<>> => e.from = consumers[c].run
        BY <3>4, <3>5, <3>6, NoneAssumption, StateAssumption
      <3> HIDE DEF e, c
      <3> QED BY <3>1, <3>2, <3>7, <1>0, EnqueueKeeps, KeepChannels
    <2> QED BY <1>1, <2>1, <2>2, <2>3, <2>4, <2>5, <2>6, <2>7, <2>8, <2>9, <2>10,
         <2>11, <2>12, <2>13 DEF StartStep
  <1>2. CASE PumpStep
    <2>1. CASE PumpDeliver
      <3> DEFINE e == Head(stream)
                 c == state.routes[e.from]
      <3>1. e \in Event /\ e.from \in Runs /\ c # None
        BY <2>1, <1>0, HeadType DEF PumpDeliver, Event
      <3>2. UNCHANGED consumers \/ (Enqueue(c, e) /\ Accepts(c))
        BY <2>1 DEF PumpDeliver
      <3>3. Accepts(c) /\ c \in Consumers => e.from = consumers[c].run
        BY <3>1, NoneAssumption, StateAssumption DEF RoutesInv, Accepts
      <3> HIDE DEF e, c
      <3> QED BY <3>1, <3>2, <3>3, <1>0, EnqueueKeeps, KeepChannels
    <2>2. CASE PumpBuffer
      BY <2>2, <1>0, KeepChannels DEF PumpBuffer
    <2>3. CASE Disconnect
      BY <2>3, <1>0, KeepChannels DEF Disconnect
    <2>4. CASE PumpTake
      BY <2>4, <1>0, KeepChannels DEF PumpTake
    <2>5. ASSUME NEW r \in Runs, MarkAffected(r) PROVE ChannelsInv'
      BY <2>5, <1>0, KeepChannels DEF MarkAffected
    <2> QED BY <1>2, <2>1, <2>2, <2>3, <2>4, <2>5 DEF PumpStep
  <1>3. ASSUME NEW t \in Tasks, SharedStep(t) PROVE ChannelsInv'
    <2>1. CASE EnsureEventPump(t)
      BY <2>1, <1>0, KeepChannels DEF EnsureEventPump
    <2>2. CASE Send(t)
      <3> DEFINE c == task[t].chan
                 e == Head(task[t].todo)
      <3>1. UNCHANGED consumers
              \/ (Enqueue(c, e) /\ Accepts(c) /\ task[t].todo # <<>> /\ task[t].pc \in {"send", "retainSend"})
        BY <2>2 DEF Send
      <3>2. task[t].todo # <<>> => e \in Event /\ e \in Entries(task[t].todo)
        BY <1>0, TailEntries
      <3>3. /\ task[t].pc \in {"send", "retainSend"} => task[t].run \in Runs
            /\ task[t].chan \in Consumers \cup {None}
        BY <1>0, FieldTypes DEF Resting
      <3>4. c # None /\ c \in Consumers => consumers[c].run \in {task[t].run, None}
        BY <1>0 DEF SendersInv
      <3>5. Accepts(c) /\ c \in Consumers => consumers[c].run \in Runs
        BY DEF Accepts
      <3>6. task[t].todo # <<>> => e.from = task[t].run
        BY <3>2, <1>0 DEF SendersInv
      <3>7. Accepts(c) /\ c \in Consumers /\ task[t].todo # <<>> => e.from = consumers[c].run
        BY <3>4, <3>5, <3>6, NoneAssumption, StateAssumption
      <3> HIDE DEF e, c
      <3> QED BY <3>1, <3>2, <3>7, <1>0, EnqueueKeeps, KeepChannels
    <2>3. CASE OverflowClose(t)
      BY <2>3, <1>0, KeepChannels DEF OverflowClose
    <2>4. CASE Mark(t)
      BY <2>4, <1>0, KeepChannels DEF Mark
    <2>5. CASE MarkWrite(t)
      BY <2>5, <1>0, KeepChannels DEF MarkWrite
    <2>6. CASE FlagUncertain(t)
      BY <2>6, <1>0, KeepChannels DEF FlagUncertain
    <2> QED BY <1>3, <2>1, <2>2, <2>3, <2>4, <2>5, <2>6 DEF SharedStep
  <1>4. ASSUME NEW c \in Consumers, ConsumerStep(c) PROVE ChannelsInv'
    <2>1. CASE TakeEvent(c)
      <3> DEFINE e == Head(consumers[c].queue)
      <3>1. consumers[c].queue \in Seq(Event) /\ consumers[c].queue # <<>> /\ consumers[c].pc = "recv"
        BY <2>1, <1>0 DEF TakeEvent, Consumer
      <3>2. /\ Tail(consumers[c].queue) \in Seq(Event)
            /\ Len(Tail(consumers[c].queue)) <= Len(consumers[c].queue)
            /\ Len(Tail(consumers[c].queue)) \in Nat /\ Len(consumers[c].queue) \in Nat
            /\ e \in Event /\ e \in Entries(consumers[c].queue)
            /\ Entries(Tail(consumers[c].queue)) \subseteq Entries(consumers[c].queue)
        BY <3>1, TailEntries
      <3>3. /\ \A d \in Consumers \ {c} : consumers'[d] = consumers[d]
            /\ consumers'[c].queue = Tail(consumers[c].queue)
            /\ consumers'[c].run = consumers[c].run /\ consumers'[c].pc # "done"
            /\ consumers'[c].pc \in Handling => consumers'[c].event = e
        BY <2>1, <1>0 DEF TakeEvent, AfterTake, Handling
      <3>4. Len(Tail(consumers[c].queue)) <= RouteCapacity
        BY <3>2, <1>0, StateAssumption DEF ChannelsInv
      <3> HIDE DEF e
      <3> SUFFICES ASSUME NEW d \in Consumers
                   PROVE  /\ consumers'[d].pc = "done" => consumers'[d].run = None
                          /\ Len(consumers'[d].queue) <= RouteCapacity
                          /\ \A x \in Entries(consumers'[d].queue) : x.from = consumers'[d].run
                          /\ consumers'[d].pc \in Handling =>
                                consumers'[d].event \in Event
                                /\ consumers'[d].event.from = consumers'[d].run
        BY DEF ChannelsInv
      <3>5. CASE d = c
        <4>1. \A x \in Entries(consumers[c].queue) : x.from = consumers[c].run
          BY <1>0 DEF ChannelsInv
        <4> QED BY <3>5, <3>2, <3>3, <3>4, <4>1
      <3>6. CASE d # c
        BY <3>6, <3>3, <1>0 DEF ChannelsInv
      <3> QED BY <3>5, <3>6
    <2>2. CASE AppendItem(c)
      BY <2>2, <1>0, KeepChannels DEF AppendItem, Handling
    <2>3. CASE RecordApproval(c)
      BY <2>3, <1>0, KeepChannels DEF RecordApproval, Handling
    <2>4. CASE RegisterApproval(c)
      BY <2>4, <1>0, KeepChannels DEF RegisterApproval, Handling
    <2>5. CASE ApplyTerminal(c)
      BY <2>5, <1>0, KeepChannels DEF ApplyTerminal, Handling
    <2>6. CASE ConsumerFails(c)
      BY <2>6, <1>0, KeepChannels DEF ConsumerFails, Handling
    <2>7. CASE ChannelEnds(c)
      BY <2>7, <1>0, KeepChannels DEF ChannelEnds, Handling
    <2>8. CASE ConsumerCloses(c)
      BY <2>8, <1>0, KeepChannels DEF ConsumerCloses, Handling
    <2> QED BY <1>4, <2>1, <2>2, <2>3, <2>4, <2>5, <2>6, <2>7, <2>8 DEF ConsumerStep
  <1>5. ASSUME NEW t \in Clients, ClientStep(t) PROVE ChannelsInv'
    <2> t \in Tasks
      BY DEF Tasks
    <2>1. CASE Reconnect(t)
      BY <2>1, <1>0, KeepChannels DEF Reconnect
    <2>2. CASE CheckAttached(t)
      BY <2>2, <1>0, KeepChannels DEF CheckAttached
    <2>3. CASE LoadForReattach(t)
      BY <2>3, <1>0, KeepChannels DEF LoadForReattach
    <2>4. ASSUME NEW c \in Consumers, PrepareReattach(t, c) PROVE ChannelsInv'
      <3>1. task[t].run \in Runs
        BY <2>4, <1>0 DEF PrepareReattach, Resting
      <3>2. NewConsumer(c, task[t].run, "prepared")
        BY <2>4 DEF PrepareReattach
      <3> QED BY <3>1, <3>2, <1>0, OpenKeeps
    <2>5. CASE Promote(t)
      BY <2>5, <1>0, KeepChannels DEF Promote, Handling
    <2>6. CASE Unroute(t)
      BY <2>6, <1>0, KeepChannels DEF Unroute
    <2>7. CASE ActivateReattach(t)
      BY <2>7, <1>0, KeepChannels DEF ActivateReattach, Handling
    <2>8. CASE CollectUncertain(t)
      BY <2>8, <1>0, KeepChannels DEF CollectUncertain
    <2>9. CASE CommandReturns(t)
      BY <2>9, <1>0, KeepChannels DEF CommandReturns
    <2>10. CASE OutcomeUnknown(t)
      BY <2>10, <1>0, KeepChannels DEF OutcomeUnknown
    <2>11. CASE BeginResponse(t)
      BY <2>11, <1>0, KeepChannels DEF BeginResponse
    <2>12. CASE RememberResponse(t)
      BY <2>12, <1>0, KeepChannels DEF RememberResponse
    <2>13. CASE Respond(t)
      BY <2>13, <1>0, KeepChannels DEF Respond
    <2>14. CASE ConfirmResponse(t)
      BY <2>14, <1>0, KeepChannels DEF ConfirmResponse
    <2>15. CASE ForgetApproval(t)
      BY <2>15, <1>0, KeepChannels DEF ForgetApproval
    <2> QED BY <1>5, <2>1, <2>2, <2>3, <2>4, <2>5, <2>6, <2>7, <2>8, <2>9, <2>10,
         <2>11, <2>12, <2>13, <2>14, <2>15 DEF ClientStep
  <1>6. CASE StartupStep
    <2>1. ASSUME NEW r \in Runs, StartupDowngrade(r) PROVE ChannelsInv'
      BY <2>1, <1>0, KeepChannels DEF StartupDowngrade, DropReceivers
    <2>2. ASSUME NEW r \in Runs, NEW c \in Consumers, StartupPrepare(r, c)
          PROVE  ChannelsInv'
      BY <2>2, <1>0, OpenKeeps DEF StartupPrepare
    <2>3. CASE StartupFails
      BY <2>3, <1>0, KeepChannels DEF StartupFails, DropReceivers
    <2>4. ASSUME NEW c \in Consumers, StartupActivate(c) PROVE ChannelsInv'
      BY <2>4, <1>0, KeepChannels DEF StartupActivate, Handling
    <2>5. CASE StartupDone
      BY <2>5, <1>0, KeepChannels DEF StartupDone
    <2> QED BY <1>6, <2>1, <2>2, <2>3, <2>4, <2>5 DEF StartupStep
  <1>7. CASE Environment
    <2>1. ASSUME NEW r \in Runs, StartRun(r) PROVE ChannelsInv'
      BY <2>1, <1>0, KeepChannels DEF StartRun
    <2>2. ASSUME NEW t \in Clients, NEW r \in Runs, ReconcileRun(t, r) PROVE ChannelsInv'
      BY <2>2, <1>0, KeepChannels DEF ReconcileRun
    <2>3. ASSUME NEW t \in Clients, NEW r \in Runs, Command(t, r) PROVE ChannelsInv'
      BY <2>3, <1>0, KeepChannels DEF Command
    <2>4. ASSUME NEW t \in Clients, NEW a \in Approvals, NEW d \in Decisions, ResolveApproval(t, a, d)
          PROVE  ChannelsInv'
      BY <2>4, <1>0, KeepChannels DEF ResolveApproval
    <2>5. ASSUME NEW r \in Runs, Accept(r) PROVE ChannelsInv'
      BY <2>5, <1>0, KeepChannels DEF Accept
    <2>6. ASSUME NEW r \in Runs, NEW kind \in EmitKinds, Emit(r, kind) PROVE ChannelsInv'
      BY <2>6, <1>0, KeepChannels DEF Emit
    <2>7. CASE PumpFail
      BY <2>7, <1>0, KeepChannels DEF PumpFail
    <2>8. CASE Crash
      BY <2>8, <1>0, KeepChannels DEF Crash
    <2> QED BY <1>7, <2>1, <2>2, <2>3, <2>4, <2>5, <2>6, <2>7, <2>8 DEF Environment
  <1>8. CASE UNCHANGED vars
    BY <1>0, <1>8, KeepChannels DEF vars
  <1> QED BY ONLY [Next]_vars, <1>1, <1>2, <1>3, <1>4, <1>5, <1>6, <1>7, <1>8 DEF Next

(* One task goes on.                                                       *)
LEMMA SendsOne ==
    ASSUME NEW t \in Tasks, \A u \in Tasks \ {t} : task'[u] = task[u],
           task'[t].chan \in {task[t].chan, None}, task'[t].todo \in {task[t].todo, <<>>},
           task'[t].run = task[t].run, task'[t].pc \notin Resting
    PROVE  AllSend
  <1>1. Sends(t)
    BY DEF Sends
  <1> QED BY <1>1 DEF AllSend

(* So it does with the simple steps.                                       *)
LEMMA SendsGo ==
    ASSUME TasksOK
    PROVE  /\ \A t \in Tasks, pc \in Steps \ Resting : Go(t, pc) => AllSend
           /\ \A t \in Tasks : Done(t) => AllSend
           /\ task' = task => AllSend
  <1>1. ASSUME NEW t \in Tasks, NEW pc \in Steps \ Resting, Go(t, pc) PROVE AllSend
    <2>1. /\ \A u \in Tasks \ {t} : task'[u] = task[u]
          /\ task'[t].chan = task[t].chan /\ task'[t].todo = task[t].todo
          /\ task'[t].run = task[t].run /\ task'[t].pc = pc
      BY <1>1 DEF Go, TasksOK, Fields
    <2> QED BY <2>1, SendsOne
  <1>2. ASSUME NEW t \in Tasks, Done(t) PROVE AllSend
    <2>1. /\ \A u \in Tasks \ {t} : task'[u] = task[u]
          /\ task'[t].chan = None /\ task'[t].todo = <<>>
      BY <1>2 DEF Done, TasksOK, Blank
    <2> QED BY <2>1 DEF AllSend, Sends
  <1>3. task' = task => AllSend
    BY DEF AllSend
  <1> QED BY <1>1, <1>2, <1>3

(* Then senders and channels still fit.                                    *)
LEMMA KeepSenders ==
    ASSUME TypeOK, SendersInv, RunsChange, AllSend
    PROVE  SendersInv'
  <1>1. \A u \in Tasks : task[u].chan \in Consumers \cup {None}
    BY FieldTypes
  <1>2. ASSUME NEW u \in Tasks, task[u].chan # None
        PROVE  consumers'[task[u].chan].run \in {task[u].run, None}
    BY <1>1, <1>2 DEF SendersInv, RunsChange, Unused, SenderAlive
  <1>3. ASSUME NEW u \in Tasks, task'[u].chan # None
        PROVE  consumers'[task'[u].chan].run \in {task'[u].run, None}
    BY <1>2, <1>3 DEF Sends, AllSend
  <1> QED BY <1>3, EmptyEntries DEF SendersInv, Sends, AllSend

(* Every step keeps senders and channels together.                         *)
LEMMA SendersStep ==
    ASSUME TypeOK, SupervisorInv, SendersInv, RoutesInv, RunsChange, [Next]_vars
    PROVE  SendersInv'
  <1>0. /\ consumers \in [Consumers -> Consumer]
        /\ \A t \in Tasks : task[t].todo \in Seq(Event)
        /\ "starter" \in Tasks /\ "pump" \in Tasks /\ "marker" \in Tasks
        /\ state.pendingEvents \in Seq(Event)
        /\ \A r \in Runs : /\ state.routes[r] \in Consumers \cup {None}
                           /\ state.uncertainStarts[r].events \in Seq(Event)
    BY FieldTypes DEF Tasks, TypeOK
  <1> USE DEF SupervisorInv, RunsInv, TasksOK, ConsumersOK, Resting, Blank, Finished, At,
          ConsumerAt, ConsumerGo, Starter, storeVars, backVars, pumpVars, bootVars, innerVars,
          providerVars
  <1>1. CASE StartStep
    <2>1. CASE RegisterStart
      BY <2>1, <1>0, KeepSenders, SendsGo, StepNames DEF RegisterStart
    <2>2. CASE CallStart
      BY <2>2, <1>0, KeepSenders, SendsGo, StepNames DEF CallStart
    <2>3. CASE StartAccepted
      BY <2>3, <1>0, KeepSenders, SendsGo, StepNames DEF StartAccepted
    <2>4. CASE StartUnknown
      BY <2>4, <1>0, KeepSenders, SendsGo, StepNames DEF StartUnknown
    <2>5. CASE StartRejected
      BY <2>5, <1>0, KeepSenders, SendsGo, StepNames DEF StartRejected
    <2>6. CASE MarkStart
      BY <2>6, <1>0, KeepSenders, SendsGo, StepNames DEF MarkStart
    <2>7. CASE BindStart
      BY <2>7, <1>0, KeepSenders, SendsGo, StepNames DEF BindStart
    <2>8. ASSUME NEW c \in Consumers, RouteStart(c) PROVE SendersInv'
      <3>1. Starter.run \in Runs
        BY <2>8, <1>0 DEF RouteStart
      <3>2. \A e \in Entries(EventsOf(state.pendingEvents, Starter.run)) : e.from = Starter.run
        BY <1>0, EventsOfType
      <3>3. consumers'[c].run = Starter.run
        BY <2>8 DEF RouteStart, NewConsumer
      <3>4. AllSend
        BY <2>8, <3>2, <3>3 DEF RouteStart, Sends, AllSend
      <3> QED BY <3>4, KeepSenders
    <2>9. ASSUME NEW c \in Consumers, AttachRoute(c) PROVE SendersInv'
      BY <2>9, <1>0, KeepSenders, SendsGo, StepNames DEF AttachRoute
    <2>10. CASE Retain
      <3>2. \A e \in Entries(EventsOf(state.pendingEvents, Starter.run)) : e.from = Starter.run
        BY <1>0, EventsOfType
      <3>4. AllSend
        BY <2>10, <3>2 DEF Retain, Sends, AllSend
      <3> QED BY <3>4, KeepSenders
    <2>11. CASE RetainMark
      BY <2>11, <1>0, KeepSenders, SendsGo, StepNames DEF RetainMark
    <2>12. CASE RetainPick
      <3>1. Starter.run \in Runs /\ state.routes[Starter.run] \in Consumers \cup {None}
        BY <2>12, <1>0 DEF RetainPick
      <3>3. AllSend
        BY <2>12, <3>1 DEF RetainPick, Sends, AllSend, RoutesInv
      <3> QED BY <3>3, KeepSenders
    <2>13. CASE RetainSend
      <3>1. CASE Done("starter") \/ Go("starter", "close")
        BY <3>1, <1>0, SendsGo, StepNames, KeepSenders
      <3>2. CASE task["starter"].todo # <<>> /\ task' = [task EXCEPT !["starter"].todo = Tail(task["starter"].todo)]
        <4>1. Entries(Tail(task["starter"].todo)) \subseteq Entries(task["starter"].todo)
          BY <3>2, <1>0, TailEntries
        <4>2. /\ \A u \in Tasks \ {"starter"} : task'[u] = task[u]
              /\ task'["starter"].todo = Tail(task["starter"].todo) /\ task'["starter"].run = task["starter"].run
              /\ task'["starter"].chan = task["starter"].chan /\ task'["starter"].pc = task["starter"].pc
          BY <3>2, <1>0
        <4>3. task["starter"].pc \notin Resting
          BY <2>13 DEF RetainSend
        <4>4. AllSend
          BY <4>1, <4>2, <4>3, <1>0 DEF Sends, AllSend, SendersInv
        <4> QED BY <4>4, KeepSenders
      <3>3. CASE task' = [task EXCEPT !["starter"].pc = "flag", !["starter"].chan = None, !["starter"].todo = <<>>]
        <4>1. /\ \A u \in Tasks \ {"starter"} : task'[u] = task[u]
              /\ task'["starter"].chan = None /\ task'["starter"].todo = <<>> /\ task'["starter"].pc \notin Resting
          BY <3>3, <1>0
        <4>2. AllSend
          BY <4>1 DEF AllSend, Sends
        <4> QED BY <4>2, KeepSenders
      <3> QED BY <2>13, <3>1, <3>2, <3>3 DEF RetainSend
    <2> QED BY <1>1, <2>1, <2>2, <2>3, <2>4, <2>5, <2>6, <2>7, <2>8, <2>9, <2>10,
         <2>11, <2>12, <2>13 DEF StartStep
  <1>2. CASE PumpStep
    <2>1. CASE PumpDeliver
      <3>0. /\ task["pump"].pc = "next"
            /\ task'["pump"].chan = task["pump"].chan /\ task'["pump"].todo = task["pump"].todo
        <4> DEFINE pc == IF consumers[state.routes[Head(stream).from]].pc = "done"
                         THEN "lost" ELSE "close"
                   r == Head(stream).from
        <4>1. /\ task["pump"].pc = "next"
              /\ \/ task' = task
                 \/ task' = [task EXCEPT !["pump"].pc = pc, !["pump"].run = r]
          BY <2>1, Zenon DEF PumpDeliver
        <4> HIDE DEF pc, r
        <4> QED BY <4>1, <1>0 DEF Fields
      <3>1. task'["pump"].chan = None /\ task'["pump"].todo = <<>>
        BY <3>0, <1>0 DEF SendersInv
      <3>2. \A u \in Tasks \ {"pump"} : task'[u] = task[u]
        BY <2>1, <1>0 DEF PumpDeliver
      <3>3. AllSend
        BY <3>1, <3>2 DEF Sends, AllSend
      <3> QED BY <3>3, KeepSenders
    <2>2. CASE PumpBuffer
      BY <2>2, <1>0, KeepSenders, SendsGo, StepNames DEF PumpBuffer
    <2>3. CASE Disconnect
      <3> DEFINE v1 == runStatus[task["pump"].run]
      <3>1. task' = [task EXCEPT !["pump"].pc = "lostWrite", !["pump"].seen = v1]
              \/ Done("pump")
        BY <2>3, Zenon DEF Disconnect
      <3> HIDE DEF v1
      <3>2. CASE task' = [task EXCEPT !["pump"].pc = "lostWrite", !["pump"].seen = v1]
        <4>1. /\ \A u \in Tasks \ {"pump"} : task'[u] = task[u]
              /\ task'["pump"].chan \in {task["pump"].chan, None} /\ task'["pump"].todo = task["pump"].todo
              /\ task'["pump"].run = task["pump"].run /\ task'["pump"].pc \notin Resting
          BY <3>2, <1>0
        <4> QED BY <4>1, <1>0, SendsOne, KeepSenders
      <3>3. CASE Done("pump")
        BY <3>3, <1>0, SendsGo, StepNames, KeepSenders
      <3> QED BY <3>1, <3>2, <3>3
    <2>4. CASE PumpTake
      BY <2>4, <1>0, KeepSenders DEF PumpTake, Sends, AllSend
    <2>5. ASSUME NEW r \in Runs, MarkAffected(r) PROVE SendersInv'
      BY <2>5, <1>0, KeepSenders DEF MarkAffected, Sends, SendersInv, AllSend
    <2> QED BY <1>2, <2>1, <2>2, <2>3, <2>4, <2>5 DEF PumpStep
  <1>3. ASSUME NEW t \in Tasks, SharedStep(t) PROVE SendersInv'
    <2>1. CASE EnsureEventPump(t)
      <3>1. AfterPump[task[t].pc] \notin Resting /\ task[t].pc \notin Resting
        BY <2>1 DEF EnsureEventPump, AfterPump
      <3>2. ASSUME NEW u \in Tasks PROVE task'[u] = task[u] \/ Sends(u)
        <4>1. CASE u # "pump" /\ u # t
          BY <2>1, <4>1, <1>0 DEF EnsureEventPump
        <4>2. CASE u = "pump"
          <5>1. task'[u] \in {task[u], [Blank EXCEPT !.pc = "next"]}
            BY <2>1, <4>2, <1>0 DEF EnsureEventPump
          <5> QED BY <5>1 DEF Sends
        <4>3. CASE u = t /\ u # "pump"
          <5>1. /\ task'[u].chan = task[u].chan /\ task'[u].run = task[u].run
                /\ task'[u].todo = task[u].todo /\ task'[u].pc = AfterPump[task[t].pc]
            <6> DEFINE pc == AfterPump[task[t].pc]
                       new == IF pumpHandle THEN task["pump"] ELSE [Blank EXCEPT !.pc = "next"]
            <6>1. task' = [task EXCEPT ![t].pc = pc, !["pump"] = new]
              BY <2>1 DEF EnsureEventPump
            <6> HIDE DEF pc, new
            <6>2. task'[t] = [task[t] EXCEPT !.pc = pc]
              BY <6>1, <4>3, <1>0
            <6> QED BY <6>2, <4>3, <1>0 DEF pc, Fields
          <5> QED BY <3>1, <4>3, <5>1 DEF Sends
        <4> QED BY <4>1, <4>2, <4>3
      <3>3. AllSend
        BY <3>2 DEF AllSend
      <3> QED BY <3>3, KeepSenders
    <2>2. CASE Send(t)
      <3>1. CASE Done(t) \/ Go(t, "close")
        BY <3>1, <1>0, SendsGo, StepNames, KeepSenders
      <3>2. CASE task[t].todo # <<>> /\ task' = [task EXCEPT ![t].todo = Tail(task[t].todo)]
        <4>1. Entries(Tail(task[t].todo)) \subseteq Entries(task[t].todo)
          BY <3>2, <1>0, TailEntries
        <4>2. /\ \A u \in Tasks \ {t} : task'[u] = task[u]
              /\ task'[t].todo = Tail(task[t].todo) /\ task'[t].run = task[t].run
              /\ task'[t].chan = task[t].chan /\ task'[t].pc = task[t].pc
          BY <3>2, <1>0
        <4>3. task[t].pc \notin Resting
          BY <2>2 DEF Send
        <4>4. AllSend
          BY <4>1, <4>2, <4>3, <1>0 DEF Sends, AllSend, SendersInv
        <4> QED BY <4>4, KeepSenders
      <3>3. CASE task' = [task EXCEPT ![t].pc = "flag", ![t].chan = None, ![t].todo = <<>>]
        <4>1. /\ \A u \in Tasks \ {t} : task'[u] = task[u]
              /\ task'[t].chan = None /\ task'[t].todo = <<>> /\ task'[t].pc \notin Resting
          BY <3>3, <1>0
        <4>2. AllSend
          BY <4>1 DEF AllSend, Sends
        <4> QED BY <4>2, KeepSenders
      <3> QED BY <2>2, <3>1, <3>2, <3>3 DEF Send
    <2>3. CASE OverflowClose(t)
      <3>1. CASE /\ \A u \in Tasks \ {t} : task'[u] = task[u]
                 /\ task'[t].chan \in {task[t].chan, None}
                 /\ task'[t].todo \in {task[t].todo, <<>>}
                 /\ task'[t].run = task[t].run /\ task'[t].pc \notin Resting
        BY <3>1, <1>0, SendsOne, KeepSenders
      <3>2. CASE Done(t)
        BY <3>2, <1>0, SendsGo, StepNames, KeepSenders
      <3> QED BY <2>3, <3>1, <3>2, <1>0 DEF OverflowClose
    <2>4. CASE Mark(t)
      <3> DEFINE v1 == runStatus[task[t].run]
      <3>1. task' = [task EXCEPT ![t].pc = "markWrite", ![t].seen = v1]
              \/ Done(t)
        BY <2>4, Zenon DEF Mark
      <3> HIDE DEF v1
      <3>2. CASE task' = [task EXCEPT ![t].pc = "markWrite", ![t].seen = v1]
        <4>1. /\ \A u \in Tasks \ {t} : task'[u] = task[u]
              /\ task'[t].chan \in {task[t].chan, None} /\ task'[t].todo = task[t].todo
              /\ task'[t].run = task[t].run /\ task'[t].pc \notin Resting
          BY <3>2, <1>0
        <4> QED BY <4>1, <1>0, SendsOne, KeepSenders
      <3>3. CASE Done(t)
        BY <3>3, <1>0, SendsGo, StepNames, KeepSenders
      <3> QED BY <3>1, <3>2, <3>3
    <2>5. CASE MarkWrite(t)
      BY <2>5, <1>0, KeepSenders, SendsGo, StepNames DEF MarkWrite
    <2>6. CASE FlagUncertain(t)
      BY <2>6, <1>0, KeepSenders, SendsGo, StepNames DEF FlagUncertain
    <2> QED BY <1>3, <2>1, <2>2, <2>3, <2>4, <2>5, <2>6 DEF SharedStep
  <1>4. ASSUME NEW c \in Consumers, ConsumerStep(c) PROVE SendersInv'
    <2>1. CASE TakeEvent(c)
      BY <2>1, <1>0, KeepSenders, SendsGo, StepNames DEF TakeEvent
    <2>2. CASE AppendItem(c)
      BY <2>2, <1>0, KeepSenders, SendsGo, StepNames DEF AppendItem
    <2>3. CASE RecordApproval(c)
      BY <2>3, <1>0, KeepSenders, SendsGo, StepNames DEF RecordApproval
    <2>4. CASE RegisterApproval(c)
      BY <2>4, <1>0, KeepSenders, SendsGo, StepNames DEF RegisterApproval
    <2>5. CASE ApplyTerminal(c)
      BY <2>5, <1>0, KeepSenders, SendsGo, StepNames DEF ApplyTerminal
    <2>6. CASE ConsumerFails(c)
      BY <2>6, <1>0, KeepSenders, SendsGo, StepNames DEF ConsumerFails
    <2>7. CASE ChannelEnds(c)
      BY <2>7, <1>0, KeepSenders, SendsGo, StepNames DEF ChannelEnds
    <2>8. CASE ConsumerCloses(c)
      BY <2>8, <1>0, KeepSenders, SendsGo, StepNames DEF ConsumerCloses
    <2> QED BY <1>4, <2>1, <2>2, <2>3, <2>4, <2>5, <2>6, <2>7, <2>8 DEF ConsumerStep
  <1>5. ASSUME NEW t \in Clients, ClientStep(t) PROVE SendersInv'
    <2> t \in Tasks
      BY DEF Tasks
    <2>1. CASE Reconnect(t)
      BY <2>1, <1>0, KeepSenders, SendsGo, StepNames DEF Reconnect
    <2>2. CASE CheckAttached(t)
      BY <2>2, <1>0, KeepSenders, SendsGo, StepNames DEF CheckAttached
    <2>3. CASE LoadForReattach(t)
      <3> DEFINE v1 == LoadRequests(task[t].run)
      <3>1. task' = [task EXCEPT ![t].pc = "prepare", ![t].restored = v1]
              \/ Done(t)
        BY <2>3, Zenon DEF LoadForReattach
      <3> HIDE DEF v1
      <3>2. CASE task' = [task EXCEPT ![t].pc = "prepare", ![t].restored = v1]
        <4>1. /\ \A u \in Tasks \ {t} : task'[u] = task[u]
              /\ task'[t].chan \in {task[t].chan, None} /\ task'[t].todo = task[t].todo
              /\ task'[t].run = task[t].run /\ task'[t].pc \notin Resting
          BY <3>2, <1>0
        <4> QED BY <4>1, <1>0, SendsOne, KeepSenders
      <3>3. CASE Done(t)
        BY <3>3, <1>0, SendsGo, StepNames, KeepSenders
      <3> QED BY <3>1, <3>2, <3>3
    <2>4. ASSUME NEW c \in Consumers, PrepareReattach(t, c) PROVE SendersInv'
      <3>1. task[t].run \in Runs
        BY <2>4, <1>0 DEF PrepareReattach
      <3>3. consumers'[c].run = task[t].run
        BY <2>4 DEF PrepareReattach, NewConsumer
      <3>4. AllSend
        BY <2>4, <3>1, <3>3 DEF PrepareReattach, Sends, AllSend
      <3> QED BY <3>4, KeepSenders
    <2>5. CASE Promote(t)
      <3>1. task' = [task EXCEPT ![t].pc = "unroute", ![t].chan = None]
              \/ Go(t, "activate")
        BY <2>5, Zenon DEF Promote
      <3>2. CASE task' = [task EXCEPT ![t].pc = "unroute", ![t].chan = None]
        <4>1. /\ \A u \in Tasks \ {t} : task'[u] = task[u]
              /\ task'[t].chan \in {task[t].chan, None} /\ task'[t].todo = task[t].todo
              /\ task'[t].run = task[t].run /\ task'[t].pc \notin Resting
          BY <3>2, <1>0
        <4> QED BY <4>1, <1>0, SendsOne, KeepSenders
      <3>3. CASE Go(t, "activate")
        BY <3>3, <1>0, SendsGo, StepNames, KeepSenders
      <3> QED BY <3>1, <3>2, <3>3
    <2>6. CASE Unroute(t)
      BY <2>6, <1>0, KeepSenders, SendsGo, StepNames DEF Unroute
    <2>7. CASE ActivateReattach(t)
      <3>1. CASE /\ \A u \in Tasks \ {t} : task'[u] = task[u]
                 /\ task'[t].chan \in {task[t].chan, None}
                 /\ task'[t].todo \in {task[t].todo, <<>>}
                 /\ task'[t].run = task[t].run /\ task'[t].pc \notin Resting
        BY <3>1, <1>0, SendsOne, KeepSenders
      <3>2. CASE Done(t)
        BY <3>2, <1>0, SendsGo, StepNames, KeepSenders
      <3> QED BY <2>7, <3>1, <3>2, <1>0 DEF ActivateReattach
    <2>8. CASE CollectUncertain(t)
      <3> DEFINE r == task[t].run
                 c == state.routes[r]
                 todo == EventsOf(state.uncertainStarts[r].events, r)
      <3>1. r \in Runs
        BY <2>8, <1>0 DEF CollectUncertain
      <3>2. \A e \in Entries(todo) : e.from = r
        BY <3>1, <1>0, EventsOfType
      <3>3. c \in Consumers \cup {None} /\ (c # None => consumers[c].run \in {r, None})
        BY <3>1, <1>0 DEF RoutesInv
      <3>4. UNCHANGED consumers
        BY <2>8 DEF CollectUncertain
      <3>5. CASE Done(t)
        BY <3>5, SendsGo, KeepSenders
      <3>6. CASE ~Done(t)
        <4>1. /\ \A u \in Tasks \ {t} : task'[u] = task[u]
              /\ task'[t].run = r /\ task'[t].chan = c /\ task'[t].todo = todo
              /\ task'[t].pc \in {"close", "send"}
          <5> DEFINE pc == IF c = None THEN "close" ELSE "send"
                     over == state.uncertainStarts[r].overflow
          <5>1. task' = [task EXCEPT ![t].pc = pc, ![t].chan = c, ![t].todo = todo,
                                     ![t].overflow = over]
            BY <2>8, <3>6 DEF CollectUncertain
          <5>2. pc \in {"close", "send"}
            OBVIOUS
          <5> HIDE DEF pc, c, todo, over
          <5> QED BY <5>1, <5>2, <1>0
        <4> HIDE DEF r, c, todo
        <4>2. AllSend
          BY <4>1, <3>2, <3>3, <3>4 DEF Sends, AllSend
        <4> QED BY <4>2, KeepSenders
      <3> QED BY <3>5, <3>6
    <2>9. CASE CommandReturns(t)
      BY <2>9, <1>0, KeepSenders, SendsGo, StepNames DEF CommandReturns
    <2>10. CASE OutcomeUnknown(t)
      <3> DEFINE v1 == runStatus[task[t].run]
      <3>1. task' = [task EXCEPT ![t].pc = "unknownWrite", ![t].seen = v1]
              \/ Go(t, "flag")
        BY <2>10, Zenon DEF OutcomeUnknown
      <3> HIDE DEF v1
      <3>2. CASE task' = [task EXCEPT ![t].pc = "unknownWrite", ![t].seen = v1]
        <4>1. /\ \A u \in Tasks \ {t} : task'[u] = task[u]
              /\ task'[t].chan \in {task[t].chan, None} /\ task'[t].todo = task[t].todo
              /\ task'[t].run = task[t].run /\ task'[t].pc \notin Resting
          BY <3>2, <1>0
        <4> QED BY <4>1, <1>0, SendsOne, KeepSenders
      <3>3. CASE Go(t, "flag")
        BY <3>3, <1>0, SendsGo, StepNames, KeepSenders
      <3> QED BY <3>1, <3>2, <3>3
    <2>11. CASE BeginResponse(t)
      BY <2>11, <1>0, KeepSenders, SendsGo, StepNames DEF BeginResponse
    <2>12. CASE RememberResponse(t)
      BY <2>12, <1>0, KeepSenders, SendsGo, StepNames DEF RememberResponse
    <2>13. CASE Respond(t)
      BY <2>13, <1>0, KeepSenders, SendsGo, StepNames DEF Respond
    <2>14. CASE ConfirmResponse(t)
      BY <2>14, <1>0, KeepSenders, SendsGo, StepNames DEF ConfirmResponse
    <2>15. CASE ForgetApproval(t)
      BY <2>15, <1>0, KeepSenders, SendsGo, StepNames DEF ForgetApproval
    <2> QED BY <1>5, <2>1, <2>2, <2>3, <2>4, <2>5, <2>6, <2>7, <2>8, <2>9, <2>10,
         <2>11, <2>12, <2>13, <2>14, <2>15 DEF ClientStep
  <1>6. CASE StartupStep
    <2>1. ASSUME NEW r \in Runs, StartupDowngrade(r) PROVE SendersInv'
      BY <2>1, <1>0, KeepSenders, SendsGo, StepNames DEF StartupDowngrade
    <2>2. ASSUME NEW r \in Runs, NEW c \in Consumers, StartupPrepare(r, c) PROVE SendersInv'
      BY <2>2, <1>0, KeepSenders, SendsGo, StepNames DEF StartupPrepare
    <2>3. CASE StartupFails
      BY <2>3, <1>0, KeepSenders, SendsGo, StepNames DEF StartupFails
    <2>4. ASSUME NEW c \in Consumers, StartupActivate(c) PROVE SendersInv'
      BY <2>4, <1>0, KeepSenders DEF StartupActivate, Sends, AllSend
    <2>5. CASE StartupDone
      BY <2>5, <1>0, KeepSenders, SendsGo, StepNames DEF StartupDone
    <2> QED BY <1>6, <2>1, <2>2, <2>3, <2>4, <2>5 DEF StartupStep
  <1>7. CASE Environment
    <2>1. ASSUME NEW r \in Runs, StartRun(r) PROVE SendersInv'
      BY <2>1, <1>0, KeepSenders DEF StartRun, Sends, SendersInv, AllSend
    <2>2. ASSUME NEW t \in Clients, NEW r \in Runs, ReconcileRun(t, r) PROVE SendersInv'
      BY <2>2, <1>0, KeepSenders DEF ReconcileRun, Sends, SendersInv, AllSend
    <2>3. ASSUME NEW t \in Clients, NEW r \in Runs, Command(t, r) PROVE SendersInv'
      BY <2>3, <1>0, KeepSenders DEF Command, Sends, SendersInv, AllSend
    <2>4. ASSUME NEW t \in Clients, NEW a \in Approvals, NEW d \in Decisions, ResolveApproval(t, a, d)
          PROVE  SendersInv'
      BY <2>4, <1>0, KeepSenders DEF ResolveApproval, Sends, SendersInv, AllSend
    <2>5. ASSUME NEW r \in Runs, Accept(r) PROVE SendersInv'
      BY <2>5, <1>0, KeepSenders, SendsGo, StepNames DEF Accept
    <2>6. ASSUME NEW r \in Runs, NEW kind \in EmitKinds, Emit(r, kind) PROVE SendersInv'
      BY <2>6, <1>0, KeepSenders, SendsGo, StepNames DEF Emit
    <2>7. CASE PumpFail
      <3>1. AllSend
        BY <2>7, <1>0 DEF PumpFail, Go, Sends, AllSend, SendersInv
      <3> QED BY <3>1, KeepSenders
    <2>8. CASE Crash
      BY <2>8, <1>0, KeepSenders DEF Crash, Sends, AllSend
    <2> QED BY <1>7, <2>1, <2>2, <2>3, <2>4, <2>5, <2>6, <2>7, <2>8 DEF Environment
  <1>8. CASE UNCHANGED vars
    BY <1>0, <1>8, KeepSenders DEF vars, AllSend
  <1> QED BY ONLY [Next]_vars, <1>1, <1>2, <1>3, <1>4, <1>5, <1>6, <1>7, <1>8 DEF Next

-----------------------------------------------------------------------------
(* Types: the tables, and the rest.                                        *)

(* Every step writes rows.                                                 *)
LEMMA TablesTypedStep ==
    ASSUME TypeOK, SupervisorInv, ChannelsInv, [Next]_vars
    PROVE  TablesTypeOK'
  <1>0. TablesTypeOK /\ Writes
    BY TablesStep DEF TypeOK, SupervisorInv
  <1>1. CASE UNCHANGED tableVars
    BY <1>0, <1>1 DEF tableVars, TablesTypeOK
  <1>2. ASSUME NEW r \in Runs, NEW to \in RunStatus, NEW p \in Providers \cup {None},
               TransitionRun(r, runStatus[r], to, p)
        PROVE  TablesTypeOK'
    <2>1. runStatus[r] \in RunStatus \cup {"absent"}
      BY <1>0 DEF TablesTypeOK
    <2> QED BY <1>0, <1>2, <2>1, TablesType
  <1>3. ASSUME NEW c \in Consumers, RecordApproval(c) PROVE TablesTypeOK'
    <2>1. consumers[c].run \in Runs /\ consumers[c].event.n \in Requests
      BY <1>3, StateAssumption
      DEF RecordApproval, SupervisorInv, RunsInv, ConsumersOK, ConsumerAt, ChannelsInv,
          Handling, Event
    <2> QED BY <1>0, <1>1, <1>3, <2>1, TablesType DEF RecordApproval
  <1>4. ASSUME NEW t \in Clients, ConfirmResponse(t) PROVE TablesTypeOK'
    <2>1. task[t].approval \in Approvals
      BY <1>4 DEF ConfirmResponse, SupervisorInv, AnswersInv, Answering, At, Tasks
    <2> QED BY <1>0, <1>1, <1>4, <2>1, TablesType DEF ConfirmResponse
  <1>5. CASE \/ \E r \in Runs : CreateRun(r)
             \/ \E a \in Approvals, d \in Decisions : BeginApprovalResponse(a, d)
    BY <1>0, <1>5, TablesType
  <1> QED BY <1>0, <1>1, <1>2, <1>3, <1>4, <1>5 DEF Writes

(* One more failure of one kind is within its bound.                       *)
LEMMA FaultsType ==
    ASSUME Around
    PROVE  /\ StoreFault => faults' \in [store : 0..MaxStoreFaults, pump : 0..MaxPumpFailures,
                                        crash : 0..MaxCrashes]
           /\ faults.pump < MaxPumpFailures =>
                [faults EXCEPT !.pump = @ + 1] \in
                   [store : 0..MaxStoreFaults, pump : 0..MaxPumpFailures, crash : 0..MaxCrashes]
           /\ faults.crash < MaxCrashes =>
                [faults EXCEPT !.crash = @ + 1] \in
                   [store : 0..MaxStoreFaults, pump : 0..MaxPumpFailures, crash : 0..MaxCrashes]
  <1> DEFINE Counts == [store : 0..MaxStoreFaults, pump : 0..MaxPumpFailures,
                        crash : 0..MaxCrashes]
  <1>1. /\ faults \in Counts
        /\ faults.store \in 0..MaxStoreFaults /\ faults.pump \in 0..MaxPumpFailures
        /\ faults.crash \in 0..MaxCrashes
        /\ MaxStoreFaults \in Nat /\ MaxPumpFailures \in Nat /\ MaxCrashes \in Nat
    BY SupervisorAssumption DEF Around
  <1>2. \A n \in 0..MaxStoreFaults : [faults EXCEPT !.store = n] \in Counts
    BY <1>1
  <1>3. \A n \in 0..MaxPumpFailures : [faults EXCEPT !.pump = n] \in Counts
    BY <1>1
  <1>4. \A n \in 0..MaxCrashes : [faults EXCEPT !.crash = n] \in Counts
    BY <1>1
  <1> HIDE DEF Counts
  <1>5. StoreFault => faults' \in Counts
    BY <1>1, <1>2 DEF StoreFault
  <1>6. faults.pump < MaxPumpFailures => [faults EXCEPT !.pump = @ + 1] \in Counts
    BY <1>1, <1>3
  <1>7. faults.crash < MaxCrashes => [faults EXCEPT !.crash = @ + 1] \in Counts
    BY <1>1, <1>4
  <1> QED BY <1>5, <1>6, <1>7 DEF Counts

(* Every step keeps their types. *)
LEMMA AroundStep ==
    ASSUME Around, SupervisorInv, ChannelsInv, [Next]_vars
    PROVE  Around'
  <1> USE SupervisorAssumption
  <1> USE DEF Around, storeVars, backVars, pumpVars, bootVars, innerVars,
              providerVars, SupervisorInv
  <1>1. CASE StartStep
    <2>1. CASE RegisterStart
      BY <2>1 DEF RegisterStart
    <2>2. CASE CallStart
      BY <2>2 DEF CallStart
    <2>3. CASE StartAccepted
      BY <2>3 DEF StartAccepted
    <2>4. CASE StartUnknown
      BY <2>4 DEF StartUnknown
    <2>5. CASE StartRejected
      BY <2>5 DEF StartRejected
    <2>6. CASE MarkStart
      BY <2>6, FaultsType DEF MarkStart, TryTransition, TransitionFails, ReadFails
    <2>7. CASE BindStart
      BY <2>7, FaultsType DEF BindStart, TryTransition, TransitionFails, ReadFails
    <2>8. ASSUME NEW c \in Consumers, RouteStart(c) PROVE Around'
      BY <2>8 DEF RouteStart
    <2>9. ASSUME NEW c \in Consumers, AttachRoute(c) PROVE Around'
      BY <2>9, FaultsType DEF AttachRoute, ReadFails
    <2>10. CASE Retain
      BY <2>10 DEF Retain
    <2>11. CASE RetainMark
      BY <2>11, FaultsType DEF RetainMark, TryTransition, TransitionFails, ReadFails
    <2>12. CASE RetainPick
      BY <2>12 DEF RetainPick
    <2>13. CASE RetainSend
      BY <2>13 DEF RetainSend
    <2> QED BY <1>1, <2>1, <2>2, <2>3, <2>4, <2>5, <2>6, <2>7, <2>8, <2>9, <2>10,
         <2>11, <2>12, <2>13 DEF StartStep
  <1>2. CASE PumpStep
    <2>1. CASE PumpDeliver
      BY <2>1, TailType DEF PumpDeliver
    <2>2. CASE PumpBuffer
      BY <2>2, TailType DEF PumpBuffer
    <2>3. CASE Disconnect
      BY <2>3, FaultsType DEF Disconnect, TryTransition, TransitionFails, ReadFails
    <2>4. CASE PumpTake
      BY <2>4 DEF PumpTake
    <2>5. ASSUME NEW r \in Runs, MarkAffected(r) PROVE Around'
      BY <2>5 DEF MarkAffected
    <2> QED BY <1>2, <2>1, <2>2, <2>3, <2>4, <2>5 DEF PumpStep
  <1>3. ASSUME NEW t \in Tasks, SharedStep(t) PROVE Around'
    <2>1. CASE EnsureEventPump(t)
      BY <2>1 DEF EnsureEventPump
    <2>2. CASE Send(t)
      BY <2>2 DEF Send
    <2>3. CASE OverflowClose(t)
      BY <2>3 DEF OverflowClose
    <2>4. CASE Mark(t)
      BY <2>4, FaultsType DEF Mark, ReadFails
    <2>5. CASE MarkWrite(t)
      BY <2>5, FaultsType DEF MarkWrite, TryTransition, TransitionFails, ReadFails
    <2>6. CASE FlagUncertain(t)
      BY <2>6 DEF FlagUncertain
    <2> QED BY <1>3, <2>1, <2>2, <2>3, <2>4, <2>5, <2>6 DEF SharedStep
  <1>4. ASSUME NEW c \in Consumers, ConsumerStep(c) PROVE Around'
    <2>1. CASE TakeEvent(c)
      BY <2>1, FaultsType DEF TakeEvent, ReadFails
    <2>2. CASE AppendItem(c)
      <3>1. consumers[c].run \in Runs /\ consumers[c].event.n \in 1..MaxEvents
        BY <2>2 DEF AppendItem, RunsInv, ConsumersOK, ConsumerAt, ChannelsInv,
            Handling, Event
      <3> DEFINE more == Append(timeline[consumers[c].run], consumers[c].event.n)
      <3>2. more \in Seq(1..MaxEvents)
        BY <3>1
      <3>3. timeline' = timeline \/ timeline' = [timeline EXCEPT ![consumers[c].run] = more]
        BY <2>2, Zenon DEF AppendItem
      <3>4. timeline' \in [Runs -> Seq(1..MaxEvents)]
        <4> HIDE DEF more
        <4> QED BY <3>1, <3>2, <3>3
      <3> QED BY <2>2, <3>4, FaultsType DEF AppendItem
    <2>3. CASE RecordApproval(c)
      BY <2>3, FaultsType DEF RecordApproval
    <2>4. CASE RegisterApproval(c)
      BY <2>4 DEF RegisterApproval
    <2>5. CASE ApplyTerminal(c)
      BY <2>5, FaultsType DEF ApplyTerminal, TryTransition, TransitionFails, ReadFails
    <2>6. CASE ConsumerFails(c)
      BY <2>6, FaultsType DEF ConsumerFails, TryTransition, TransitionFails, ReadFails
    <2>7. CASE ChannelEnds(c)
      BY <2>7 DEF ChannelEnds
    <2>8. CASE ConsumerCloses(c)
      BY <2>8 DEF ConsumerCloses
    <2> QED BY <1>4, <2>1, <2>2, <2>3, <2>4, <2>5, <2>6, <2>7, <2>8 DEF ConsumerStep
  <1>5. ASSUME NEW t \in Clients, ClientStep(t) PROVE Around'
    <2> t \in Tasks
      BY DEF Tasks
    <2>1. CASE Reconnect(t)
      BY <2>1 DEF Reconnect
    <2>2. CASE CheckAttached(t)
      BY <2>2 DEF CheckAttached
    <2>3. CASE LoadForReattach(t)
      BY <2>3, FaultsType DEF LoadForReattach, TryTransition, TransitionFails, ReadFails
    <2>4. ASSUME NEW c \in Consumers, PrepareReattach(t, c) PROVE Around'
      BY <2>4 DEF PrepareReattach
    <2>5. CASE Promote(t)
      BY <2>5, FaultsType DEF Promote, TryTransition, TransitionFails, ReadFails
    <2>6. CASE Unroute(t)
      BY <2>6 DEF Unroute
    <2>7. CASE ActivateReattach(t)
      BY <2>7 DEF ActivateReattach
    <2>8. CASE CollectUncertain(t)
      BY <2>8 DEF CollectUncertain
    <2>9. CASE CommandReturns(t)
      BY <2>9 DEF CommandReturns
    <2>10. CASE OutcomeUnknown(t)
      BY <2>10, FaultsType DEF OutcomeUnknown, TryTransition, TransitionFails, ReadFails
    <2>11. CASE BeginResponse(t)
      BY <2>11, FaultsType DEF BeginResponse
    <2>12. CASE RememberResponse(t)
      BY <2>12 DEF RememberResponse
    <2>13. CASE Respond(t)
      <3>1. task[t].approval \in Approvals /\ task[t].decision \in Decisions
        BY <2>13 DEF Respond, AnswersInv, Answering, At
      <3>2. answers[task[t].approval] \cup {task[t].decision} \in SUBSET Decisions
        BY <3>1
      <3>3. answers' \in [Approvals -> SUBSET Decisions]
        BY <2>13, <3>1, <3>2 DEF Respond
      <3> QED BY <2>13, <3>3 DEF Respond
    <2>14. CASE ConfirmResponse(t)
      BY <2>14, FaultsType DEF ConfirmResponse
    <2>15. CASE ForgetApproval(t)
      BY <2>15 DEF ForgetApproval
    <2> QED BY <1>5, <2>1, <2>2, <2>3, <2>4, <2>5, <2>6, <2>7, <2>8, <2>9, <2>10,
         <2>11, <2>12, <2>13, <2>14, <2>15 DEF ClientStep
  <1>6. CASE StartupStep
    <2>1. ASSUME NEW r \in Runs, StartupDowngrade(r) PROVE Around'
      BY <2>1, FaultsType DEF StartupDowngrade
    <2>2. ASSUME NEW r \in Runs, NEW c \in Consumers, StartupPrepare(r, c) PROVE Around'
      BY <2>2 DEF StartupPrepare
    <2>3. CASE StartupFails
      BY <2>3, FaultsType DEF StartupFails
    <2>4. ASSUME NEW c \in Consumers, StartupActivate(c) PROVE Around'
      BY <2>4 DEF StartupActivate
    <2>5. CASE StartupDone
      BY <2>5 DEF StartupDone
    <2> QED BY <1>6, <2>1, <2>2, <2>3, <2>4, <2>5 DEF StartupStep
  <1>7. CASE Environment
    <2>1. ASSUME NEW r \in Runs, StartRun(r) PROVE Around'
      BY <2>1 DEF StartRun
    <2>2. ASSUME NEW t \in Clients, NEW r \in Runs, ReconcileRun(t, r) PROVE Around'
      BY <2>2 DEF ReconcileRun
    <2>3. ASSUME NEW t \in Clients, NEW r \in Runs, Command(t, r) PROVE Around'
      BY <2>3 DEF Command
    <2>4. ASSUME NEW t \in Clients, NEW a \in Approvals, NEW d \in Decisions, ResolveApproval(t, a, d)
          PROVE  Around'
      BY <2>4 DEF ResolveApproval
    <2>5. ASSUME NEW r \in Runs, Accept(r) PROVE Around'
      BY <2>5 DEF Accept
    <2>6. ASSUME NEW r \in Runs, NEW kind \in EmitKinds, Emit(r, kind) PROVE Around'
      <3>1. [from |-> r, n |-> Len(sent[r]) + 1] \in Event
        BY <2>6, StateAssumption DEF Emit, Event
      <3> QED BY <2>6, <3>1 DEF Emit, IsTerminal
    <2>7. CASE PumpFail
      BY <2>7, FaultsType DEF PumpFail, RunsInv, StateOK
    <2>8. CASE Crash
      <3>1. /\ faults' \in [store : 0..MaxStoreFaults, pump : 0..MaxPumpFailures, crash : 0..MaxCrashes]
            /\ page' \subseteq Runs
        BY <2>8, FaultsType DEF Crash
      <3>2. provider' \in [Runs -> {"none", "requested", "live", "ended", "refused"}]
        <4>1. PICK lost \in SUBSET Runs :
                 provider' = [r \in Runs |-> IF r \in lost THEN "ended" ELSE provider[r]]
          BY <2>8 DEF Crash
        <4> QED BY <4>1
      <3>3. stream' \in Seq(Event) /\ affected' \subseteq Runs /\ pumpHandle' \in BOOLEAN
        BY <2>8, NoEvents DEF Crash
      <3> QED BY <2>8, <3>1, <3>2, <3>3 DEF Crash
    <2> QED BY <1>7, <2>1, <2>2, <2>3, <2>4, <2>5, <2>6, <2>7, <2>8 DEF Environment
  <1>8. CASE UNCHANGED vars
    BY <1>8 DEF vars, tableVars
  <1> QED BY ONLY [Next]_vars, <1>1, <1>2, <1>3, <1>4, <1>5, <1>6, <1>7, <1>8 DEF Next

(* Everything has its type.                                                *)
LEMMA TypeStep ==
    ASSUME TypeOK, SupervisorInv, StateInv(state), StartsOnce, Present, ChannelsInv,
           [Next]_vars
    PROVE  TypeOK'
  <1>1. TablesTypeOK'
    BY TablesTypedStep
  <1>2. Around
    BY DEF TypeOK, Around
  <1>3. Around'
    BY <1>2, AroundStep
  <1>4. state' \in State
    BY StateStep DEF StateMoves, StateInv
  <1>5. Typed' /\ Channelled'
    BY TypedStep, ChannelledStep
  <1> QED BY <1>1, <1>3, <1>4, <1>5 DEF TypeOK, Around, Typed, Channelled

-----------------------------------------------------------------------------
(* A start and what the provider knows of it.                              *)

(* A run that gets a route or an uncertain start is one some task, or the  *)
(* restart, is about.                                                      *)
LEMMA StatePresentStep ==
    ASSUME TypeOK, StateMoves, Present, StatePresent, PresentRuns \subseteq PresentRuns'
    PROVE  StatePresent'
  <1>1. Named \subseteq PresentRuns
    BY DEF Named, Present
  <1>2. ASSUME NEW r \in Runs, state'.routes[r] # None PROVE r \in PresentRuns
    <2>1. CASE state.routes[r] # None
      BY <2>1 DEF StatePresent
    <2>2. CASE r \in Named
      BY <1>1, <2>2
    <2> QED BY <1>2, <2>1, <2>2 DEF StateMoves, RouteMade
  <1>3. ASSUME NEW r \in Runs, state'.uncertainStarts[r].held PROVE r \in PresentRuns
    <2>1. CASE state.uncertainStarts[r].held
      BY <2>1 DEF StatePresent
    <2>2. CASE At("starter", "calling") /\ r = Starter.run
      BY <2>2 DEF Present, At, Starter, Resting, Tasks
    <2> QED BY <1>3, <2>1, <2>2 DEF StateMoves
  <1> QED BY <1>2, <1>3 DEF StatePresent, PresentRuns

(* Every step moves the start in one of these ways.                        *)
LEMMA StarterStep ==
    ASSUME TypeOK, SupervisorInv, [Next]_vars
    PROVE  StarterMoves
  <1>0. /\ "starter" \in Tasks /\ DOMAIN task = Tasks /\ DOMAIN Starter = Fields
        /\ Starter.pc \in {"register", "pumpCall", "call", "calling"} => Starter.run \in Runs
        /\ "starter" \notin Clients /\ DOMAIN provider = Runs
    BY SupervisorAssumption DEF Tasks, TypeOK, SupervisorInv, RunsInv, TasksOK,
        Resting, Starter
  <1> USE <1>0
  <1> USE SupervisorAssumption
  <1> USE DEF StarterMoves, Starting, At, Go, Done, Blank, SupervisorInv, RunsInv,
              TasksOK, Fields, Resting, Starter, storeVars, innerVars, backVars,
              providerVars
  <1>1. CASE StartStep
    <2>1. CASE RegisterStart
      BY <2>1 DEF RegisterStart
    <2>2. CASE CallStart
      BY <2>2 DEF CallStart
    <2>3. CASE StartAccepted
      BY <2>3 DEF StartAccepted
    <2>4. CASE StartUnknown
      BY <2>4 DEF StartUnknown
    <2>5. CASE StartRejected
      BY <2>5 DEF StartRejected
    <2>6. CASE MarkStart
      BY <2>6 DEF MarkStart
    <2>7. CASE BindStart
      BY <2>7 DEF BindStart
    <2>8. ASSUME NEW c \in Consumers, RouteStart(c) PROVE StarterMoves
      BY <2>8 DEF RouteStart
    <2>9. ASSUME NEW c \in Consumers, AttachRoute(c) PROVE StarterMoves
      BY <2>9 DEF AttachRoute
    <2>10. CASE Retain
      BY <2>10 DEF Retain
    <2>11. CASE RetainMark
      BY <2>11 DEF RetainMark
    <2>12. CASE RetainPick
      BY <2>12 DEF RetainPick
    <2>13. CASE RetainSend
      BY <2>13 DEF RetainSend
    <2> QED BY <1>1, <2>1, <2>2, <2>3, <2>4, <2>5, <2>6, <2>7, <2>8, <2>9, <2>10,
         <2>11, <2>12, <2>13 DEF StartStep
  <1>2. CASE PumpStep
    <2>1. CASE PumpDeliver
      BY <2>1 DEF PumpDeliver
    <2>2. CASE PumpBuffer
      BY <2>2 DEF PumpBuffer
    <2>3. CASE Disconnect
      BY <2>3 DEF Disconnect
    <2>4. CASE PumpTake
      BY <2>4 DEF PumpTake
    <2>5. ASSUME NEW r \in Runs, MarkAffected(r) PROVE StarterMoves
      BY <2>5 DEF MarkAffected
    <2> QED BY <1>2, <2>1, <2>2, <2>3, <2>4, <2>5 DEF PumpStep
  <1>3. ASSUME NEW t \in Tasks, SharedStep(t) PROVE StarterMoves
    <2>1. CASE EnsureEventPump(t)
      <3>1. CASE t = "starter"
        <4>1. /\ Starter'.run = Starter.run
              /\ Starter'.pc = AfterPump[Starter.pc] /\ Starter.pc \in DOMAIN AfterPump
              /\ provider' = provider
          BY <2>1, <3>1 DEF EnsureEventPump
        <4>2. /\ AfterPump[Starter.pc] \in Starting \cup {"markFailed"} => Starter.pc = "pumpCall"
              /\ AfterPump["pumpCall"] = "call"
          BY <4>1 DEF AfterPump
        <4> HIDE DEF Starter
        <4> QED BY <4>1, <4>2, <1>0
      <3>2. CASE t # "starter"
        <4>1. Starter' = Starter /\ provider' = provider
          BY <2>1, <3>2 DEF EnsureEventPump
        <4> HIDE DEF Starter
        <4> QED BY <4>1, <1>0
      <3> QED BY <3>1, <3>2
    <2>2. CASE Send(t)
      BY <2>2 DEF Send
    <2>3. CASE OverflowClose(t)
      BY <2>3 DEF OverflowClose
    <2>4. CASE Mark(t)
      BY <2>4 DEF Mark
    <2>5. CASE MarkWrite(t)
      BY <2>5 DEF MarkWrite
    <2>6. CASE FlagUncertain(t)
      BY <2>6 DEF FlagUncertain
    <2> QED BY <1>3, <2>1, <2>2, <2>3, <2>4, <2>5, <2>6 DEF SharedStep
  <1>4. ASSUME NEW c \in Consumers, ConsumerStep(c) PROVE StarterMoves
    <2>1. CASE TakeEvent(c)
      BY <2>1 DEF TakeEvent
    <2>2. CASE AppendItem(c)
      BY <2>2 DEF AppendItem
    <2>3. CASE RecordApproval(c)
      BY <2>3 DEF RecordApproval
    <2>4. CASE RegisterApproval(c)
      BY <2>4 DEF RegisterApproval
    <2>5. CASE ApplyTerminal(c)
      BY <2>5 DEF ApplyTerminal
    <2>6. CASE ConsumerFails(c)
      BY <2>6 DEF ConsumerFails
    <2>7. CASE ChannelEnds(c)
      BY <2>7 DEF ChannelEnds
    <2>8. CASE ConsumerCloses(c)
      BY <2>8 DEF ConsumerCloses
    <2> QED BY <1>4, <2>1, <2>2, <2>3, <2>4, <2>5, <2>6, <2>7, <2>8 DEF ConsumerStep
  <1>5. ASSUME NEW t \in Clients, ClientStep(t) PROVE StarterMoves
    <2> t \in Tasks
      BY DEF Tasks
    <2>1. CASE Reconnect(t)
      BY <2>1 DEF Reconnect
    <2>2. CASE CheckAttached(t)
      BY <2>2 DEF CheckAttached
    <2>3. CASE LoadForReattach(t)
      BY <2>3 DEF LoadForReattach
    <2>4. ASSUME NEW c \in Consumers, PrepareReattach(t, c) PROVE StarterMoves
      BY <2>4 DEF PrepareReattach
    <2>5. CASE Promote(t)
      BY <2>5 DEF Promote
    <2>6. CASE Unroute(t)
      BY <2>6 DEF Unroute
    <2>7. CASE ActivateReattach(t)
      BY <2>7 DEF ActivateReattach
    <2>8. CASE CollectUncertain(t)
      BY <2>8 DEF CollectUncertain
    <2>9. CASE CommandReturns(t)
      BY <2>9 DEF CommandReturns
    <2>10. CASE OutcomeUnknown(t)
      BY <2>10 DEF OutcomeUnknown
    <2>11. CASE BeginResponse(t)
      BY <2>11 DEF BeginResponse
    <2>12. CASE RememberResponse(t)
      BY <2>12 DEF RememberResponse
    <2>13. CASE Respond(t)
      BY <2>13 DEF Respond
    <2>14. CASE ConfirmResponse(t)
      BY <2>14 DEF ConfirmResponse
    <2>15. CASE ForgetApproval(t)
      BY <2>15 DEF ForgetApproval
    <2> QED BY <1>5, <2>1, <2>2, <2>3, <2>4, <2>5, <2>6, <2>7, <2>8, <2>9, <2>10,
         <2>11, <2>12, <2>13, <2>14, <2>15 DEF ClientStep
  <1>6. CASE StartupStep
    <2>1. ASSUME NEW r \in Runs, StartupDowngrade(r) PROVE StarterMoves
      BY <2>1 DEF StartupDowngrade
    <2>2. ASSUME NEW r \in Runs, NEW c \in Consumers, StartupPrepare(r, c)
          PROVE  StarterMoves
      BY <2>2 DEF StartupPrepare
    <2>3. CASE StartupFails
      BY <2>3 DEF StartupFails
    <2>4. ASSUME NEW c \in Consumers, StartupActivate(c) PROVE StarterMoves
      BY <2>4 DEF StartupActivate
    <2>5. CASE StartupDone
      BY <2>5 DEF StartupDone
    <2> QED BY <1>6, <2>1, <2>2, <2>3, <2>4, <2>5 DEF StartupStep
  <1>7. CASE Environment
    <2>1. ASSUME NEW r \in Runs, StartRun(r) PROVE StarterMoves
      BY <2>1 DEF StartRun, CreateRun
    <2>2. ASSUME NEW t \in Clients, NEW r \in Runs, ReconcileRun(t, r) PROVE StarterMoves
      BY <2>2 DEF ReconcileRun
    <2>3. ASSUME NEW t \in Clients, NEW r \in Runs, Command(t, r) PROVE StarterMoves
      BY <2>3 DEF Command
    <2>4. ASSUME NEW t \in Clients, NEW a \in Approvals, NEW d \in Decisions, ResolveApproval(t, a, d)
          PROVE  StarterMoves
      BY <2>4 DEF ResolveApproval
    <2>5. ASSUME NEW r \in Runs, Accept(r) PROVE StarterMoves
      BY <2>5 DEF Accept
    <2>6. ASSUME NEW r \in Runs, NEW kind \in EmitKinds, Emit(r, kind) PROVE StarterMoves
      BY <2>6 DEF Emit
    <2>7. CASE PumpFail
      BY <2>7 DEF PumpFail
    <2>8. CASE Crash
      BY <2>8 DEF Crash
    <2> QED BY <1>7, <2>1, <2>2, <2>3, <2>4, <2>5, <2>6, <2>7, <2>8 DEF Environment
  <1>8. CASE UNCHANGED vars
    BY <1>8 DEF vars, tableVars
  <1> QED BY ONLY [Next]_vars, <1>1, <1>2, <1>3, <1>4, <1>5, <1>6, <1>7, <1>8 DEF Next

(* A start is made once: its run is new.                                   *)
LEMMA StartsOnceStep ==
    ASSUME TypeOK, SupervisorInv, StateMoves, StarterMoves, StartsOnce, StatePresent
    PROVE  StartsOnce'
  <1> SUFFICES ASSUME Starter'.pc \in Starting
               PROVE  ~state'.uncertainStarts[Starter'.run].held
    BY DEF StartsOnce
  <1>1. Starter'.pc # "markUnknown"
    BY DEF Starting
  <1>2. CASE Starter'.run = Starter.run /\ Starter.pc \in Starting
    <2>1. Starter.run \in Runs
      BY <1>2 DEF SupervisorInv, RunsInv, TasksOK, Resting, Starting, Starter, Tasks
    <2> QED BY <1>1, <1>2, <2>1 DEF StartsOnce, StateMoves
  <1>3. CASE Starter'.run \in Runs /\ runStatus[Starter'.run] = "absent"
    BY <1>1, <1>3 DEF StatePresent, PresentRuns, StateMoves
  <1> QED BY <1>2, <1>3 DEF StarterMoves

(* The provider hears of the run only when it is called.                   *)
LEMMA StarterInvStep ==
    ASSUME StarterInv, StarterMoves, Present PROVE StarterInv'
  <1>1. \A r \in Runs : runStatus[r] = "absent" => provider[r] = "none"
    BY DEF Present, PresentRuns
  <1> HIDE DEF Starter
  <1> QED BY <1>1 DEF StarterInv, StarterMoves

(* Nothing changes for the provider.                                       *)
LEMMA EmissionsStay ==
    ASSUME EmissionsInv, UNCHANGED <<provider, sent>> PROVE EmissionMoves
  BY DEF EmissionsInv, EmissionMoves

(* A change of what the provider knows that makes no run live or refused.  *)
LEMMA EmissionsAlong ==
    ASSUME TypeOK, EmissionsInv, UNCHANGED sent,
           \A r \in Runs : \/ provider'[r] = provider[r]
                           \/ sent[r] = <<>> /\ provider[r] # "refused"
                           \/ provider[r] = "live" /\ provider'[r] = "ended"
    PROVE  EmissionMoves
  <1>1. \A r \in Runs : sent[r] = <<>> => DOMAIN sent[r] = {}
    OBVIOUS
  <1> QED BY <1>1 DEF EmissionsInv, EmissionMoves

(* Every step lets the provider send at most one event more.               *)
LEMMA EmissionStep ==
    ASSUME TypeOK, SupervisorInv, StarterInv, EmissionsInv, [Next]_vars
    PROVE  EmissionMoves
  <1> USE DEF providerVars
  <1>1. CASE StartStep
    <2>1. CASE RegisterStart
      BY <2>1, EmissionsStay DEF RegisterStart
    <2>2. CASE CallStart
      <3>1. provider[Starter.run] = "none" /\ Starter.run \in Runs
        BY <2>2 DEF CallStart, At, StarterInv, SupervisorInv, RunsInv, TasksOK,
            Resting, Starter, Tasks
      <3>2. sent[Starter.run] = <<>>
        BY <3>1 DEF EmissionsInv
      <3>3. \A r \in Runs : provider'[r] = provider[r] \/ r = Starter.run
        BY <2>2, <3>1 DEF CallStart, TypeOK
      <3> QED BY <2>2, <3>1, <3>2, <3>3, EmissionsAlong DEF CallStart
    <2>3. CASE StartAccepted
      BY <2>3, EmissionsStay DEF StartAccepted
    <2>4. CASE StartUnknown
      BY <2>4, EmissionsStay DEF StartUnknown
    <2>5. CASE StartRejected
      <3>1. provider[Starter.run] = "requested" /\ Starter.run \in Runs
        BY <2>5 DEF StartRejected, At, SupervisorInv, RunsInv, TasksOK, Resting,
            Starter, Tasks
      <3>2. sent[Starter.run] = <<>>
        BY <3>1 DEF EmissionsInv
      <3>3. \A r \in Runs : provider'[r] = provider[r] \/ r = Starter.run
        BY <2>5, <3>1 DEF StartRejected, TypeOK
      <3> QED BY <2>5, <3>1, <3>2, <3>3, EmissionsAlong DEF StartRejected
    <2>6. CASE MarkStart
      BY <2>6, EmissionsStay DEF MarkStart
    <2>7. CASE BindStart
      BY <2>7, EmissionsStay DEF BindStart
    <2>8. ASSUME NEW c \in Consumers, RouteStart(c) PROVE EmissionMoves
      BY <2>8, EmissionsStay DEF RouteStart
    <2>9. ASSUME NEW c \in Consumers, AttachRoute(c) PROVE EmissionMoves
      BY <2>9, EmissionsStay DEF AttachRoute
    <2>10. CASE Retain
      BY <2>10, EmissionsStay DEF Retain
    <2>11. CASE RetainMark
      BY <2>11, EmissionsStay DEF RetainMark
    <2>12. CASE RetainPick
      BY <2>12, EmissionsStay DEF RetainPick
    <2>13. CASE RetainSend
      BY <2>13, EmissionsStay DEF RetainSend
    <2> QED BY <1>1, <2>1, <2>2, <2>3, <2>4, <2>5, <2>6, <2>7, <2>8, <2>9, <2>10,
         <2>11, <2>12, <2>13 DEF StartStep
  <1>2. CASE PumpStep
    <2>1. CASE PumpDeliver
      BY <2>1, EmissionsStay DEF PumpDeliver
    <2>2. CASE PumpBuffer
      BY <2>2, EmissionsStay DEF PumpBuffer
    <2>3. CASE Disconnect
      BY <2>3, EmissionsStay DEF Disconnect
    <2>4. CASE PumpTake
      BY <2>4, EmissionsStay DEF PumpTake
    <2>5. ASSUME NEW r \in Runs, MarkAffected(r) PROVE EmissionMoves
      BY <2>5, EmissionsStay DEF MarkAffected
    <2> QED BY <1>2, <2>1, <2>2, <2>3, <2>4, <2>5 DEF PumpStep
  <1>3. ASSUME NEW t \in Tasks, SharedStep(t) PROVE EmissionMoves
    <2>1. CASE EnsureEventPump(t)
      BY <2>1, EmissionsStay DEF EnsureEventPump
    <2>2. CASE Send(t)
      BY <2>2, EmissionsStay DEF Send
    <2>3. CASE OverflowClose(t)
      BY <2>3, EmissionsStay DEF OverflowClose
    <2>4. CASE Mark(t)
      BY <2>4, EmissionsStay DEF Mark
    <2>5. CASE MarkWrite(t)
      BY <2>5, EmissionsStay DEF MarkWrite
    <2>6. CASE FlagUncertain(t)
      BY <2>6, EmissionsStay DEF FlagUncertain
    <2> QED BY <1>3, <2>1, <2>2, <2>3, <2>4, <2>5, <2>6 DEF SharedStep
  <1>4. ASSUME NEW c \in Consumers, ConsumerStep(c) PROVE EmissionMoves
    <2>1. CASE TakeEvent(c)
      BY <2>1, EmissionsStay DEF TakeEvent
    <2>2. CASE AppendItem(c)
      BY <2>2, EmissionsStay DEF AppendItem
    <2>3. CASE RecordApproval(c)
      BY <2>3, EmissionsStay DEF RecordApproval
    <2>4. CASE RegisterApproval(c)
      BY <2>4, EmissionsStay DEF RegisterApproval
    <2>5. CASE ApplyTerminal(c)
      BY <2>5, EmissionsStay DEF ApplyTerminal
    <2>6. CASE ConsumerFails(c)
      BY <2>6, EmissionsStay DEF ConsumerFails
    <2>7. CASE ChannelEnds(c)
      BY <2>7, EmissionsStay DEF ChannelEnds
    <2>8. CASE ConsumerCloses(c)
      BY <2>8, EmissionsStay DEF ConsumerCloses
    <2> QED BY <1>4, <2>1, <2>2, <2>3, <2>4, <2>5, <2>6, <2>7, <2>8 DEF ConsumerStep
  <1>5. ASSUME NEW t \in Clients, ClientStep(t) PROVE EmissionMoves
    <2> t \in Tasks
      BY DEF Tasks
    <2>1. CASE Reconnect(t)
      BY <2>1, EmissionsStay DEF Reconnect
    <2>2. CASE CheckAttached(t)
      BY <2>2, EmissionsStay DEF CheckAttached
    <2>3. CASE LoadForReattach(t)
      BY <2>3, EmissionsStay DEF LoadForReattach
    <2>4. ASSUME NEW c \in Consumers, PrepareReattach(t, c) PROVE EmissionMoves
      BY <2>4, EmissionsStay DEF PrepareReattach
    <2>5. CASE Promote(t)
      BY <2>5, EmissionsStay DEF Promote
    <2>6. CASE Unroute(t)
      BY <2>6, EmissionsStay DEF Unroute
    <2>7. CASE ActivateReattach(t)
      BY <2>7, EmissionsStay DEF ActivateReattach
    <2>8. CASE CollectUncertain(t)
      BY <2>8, EmissionsStay DEF CollectUncertain
    <2>9. CASE CommandReturns(t)
      BY <2>9, EmissionsStay DEF CommandReturns
    <2>10. CASE OutcomeUnknown(t)
      BY <2>10, EmissionsStay DEF OutcomeUnknown
    <2>11. CASE BeginResponse(t)
      BY <2>11, EmissionsStay DEF BeginResponse
    <2>12. CASE RememberResponse(t)
      BY <2>12, EmissionsStay DEF RememberResponse
    <2>13. CASE Respond(t)
      BY <2>13, EmissionsStay DEF Respond
    <2>14. CASE ConfirmResponse(t)
      BY <2>14, EmissionsStay DEF ConfirmResponse
    <2>15. CASE ForgetApproval(t)
      BY <2>15, EmissionsStay DEF ForgetApproval
    <2> QED BY <1>5, <2>1, <2>2, <2>3, <2>4, <2>5, <2>6, <2>7, <2>8, <2>9, <2>10,
         <2>11, <2>12, <2>13, <2>14, <2>15 DEF ClientStep
  <1>6. CASE StartupStep
    <2>1. ASSUME NEW r \in Runs, StartupDowngrade(r) PROVE EmissionMoves
      BY <2>1, EmissionsStay DEF StartupDowngrade
    <2>2. ASSUME NEW r \in Runs, NEW c \in Consumers, StartupPrepare(r, c)
          PROVE  EmissionMoves
      BY <2>2, EmissionsStay DEF StartupPrepare
    <2>3. CASE StartupFails
      BY <2>3, EmissionsStay DEF StartupFails
    <2>4. ASSUME NEW c \in Consumers, StartupActivate(c) PROVE EmissionMoves
      BY <2>4, EmissionsStay DEF StartupActivate
    <2>5. CASE StartupDone
      BY <2>5, EmissionsStay DEF StartupDone
    <2> QED BY <1>6, <2>1, <2>2, <2>3, <2>4, <2>5 DEF StartupStep
  <1>7. CASE Environment
    <2>1. ASSUME NEW r \in Runs, StartRun(r) PROVE EmissionMoves
      BY <2>1, EmissionsStay DEF StartRun
    <2>2. ASSUME NEW t \in Clients, NEW r \in Runs, ReconcileRun(t, r) PROVE EmissionMoves
      BY <2>2, EmissionsStay DEF ReconcileRun
    <2>3. ASSUME NEW t \in Clients, NEW r \in Runs, Command(t, r) PROVE EmissionMoves
      BY <2>3, EmissionsStay DEF Command
    <2>4. ASSUME NEW t \in Clients, NEW a \in Approvals, NEW d \in Decisions, ResolveApproval(t, a, d)
          PROVE  EmissionMoves
      BY <2>4, EmissionsStay DEF ResolveApproval
    <2>5. ASSUME NEW r \in Runs, Accept(r) PROVE EmissionMoves
      <3>1. provider[r] = "requested" /\ sent[r] = <<>>
        BY <2>5 DEF Accept, EmissionsInv
      <3>2. \A q \in Runs : provider'[q] = provider[q] \/ q = r
        BY <2>5, <3>1 DEF Accept, TypeOK
      <3> QED BY <2>5, <3>1, <3>2, EmissionsAlong DEF Accept
    <2>6. ASSUME NEW r \in Runs, NEW kind \in EmitKinds, Emit(r, kind) PROVE EmissionMoves
      <3>1. /\ provider[r] = "live" /\ sent[r] \in Seq(EmitKinds)
            /\ \A i \in DOMAIN sent[r] : ~IsTerminal(sent[r][i])
        BY <2>6 DEF Emit, EmissionsInv, TypeOK
      <3>2. /\ sent'[r] = Append(sent[r], kind)
            /\ \A q \in Runs \ {r} : sent'[q] = sent[q] /\ provider'[q] = provider[q]
            /\ provider'[r] = IF IsTerminal(kind) THEN "ended" ELSE "live"
        BY <2>6, <3>1 DEF Emit, TypeOK
      <3>3. /\ DOMAIN sent'[r] = DOMAIN sent[r] \cup {Len(sent'[r])}
            /\ \A i \in DOMAIN sent[r] : sent'[r][i] = sent[r][i]
            /\ sent'[r][Len(sent'[r])] = kind
        BY <3>1, <3>2
      <3>4. /\ sent'[r] # <<>> => provider'[r] \in {"live", "ended"}
            /\ provider'[r] = "live" => \A i \in DOMAIN sent'[r] : ~IsTerminal(sent'[r][i])
            /\ \A i \in DOMAIN sent'[r] : IsTerminal(sent'[r][i]) => i = Len(sent'[r])
        BY <3>1, <3>2, <3>3
      <3>5. EmissionsInv'
        BY <3>2, <3>4 DEF EmissionsInv
      <3> QED BY <3>1, <3>2, <3>5 DEF EmissionMoves
    <2>7. CASE PumpFail
      BY <2>7, EmissionsStay DEF PumpFail
    <2>8. CASE Crash
      <3>1. \A r \in Runs : provider'[r] = provider[r]
               \/ (provider[r] \in {"live", "requested"} /\ provider'[r] = "ended")
        <4>1. \E lost \in SUBSET {r \in Runs : provider[r] \in {"live", "requested"}} :
                 provider' = [r \in Runs |-> IF r \in lost THEN "ended" ELSE provider[r]]
          BY <2>8, Zenon DEF Crash
        <4> QED BY <4>1
      <3>2. \A r \in Runs : provider[r] = "requested" => sent[r] = <<>>
        BY DEF EmissionsInv
      <3> QED BY <2>8, <3>1, <3>2, EmissionsAlong DEF Crash
    <2> QED BY <1>7, <2>1, <2>2, <2>3, <2>4, <2>5, <2>6, <2>7, <2>8 DEF Environment
  <1>8. CASE UNCHANGED vars
    BY <1>8, EmissionsStay DEF vars, providerVars
  <1> QED BY ONLY [Next]_vars, <1>1, <1>2, <1>3, <1>4, <1>5, <1>6, <1>7, <1>8 DEF Next

(* Every step that ends a run is one of these.                             *)
LEMMA StatusStep ==
    ASSUME SupervisorInv, [Next]_vars
    PROVE  StatusMoves
  <1>0. Writes /\ Tabled
    BY TablesStep DEF SupervisorInv
  <1>1. CASE runStatus' = runStatus
    BY <1>1 DEF StatusMoves
  <1>2. ASSUME NEW r \in Runs, CreateRun(r) PROVE StatusMoves
    BY <1>0, <1>2 DEF CreateRun, Tabled, StatusMoves, IsTerminal, Terminal
  <1>3. ASSUME NEW r \in Runs, NEW to \in RunStatus, NEW p \in Providers \cup {None},
               TransitionRun(r, runStatus[r], to, p), IsTerminal(to) => EndedBy(r, to)
        PROVE  StatusMoves
    <2>1. \A q \in Runs : runStatus'[q] = IF q = r THEN to ELSE runStatus[q]
      BY <1>0, <1>3, TransitionEffect
    <2> QED BY <1>3, <2>1 DEF StatusMoves
  <1> QED BY <1>0, <1>1, <1>2, <1>3
      DEF Writes, tableVars, RecordApproval, RecordPendingApproval, BeginApprovalResponse,
          ConfirmResponse, ConfirmApprovalResponse

(* So a run ends with what its provider last said of it.                   *)
LEMMA OutcomeStep ==
    ASSUME TypeOK, OutcomeIsTheProviders, StatusMoves, EmissionMoves, EmissionsInv,
           StarterInv, HandledAreKnown, ChannelsInv
    PROVE  OutcomeIsTheProviders'
  <1> SUFFICES ASSUME NEW r \in Runs, IsTerminal(runStatus'[r])
               PROVE  \/ /\ runStatus'[r] = "failed"
                         /\ provider'[r] = "refused"
                      \/ /\ sent'[r] # <<>>
                         /\ sent'[r][Len(sent'[r])] = runStatus'[r]
    BY DEF OutcomeIsTheProviders, IsTerminal
  <1>1. ASSUME sent[r] # <<>>, sent[r][Len(sent[r])] = runStatus'[r]
        PROVE  sent'[r] = sent[r]
    <2>1. sent[r] \in Seq(EmitKinds) /\ Len(sent[r]) \in DOMAIN sent[r]
      BY <1>1 DEF TypeOK
    <2>2. provider[r] # "live"
      BY <1>1, <2>1 DEF EmissionsInv
    <2> QED BY <2>2 DEF EmissionMoves
  <1>2. CASE runStatus'[r] = runStatus[r]
    BY <1>1, <1>2 DEF OutcomeIsTheProviders, EmissionMoves
  <1>3. CASE Starter.pc = "markFailed" /\ r = Starter.run /\ runStatus'[r] = "failed"
    BY <1>3 DEF StarterInv, EmissionMoves
  <1>4. CASE \E c \in Consumers : /\ consumers[c].pc = "terminal" /\ consumers[c].run = r
                                 /\ runStatus'[r] = KindOf(consumers[c].event)
    <2>1. PICK c \in Consumers : /\ consumers[c].pc = "terminal" /\ consumers[c].run = r
                                /\ runStatus'[r] = KindOf(consumers[c].event)
      BY <1>4
    <2>2. consumers[c].event.from = r /\ consumers[c].event.n \in DOMAIN sent[r]
      BY <2>1 DEF ChannelsInv, Handling, HandledAreKnown
    <2>3. runStatus'[r] = sent[r][consumers[c].event.n]
      BY <2>1, <2>2 DEF KindOf
    <2>4. consumers[c].event.n = Len(sent[r])
      BY <2>2, <2>3 DEF EmissionsInv
    <2>5. sent[r] # <<>>
      BY <2>2
    <2> QED BY <1>1, <2>3, <2>4, <2>5
  <1> QED BY <1>2, <1>3, <1>4 DEF StatusMoves, EndedBy

-----------------------------------------------------------------------------
(* Events change hands.                                                    *)

(* The contents, place by place.                                           *)
LEMMA Contents ==
    /\ Where[InStream] = stream
    /\ Where[InPending] = state.pendingEvents
    /\ \A r \in Runs : Where[InStart(r)] = state.uncertainStarts[r].events
    /\ \A r \in Runs : Where[InTimeline(r)] = Applied(r, timeline[r])
    /\ \A t \in Tasks : Where[InTodo(t)] = task[t].todo
    /\ \A c \in Consumers : Where[InQueue(c)] = consumers[c].queue
    /\ \A c \in Consumers : Where[InHand(c)] = Hand(consumers[c])
  <1> USE DEF Where, Places, InStream, InPending, InStart, InTimeline, InTodo,
              InQueue, InHand
  <1>1. Where[InStream] = stream
    OBVIOUS
  <1>2. Where[InPending] = state.pendingEvents
    OBVIOUS
  <1>3. ASSUME NEW r \in Runs
        PROVE  /\ Where[InStart(r)] = state.uncertainStarts[r].events
               /\ Where[InTimeline(r)] = Applied(r, timeline[r])
    OBVIOUS
  <1>4. ASSUME NEW t \in Tasks PROVE Where[InTodo(t)] = task[t].todo
    OBVIOUS
  <1>5. ASSUME NEW c \in Consumers
        PROVE  /\ Where[InQueue(c)] = consumers[c].queue
               /\ Where[InHand(c)] = Hand(consumers[c])
    OBVIOUS
  <1> QED BY ONLY <1>1, <1>2, <1>3, <1>4, <1>5

(* And after a step.                                                       *)
LEMMA ContentsNext ==
    /\ Where'[InStream] = stream'
    /\ Where'[InPending] = state'.pendingEvents
    /\ \A r \in Runs : Where'[InStart(r)] = state'.uncertainStarts[r].events
    /\ \A r \in Runs : Where'[InTimeline(r)] = Applied(r, timeline'[r])
    /\ \A t \in Tasks : Where'[InTodo(t)] = task'[t].todo
    /\ \A c \in Consumers : Where'[InQueue(c)] = consumers'[c].queue
    /\ \A c \in Consumers : Where'[InHand(c)] = Hand(consumers'[c])
  <1> USE DEF Where, Places, InStream, InPending, InStart, InTimeline, InTodo,
              InQueue, InHand
  <1>1. Where'[InStream] = stream'
    OBVIOUS
  <1>2. Where'[InPending] = state'.pendingEvents
    OBVIOUS
  <1>3. ASSUME NEW r \in Runs
        PROVE  /\ Where'[InStart(r)] = state'.uncertainStarts[r].events
               /\ Where'[InTimeline(r)] = Applied(r, timeline'[r])
    OBVIOUS
  <1>4. ASSUME NEW t \in Tasks PROVE Where'[InTodo(t)] = task'[t].todo
    OBVIOUS
  <1>5. ASSUME NEW c \in Consumers
        PROVE  /\ Where'[InQueue(c)] = consumers'[c].queue
               /\ Where'[InHand(c)] = Hand(consumers'[c])
    OBVIOUS
  <1> QED BY ONLY <1>1, <1>2, <1>3, <1>4, <1>5

(* Events are dropped.                                                     *)
LEMMA DropsApart ==
    ASSUME NEW P, NEW W, NEW V, Separate(P, W), \A p \in P : Within(V[p], W[p])
    PROVE  Separate(P, V) /\ NothingNew(P, W, V)
  BY DEF Separate, Within, NothingNew

(* The events in moved go from one place to another; others are dropped.   *)
LEMMA MovesApart ==
    ASSUME NEW P, NEW W, NEW V, Separate(P, W),
           NEW p \in P, NEW q \in P, p # q, NEW moved, moved \subseteq Entries(W[p]),
           \A x \in P \ {p, q} : Within(V[x], W[x]),
           Entries(V[p]) \subseteq Entries(W[p]) \ moved, NoRepeats(V[p]),
           Entries(V[q]) \subseteq Entries(W[q]) \cup moved, NoRepeats(V[q])
    PROVE  Separate(P, V) /\ NothingNew(P, W, V)
  <1>1. ASSUME NEW x \in P PROVE NoRepeats(V[x])
    BY DEF Separate, Within
  <1>2. ASSUME NEW x \in P
        PROVE  Entries(V[x]) \subseteq IF x = q THEN Entries(W[q]) \cup moved
                                       ELSE IF x = p THEN Entries(W[p]) \ moved
                                       ELSE Entries(W[x])
    BY DEF Within
  <1>3. ASSUME NEW x \in P, NEW y \in P, x # y, NEW e \in Entries(V[x]), e \in Entries(V[y])
        PROVE  FALSE
    BY <1>2, <1>3 DEF Separate
  <1>4. NothingNew(P, W, V)
    BY <1>2 DEF NothingNew
  <1> QED BY <1>1, <1>3, <1>4 DEF Separate

(* A new event appears at one place; nothing else changes.                 *)
LEMMA NewApart ==
    ASSUME NEW P, NEW W, NEW V, Separate(P, W), NEW p \in P, NEW e,
           \A x \in P : e \notin Entries(W[x]),
           \A x \in P \ {p} : V[x] = W[x],
           Entries(V[p]) = Entries(W[p]) \cup {e}, NoRepeats(V[p])
    PROVE  Separate(P, V)
  <1>1. ASSUME NEW x \in P PROVE NoRepeats(V[x])
    BY DEF Separate
  <1>2. ASSUME NEW x \in P, NEW y \in P, x # y, NEW d \in Entries(V[x]), d \in Entries(V[y])
        PROVE  FALSE
    BY <1>2 DEF Separate
  <1> QED BY <1>1, <1>2 DEF Separate

(* Then nothing came to those places.                                      *)
LEMMA QuietPlaces ==
    ASSUME NEW except, Quiet(except)
    PROVE  \A p \in Places \ except : Within(Where'[p], Where[p])
  <1> SUFFICES ASSUME NEW p \in Places, p \notin except PROVE Within(Where'[p], Where[p])
    OBVIOUS
  <1> USE Contents, ContentsNext DEF Quiet
  <1>1. CASE p = InStream
    BY <1>1
  <1>2. CASE p = InPending
    BY <1>2
  <1>3. ASSUME NEW r \in Runs, p = InStart(r) PROVE Within(Where'[p], Where[p])
    BY <1>3
  <1>4. ASSUME NEW r \in Runs, p = InTimeline(r) PROVE Within(Where'[p], Where[p])
    BY <1>4 DEF Within
  <1>5. ASSUME NEW t \in Tasks, p = InTodo(t) PROVE Within(Where'[p], Where[p])
    BY <1>5
  <1>6. ASSUME NEW c \in Consumers, p = InQueue(c) PROVE Within(Where'[p], Where[p])
    BY <1>6
  <1>7. ASSUME NEW c \in Consumers, p = InHand(c) PROVE Within(Where'[p], Where[p])
    BY <1>7
  <1> QED BY ONLY <1>1, <1>2, <1>3, <1>4, <1>5, <1>6, <1>7, p \in Places DEF Places

(* The simple steps of a task.                                             *)
LEMMA TasksKeepStill ==
    ASSUME TasksOK
    PROVE  /\ \A t \in Tasks, pc \in Steps : Go(t, pc) => TasksStill
           /\ \A t \in Tasks : Done(t) => TasksStill
           /\ task' = task => TasksStill
  BY DEF TasksOK, Fields, Go, Done, Blank, TasksStill

(* The simple steps of a consumer.                                         *)
LEMMA ChannelsKeepStill ==
    ASSUME ConsumersOK
    PROVE  /\ \A c \in Consumers, pc \in ConsumerSteps \ Handling :
                ConsumerGo(c, pc) => ChannelsStill
           /\ consumers' = consumers => ChannelsStill
           /\ \A c, r, pc : NewConsumer(c, r, pc) /\ pc \notin Handling => ChannelsStill
           /\ \A c : consumers' = [consumers EXCEPT ![c] = Finished] => ChannelsStill
  <1> USE DEF ConsumersOK, ChannelsStill, HandsStill, Handling
  <1>1. ASSUME NEW c \in Consumers, NEW pc \in ConsumerSteps \ Handling, ConsumerGo(c, pc)
        PROVE  ChannelsStill
    BY <1>1 DEF ConsumerGo
  <1>2. ASSUME NEW c, NEW r, NEW pc, NewConsumer(c, r, pc), pc \notin Handling
        PROVE  ChannelsStill
    BY <1>2 DEF NewConsumer, Finished
  <1>3. ASSUME NEW c, consumers' = [consumers EXCEPT ![c] = Finished] PROVE ChannelsStill
    BY <1>3 DEF Finished
  <1>4. consumers' = consumers => ChannelsStill
    OBVIOUS
  <1> QED BY ONLY <1>1, <1>2, <1>3, <1>4

(* A step that is not one of the flows hands no event on.                  *)
LEMMA StillStep ==
    ASSUME TypeOK, SupervisorInv, [Next]_vars
    PROVE  Flows \/ Still
  <1>0. {"starter", "pump", "marker"} \subseteq Tasks
    BY DEF Tasks
  <1> USE DEF SupervisorInv, RunsInv, storeVars, innerVars, backVars, providerVars
  <1>1. CASE StartStep
    <2>1. CASE RegisterStart
      <3>1. TasksStill
        BY <2>1, TasksKeepStill, StepNames, <1>0 DEF RegisterStart, TasksStill,
            TasksOK, Fields, Blank
      <3>2. ChannelsStill
        BY <2>1, ChannelsKeepStill DEF RegisterStart, ChannelsStill, HandsStill,
            Handling, ConsumerSteps, ConsumersOK, Finished
      <3> QED BY <2>1, <3>1, <3>2 DEF RegisterStart, Still, TasksStill, ChannelsStill
    <2>2. CASE CallStart
      <3>1. TasksStill
        BY <2>2, TasksKeepStill, StepNames, <1>0 DEF CallStart, TasksStill, TasksOK,
            Fields, Blank
      <3>2. ChannelsStill
        BY <2>2, ChannelsKeepStill DEF CallStart, ChannelsStill, HandsStill,
            Handling, ConsumerSteps, ConsumersOK, Finished
      <3> QED BY <2>2, <3>1, <3>2 DEF CallStart, Still, TasksStill, ChannelsStill
    <2>3. CASE StartAccepted
      <3>1. TasksStill
        BY <2>3, TasksKeepStill, StepNames, <1>0 DEF StartAccepted, TasksStill,
            TasksOK, Fields, Blank
      <3>2. ChannelsStill
        BY <2>3, ChannelsKeepStill DEF StartAccepted, ChannelsStill, HandsStill,
            Handling, ConsumerSteps, ConsumersOK, Finished
      <3> QED BY <2>3, <3>1, <3>2 DEF StartAccepted, Still, TasksStill, ChannelsStill
    <2>4. CASE StartUnknown
      BY <2>4 DEF Flows
    <2>5. CASE StartRejected
      <3>1. TasksStill
        BY <2>5, TasksKeepStill, StepNames, <1>0 DEF StartRejected, TasksStill,
            TasksOK, Fields, Blank
      <3>2. ChannelsStill
        BY <2>5, ChannelsKeepStill DEF StartRejected, ChannelsStill, HandsStill,
            Handling, ConsumerSteps, ConsumersOK, Finished
      <3> QED BY <2>5, <3>1, <3>2 DEF StartRejected, Still, TasksStill, ChannelsStill
    <2>6. CASE MarkStart
      <3>1. TasksStill
        BY <2>6, TasksKeepStill, StepNames, <1>0 DEF MarkStart, TasksStill, TasksOK,
            Fields, Blank
      <3>2. ChannelsStill
        BY <2>6, ChannelsKeepStill DEF MarkStart, ChannelsStill, HandsStill,
            Handling, ConsumerSteps, ConsumersOK, Finished
      <3> QED BY <2>6, <3>1, <3>2 DEF MarkStart, Still, TasksStill, ChannelsStill
    <2>7. CASE BindStart
      <3>1. TasksStill
        BY <2>7, TasksKeepStill, StepNames, <1>0 DEF BindStart, TasksStill, TasksOK,
            Fields, Blank
      <3>2. ChannelsStill
        BY <2>7, ChannelsKeepStill DEF BindStart, ChannelsStill, HandsStill,
            Handling, ConsumerSteps, ConsumersOK, Finished
      <3> QED BY <2>7, <3>1, <3>2 DEF BindStart, Still, TasksStill, ChannelsStill
    <2>8. ASSUME NEW c \in Consumers, RouteStart(c) PROVE Flows \/ Still
      BY <2>8 DEF Flows
    <2>9. ASSUME NEW c \in Consumers, AttachRoute(c) PROVE Flows \/ Still
      <3>1. TasksStill
        BY <2>9, TasksKeepStill, StepNames, <1>0 DEF AttachRoute, TasksStill,
            TasksOK, Fields, Blank
      <3>2. ChannelsStill
        BY <2>9, ChannelsKeepStill DEF AttachRoute, ChannelsStill, HandsStill,
            Handling, ConsumerSteps, ConsumersOK, Finished
      <3> QED BY <2>9, <3>1, <3>2 DEF AttachRoute, Still, TasksStill, ChannelsStill
    <2>10. CASE Retain
      BY <2>10 DEF Flows
    <2>11. CASE RetainMark
      <3>1. TasksStill
        BY <2>11, TasksKeepStill, StepNames, <1>0 DEF RetainMark, TasksStill,
            TasksOK, Fields, Blank
      <3>2. ChannelsStill
        BY <2>11, ChannelsKeepStill DEF RetainMark, ChannelsStill, HandsStill,
            Handling, ConsumerSteps, ConsumersOK, Finished
      <3> QED BY <2>11, <3>1, <3>2 DEF RetainMark, Still, TasksStill, ChannelsStill
    <2>12. CASE RetainPick
      <3>1. TasksStill
        BY <2>12, TasksKeepStill, StepNames, <1>0 DEF RetainPick, TasksStill,
            TasksOK, Fields, Blank
      <3>2. ChannelsStill
        BY <2>12, ChannelsKeepStill DEF RetainPick, ChannelsStill, HandsStill,
            Handling, ConsumerSteps, ConsumersOK, Finished
      <3> QED BY <2>12, <3>1, <3>2 DEF RetainPick, Still, TasksStill, ChannelsStill
    <2>13. CASE RetainSend
      BY <2>13 DEF Flows
    <2> QED BY <1>1, <2>1, <2>2, <2>3, <2>4, <2>5, <2>6, <2>7, <2>8, <2>9, <2>10,
         <2>11, <2>12, <2>13 DEF StartStep
  <1>2. CASE PumpStep
    <2>1. CASE PumpDeliver
      BY <2>1 DEF Flows
    <2>2. CASE PumpBuffer
      BY <2>2 DEF Flows
    <2>3. CASE Disconnect
      <3>1. TasksStill
        BY <2>3, TasksKeepStill, StepNames, <1>0 DEF Disconnect, TasksStill, TasksOK,
            Fields, Blank
      <3>2. ChannelsStill
        BY <2>3, ChannelsKeepStill DEF Disconnect, ChannelsStill, HandsStill,
            Handling, ConsumerSteps, ConsumersOK, Finished
      <3> QED BY <2>3, <3>1, <3>2 DEF Disconnect, Still, TasksStill, ChannelsStill
    <2>4. CASE PumpTake
      <3>1. TasksStill
        BY <2>4, TasksKeepStill, StepNames, <1>0 DEF PumpTake, TasksStill, TasksOK,
            Fields, Blank
      <3>2. ChannelsStill
        BY <2>4, ChannelsKeepStill DEF PumpTake, ChannelsStill, HandsStill, Handling,
            ConsumerSteps, ConsumersOK, Finished
      <3> QED BY <2>4, <3>1, <3>2 DEF PumpTake, Still, TasksStill, ChannelsStill
    <2>5. ASSUME NEW r \in Runs, MarkAffected(r) PROVE Flows \/ Still
      <3>1. TasksStill
        BY <2>5, TasksKeepStill, StepNames, <1>0 DEF MarkAffected, TasksStill,
            TasksOK, Fields, Blank
      <3>2. ChannelsStill
        BY <2>5, ChannelsKeepStill DEF MarkAffected, ChannelsStill, HandsStill,
            Handling, ConsumerSteps, ConsumersOK, Finished
      <3> QED BY <2>5, <3>1, <3>2 DEF MarkAffected, Still, TasksStill, ChannelsStill
    <2> QED BY <1>2, <2>1, <2>2, <2>3, <2>4, <2>5 DEF PumpStep
  <1>3. ASSUME NEW t \in Tasks, SharedStep(t) PROVE Flows \/ Still
    <2>1. CASE EnsureEventPump(t)
      <3>1. TasksStill
        BY <2>1, TasksKeepStill, StepNames, <1>0 DEF EnsureEventPump, TasksStill,
            TasksOK, Fields, Blank
      <3>2. ChannelsStill
        BY <2>1, ChannelsKeepStill DEF EnsureEventPump, ChannelsStill, HandsStill,
            Handling, ConsumerSteps, ConsumersOK, Finished
      <3> QED BY <2>1, <3>1, <3>2 DEF EnsureEventPump, Still, TasksStill, ChannelsStill
    <2>2. CASE Send(t)
      BY <2>2 DEF Flows
    <2>3. CASE OverflowClose(t)
      <3>1. TasksStill
        BY <2>3, TasksKeepStill, StepNames, <1>0 DEF OverflowClose, TasksStill,
            TasksOK, Fields, Blank
      <3>2. ChannelsStill
        BY <2>3, ChannelsKeepStill DEF OverflowClose, ChannelsStill, HandsStill,
            Handling, ConsumerSteps, ConsumersOK, Finished
      <3> QED BY <2>3, <3>1, <3>2 DEF OverflowClose, Still, TasksStill, ChannelsStill
    <2>4. CASE Mark(t)
      <3>1. TasksStill
        BY <2>4, TasksKeepStill, StepNames, <1>0 DEF Mark, TasksStill, TasksOK,
            Fields, Blank
      <3>2. ChannelsStill
        BY <2>4, ChannelsKeepStill DEF Mark, ChannelsStill, HandsStill, Handling,
            ConsumerSteps, ConsumersOK, Finished
      <3> QED BY <2>4, <3>1, <3>2 DEF Mark, Still, TasksStill, ChannelsStill
    <2>5. CASE MarkWrite(t)
      <3>1. TasksStill
        BY <2>5, TasksKeepStill, StepNames, <1>0 DEF MarkWrite, TasksStill, TasksOK,
            Fields, Blank
      <3>2. ChannelsStill
        BY <2>5, ChannelsKeepStill DEF MarkWrite, ChannelsStill, HandsStill,
            Handling, ConsumerSteps, ConsumersOK, Finished
      <3> QED BY <2>5, <3>1, <3>2 DEF MarkWrite, Still, TasksStill, ChannelsStill
    <2>6. CASE FlagUncertain(t)
      <3>1. TasksStill
        BY <2>6, TasksKeepStill, StepNames, <1>0 DEF FlagUncertain, TasksStill,
            TasksOK, Fields, Blank
      <3>2. ChannelsStill
        BY <2>6, ChannelsKeepStill DEF FlagUncertain, ChannelsStill, HandsStill,
            Handling, ConsumerSteps, ConsumersOK, Finished
      <3> QED BY <2>6, <3>1, <3>2 DEF FlagUncertain, Still, TasksStill, ChannelsStill
    <2> QED BY <1>3, <2>1, <2>2, <2>3, <2>4, <2>5, <2>6 DEF SharedStep
  <1>4. ASSUME NEW c \in Consumers, ConsumerStep(c) PROVE Flows \/ Still
    <2>1. CASE TakeEvent(c)
      BY <2>1 DEF Flows
    <2>2. CASE AppendItem(c)
      BY <2>2 DEF Flows
    <2>3. CASE RecordApproval(c)
      <3>1. TasksStill
        BY <2>3, TasksKeepStill, StepNames, <1>0 DEF RecordApproval, TasksStill,
            TasksOK, Fields, Blank
      <3>2. ChannelsStill
        BY <2>3, ChannelsKeepStill DEF RecordApproval, ChannelsStill, HandsStill,
            Handling, ConsumerSteps, ConsumersOK, Finished, ConsumerAt
      <3> QED BY <2>3, <3>1, <3>2 DEF RecordApproval, Still, TasksStill, ChannelsStill
    <2>4. CASE RegisterApproval(c)
      <3>1. TasksStill
        BY <2>4, TasksKeepStill, StepNames, <1>0 DEF RegisterApproval, TasksStill,
            TasksOK, Fields, Blank
      <3>2. ChannelsStill
        BY <2>4, ChannelsKeepStill DEF RegisterApproval, ChannelsStill, HandsStill,
            Handling, ConsumerSteps, ConsumersOK, Finished
      <3> QED BY <2>4, <3>1, <3>2 DEF RegisterApproval, Still, TasksStill, ChannelsStill
    <2>5. CASE ApplyTerminal(c)
      <3>1. TasksStill
        BY <2>5, TasksKeepStill, StepNames, <1>0 DEF ApplyTerminal, TasksStill,
            TasksOK, Fields, Blank
      <3>2. ChannelsStill
        BY <2>5, ChannelsKeepStill DEF ApplyTerminal, ChannelsStill, HandsStill,
            Handling, ConsumerSteps, ConsumersOK, Finished
      <3> QED BY <2>5, <3>1, <3>2 DEF ApplyTerminal, Still, TasksStill, ChannelsStill
    <2>6. CASE ConsumerFails(c)
      <3>1. TasksStill
        BY <2>6, TasksKeepStill, StepNames, <1>0 DEF ConsumerFails, TasksStill,
            TasksOK, Fields, Blank
      <3>2. ChannelsStill
        BY <2>6, ChannelsKeepStill DEF ConsumerFails, ChannelsStill, HandsStill,
            Handling, ConsumerSteps, ConsumersOK, Finished
      <3> QED BY <2>6, <3>1, <3>2 DEF ConsumerFails, Still, TasksStill, ChannelsStill
    <2>7. CASE ChannelEnds(c)
      <3>1. TasksStill
        BY <2>7, TasksKeepStill, StepNames, <1>0 DEF ChannelEnds, TasksStill,
            TasksOK, Fields, Blank
      <3>2. ChannelsStill
        BY <2>7, ChannelsKeepStill DEF ChannelEnds, ChannelsStill, HandsStill,
            Handling, ConsumerSteps, ConsumersOK, Finished
      <3> QED BY <2>7, <3>1, <3>2 DEF ChannelEnds, Still, TasksStill, ChannelsStill
    <2>8. CASE ConsumerCloses(c)
      <3>1. TasksStill
        BY <2>8, TasksKeepStill, StepNames, <1>0 DEF ConsumerCloses, TasksStill,
            TasksOK, Fields, Blank
      <3>2. ChannelsStill
        BY <2>8, ChannelsKeepStill DEF ConsumerCloses, ChannelsStill, HandsStill,
            Handling, ConsumerSteps, ConsumersOK, Finished
      <3> QED BY <2>8, <3>1, <3>2 DEF ConsumerCloses, Still, TasksStill, ChannelsStill
    <2> QED BY <1>4, <2>1, <2>2, <2>3, <2>4, <2>5, <2>6, <2>7, <2>8 DEF ConsumerStep
  <1>5. ASSUME NEW t \in Clients, ClientStep(t) PROVE Flows \/ Still
    <2> t \in Tasks
      BY DEF Tasks
    <2>1. CASE Reconnect(t)
      <3>1. TasksStill
        BY <2>1, TasksKeepStill, StepNames, <1>0 DEF Reconnect, TasksStill, TasksOK,
            Fields, Blank
      <3>2. ChannelsStill
        BY <2>1, ChannelsKeepStill DEF Reconnect, ChannelsStill, HandsStill,
            Handling, ConsumerSteps, ConsumersOK, Finished
      <3> QED BY <2>1, <3>1, <3>2 DEF Reconnect, Still, TasksStill, ChannelsStill
    <2>2. CASE CheckAttached(t)
      <3>1. TasksStill
        BY <2>2, TasksKeepStill, StepNames, <1>0 DEF CheckAttached, TasksStill,
            TasksOK, Fields, Blank
      <3>2. ChannelsStill
        BY <2>2, ChannelsKeepStill DEF CheckAttached, ChannelsStill, HandsStill,
            Handling, ConsumerSteps, ConsumersOK, Finished
      <3> QED BY <2>2, <3>1, <3>2 DEF CheckAttached, Still, TasksStill, ChannelsStill
    <2>3. CASE LoadForReattach(t)
      <3>1. TasksStill
        BY <2>3, TasksKeepStill, StepNames, <1>0 DEF LoadForReattach, TasksStill,
            TasksOK, Fields, Blank
      <3>2. ChannelsStill
        BY <2>3, ChannelsKeepStill DEF LoadForReattach, ChannelsStill, HandsStill,
            Handling, ConsumerSteps, ConsumersOK, Finished
      <3> QED BY <2>3, <3>1, <3>2 DEF LoadForReattach, Still, TasksStill, ChannelsStill
    <2>4. ASSUME NEW c \in Consumers, PrepareReattach(t, c) PROVE Flows \/ Still
      <3>1. TasksStill
        BY <2>4, TasksKeepStill, StepNames, <1>0 DEF PrepareReattach, TasksStill,
            TasksOK, Fields, Blank
      <3>2. ChannelsStill
        BY <2>4, ChannelsKeepStill DEF PrepareReattach, ChannelsStill, HandsStill,
            Handling, ConsumerSteps, ConsumersOK, Finished
      <3> QED BY <2>4, <3>1, <3>2 DEF PrepareReattach, Still, TasksStill, ChannelsStill
    <2>5. CASE Promote(t)
      <3>1. TasksStill
        BY <2>5, TasksKeepStill, StepNames, <1>0 DEF Promote, TasksStill, TasksOK,
            Fields, Blank
      <3>2. ChannelsStill
        BY <2>5, ChannelsKeepStill DEF Promote, ChannelsStill, HandsStill, Handling,
            ConsumerSteps, ConsumersOK, Finished
      <3> QED BY <2>5, <3>1, <3>2 DEF Promote, Still, TasksStill, ChannelsStill
    <2>6. CASE Unroute(t)
      <3>1. TasksStill
        BY <2>6, TasksKeepStill, StepNames, <1>0 DEF Unroute, TasksStill, TasksOK,
            Fields, Blank
      <3>2. ChannelsStill
        BY <2>6, ChannelsKeepStill DEF Unroute, ChannelsStill, HandsStill, Handling,
            ConsumerSteps, ConsumersOK, Finished
      <3> QED BY <2>6, <3>1, <3>2 DEF Unroute, Still, TasksStill, ChannelsStill
    <2>7. CASE ActivateReattach(t)
      <3>1. TasksStill
        BY <2>7, TasksKeepStill, StepNames, <1>0 DEF ActivateReattach, TasksStill,
            TasksOK, Fields, Blank
      <3>2. ChannelsStill
        BY <2>7, ChannelsKeepStill DEF ActivateReattach, ChannelsStill, HandsStill,
            Handling, ConsumerSteps, ConsumersOK, Finished
      <3> QED BY <2>7, <3>1, <3>2 DEF ActivateReattach, Still, TasksStill, ChannelsStill
    <2>8. CASE CollectUncertain(t)
      BY <2>8 DEF Flows
    <2>9. CASE CommandReturns(t)
      <3>1. TasksStill
        BY <2>9, TasksKeepStill, StepNames, <1>0 DEF CommandReturns, TasksStill,
            TasksOK, Fields, Blank
      <3>2. ChannelsStill
        BY <2>9, ChannelsKeepStill DEF CommandReturns, ChannelsStill, HandsStill,
            Handling, ConsumerSteps, ConsumersOK, Finished
      <3> QED BY <2>9, <3>1, <3>2 DEF CommandReturns, Still, TasksStill, ChannelsStill
    <2>10. CASE OutcomeUnknown(t)
      <3>1. TasksStill
        BY <2>10, TasksKeepStill, StepNames, <1>0 DEF OutcomeUnknown, TasksStill,
            TasksOK, Fields, Blank
      <3>2. ChannelsStill
        BY <2>10, ChannelsKeepStill DEF OutcomeUnknown, ChannelsStill, HandsStill,
            Handling, ConsumerSteps, ConsumersOK, Finished
      <3> QED BY <2>10, <3>1, <3>2 DEF OutcomeUnknown, Still, TasksStill, ChannelsStill
    <2>11. CASE BeginResponse(t)
      <3>1. TasksStill
        BY <2>11, TasksKeepStill, StepNames, <1>0 DEF BeginResponse, TasksStill,
            TasksOK, Fields, Blank
      <3>2. ChannelsStill
        BY <2>11, ChannelsKeepStill DEF BeginResponse, ChannelsStill, HandsStill,
            Handling, ConsumerSteps, ConsumersOK, Finished
      <3> QED BY <2>11, <3>1, <3>2 DEF BeginResponse, Still, TasksStill, ChannelsStill
    <2>12. CASE RememberResponse(t)
      <3>1. TasksStill
        BY <2>12, TasksKeepStill, StepNames, <1>0 DEF RememberResponse, TasksStill,
            TasksOK, Fields, Blank
      <3>2. ChannelsStill
        BY <2>12, ChannelsKeepStill DEF RememberResponse, ChannelsStill, HandsStill,
            Handling, ConsumerSteps, ConsumersOK, Finished
      <3> QED BY <2>12, <3>1, <3>2 DEF RememberResponse, Still, TasksStill,
          ChannelsStill
    <2>13. CASE Respond(t)
      <3>1. TasksStill
        BY <2>13, TasksKeepStill, StepNames, <1>0 DEF Respond, TasksStill, TasksOK,
            Fields, Blank
      <3>2. ChannelsStill
        BY <2>13, ChannelsKeepStill DEF Respond, ChannelsStill, HandsStill, Handling,
            ConsumerSteps, ConsumersOK, Finished
      <3> QED BY <2>13, <3>1, <3>2 DEF Respond, Still, TasksStill, ChannelsStill
    <2>14. CASE ConfirmResponse(t)
      <3>1. TasksStill
        BY <2>14, TasksKeepStill, StepNames, <1>0 DEF ConfirmResponse, TasksStill,
            TasksOK, Fields, Blank
      <3>2. ChannelsStill
        BY <2>14, ChannelsKeepStill DEF ConfirmResponse, ChannelsStill, HandsStill,
            Handling, ConsumerSteps, ConsumersOK, Finished
      <3> QED BY <2>14, <3>1, <3>2 DEF ConfirmResponse, Still, TasksStill, ChannelsStill
    <2>15. CASE ForgetApproval(t)
      <3>1. TasksStill
        BY <2>15, TasksKeepStill, StepNames, <1>0 DEF ForgetApproval, TasksStill,
            TasksOK, Fields, Blank
      <3>2. ChannelsStill
        BY <2>15, ChannelsKeepStill DEF ForgetApproval, ChannelsStill, HandsStill,
            Handling, ConsumerSteps, ConsumersOK, Finished
      <3> QED BY <2>15, <3>1, <3>2 DEF ForgetApproval, Still, TasksStill, ChannelsStill
    <2> QED BY <1>5, <2>1, <2>2, <2>3, <2>4, <2>5, <2>6, <2>7, <2>8, <2>9, <2>10,
         <2>11, <2>12, <2>13, <2>14, <2>15 DEF ClientStep
  <1>6. CASE StartupStep
    <2>1. ASSUME NEW r \in Runs, StartupDowngrade(r) PROVE Flows \/ Still
      <3>1. TasksStill
        BY <2>1, TasksKeepStill, StepNames, <1>0 DEF StartupDowngrade, DropReceivers,
            TasksStill, TasksOK, Fields, Blank
      <3>2. ChannelsStill
        BY <2>1, ChannelsKeepStill DEF StartupDowngrade, DropReceivers,
            ChannelsStill, HandsStill, Handling, ConsumerSteps, ConsumersOK, Finished
      <3> QED BY <2>1, <3>1, <3>2 DEF StartupDowngrade, DropReceivers, Still,
          TasksStill, ChannelsStill
    <2>2. ASSUME NEW r \in Runs, NEW c \in Consumers, StartupPrepare(r, c)
          PROVE  Flows \/ Still
      <3>1. TasksStill
        BY <2>2, TasksKeepStill, StepNames, <1>0 DEF StartupPrepare, TasksStill,
            TasksOK, Fields, Blank
      <3>2. ChannelsStill
        BY <2>2, ChannelsKeepStill DEF StartupPrepare, ChannelsStill, HandsStill,
            Handling, ConsumerSteps, ConsumersOK, Finished
      <3> QED BY <2>2, <3>1, <3>2 DEF StartupPrepare, Still, TasksStill, ChannelsStill
    <2>3. CASE StartupFails
      <3>1. TasksStill
        BY <2>3, TasksKeepStill, StepNames, <1>0 DEF StartupFails, DropReceivers,
            TasksStill, TasksOK, Fields, Blank
      <3>2. ChannelsStill
        BY <2>3, ChannelsKeepStill DEF StartupFails, DropReceivers, ChannelsStill,
            HandsStill, Handling, ConsumerSteps, ConsumersOK, Finished
      <3> QED BY <2>3, <3>1, <3>2 DEF StartupFails, DropReceivers, Still, TasksStill,
          ChannelsStill
    <2>4. ASSUME NEW c \in Consumers, StartupActivate(c) PROVE Flows \/ Still
      <3>1. TasksStill
        BY <2>4, TasksKeepStill, StepNames, <1>0 DEF StartupActivate, TasksStill,
            TasksOK, Fields, Blank
      <3>2. ChannelsStill
        BY <2>4, ChannelsKeepStill DEF StartupActivate, ChannelsStill, HandsStill,
            Handling, ConsumerSteps, ConsumersOK, Finished
      <3> QED BY <2>4, <3>1, <3>2 DEF StartupActivate, Still, TasksStill, ChannelsStill
    <2>5. CASE StartupDone
      <3>1. TasksStill
        BY <2>5, TasksKeepStill, StepNames, <1>0 DEF StartupDone, TasksStill,
            TasksOK, Fields, Blank
      <3>2. ChannelsStill
        BY <2>5, ChannelsKeepStill DEF StartupDone, ChannelsStill, HandsStill,
            Handling, ConsumerSteps, ConsumersOK, Finished
      <3> QED BY <2>5, <3>1, <3>2 DEF StartupDone, Still, TasksStill, ChannelsStill
    <2> QED BY <1>6, <2>1, <2>2, <2>3, <2>4, <2>5 DEF StartupStep
  <1>7. CASE Environment
    <2>1. ASSUME NEW r \in Runs, StartRun(r) PROVE Flows \/ Still
      <3>1. TasksStill
        BY <2>1, TasksKeepStill, StepNames, <1>0 DEF StartRun, TasksStill, TasksOK,
            Fields, Blank
      <3>2. ChannelsStill
        BY <2>1, ChannelsKeepStill DEF StartRun, ChannelsStill, HandsStill, Handling,
            ConsumerSteps, ConsumersOK, Finished
      <3> QED BY <2>1, <3>1, <3>2 DEF StartRun, Still, TasksStill, ChannelsStill
    <2>2. ASSUME NEW t \in Clients, NEW r \in Runs, ReconcileRun(t, r) PROVE Flows \/ Still
      <3>1. TasksStill
        BY <2>2, TasksKeepStill, StepNames, <1>0 DEF ReconcileRun, TasksStill,
            TasksOK, Fields, Blank
      <3>2. ChannelsStill
        BY <2>2, ChannelsKeepStill DEF ReconcileRun, ChannelsStill, HandsStill,
            Handling, ConsumerSteps, ConsumersOK, Finished
      <3> QED BY <2>2, <3>1, <3>2 DEF ReconcileRun, Still, TasksStill, ChannelsStill
    <2>3. ASSUME NEW t \in Clients, NEW r \in Runs, Command(t, r) PROVE Flows \/ Still
      <3>1. TasksStill
        BY <2>3, TasksKeepStill, StepNames, <1>0 DEF Command, TasksStill, TasksOK,
            Fields, Blank
      <3>2. ChannelsStill
        BY <2>3, ChannelsKeepStill DEF Command, ChannelsStill, HandsStill, Handling,
            ConsumerSteps, ConsumersOK, Finished
      <3> QED BY <2>3, <3>1, <3>2 DEF Command, Still, TasksStill, ChannelsStill
    <2>4. ASSUME NEW t \in Clients, NEW a \in Approvals, NEW d \in Decisions, ResolveApproval(t, a, d)
          PROVE  Flows \/ Still
      <3>1. TasksStill
        BY <2>4, TasksKeepStill, StepNames, <1>0 DEF ResolveApproval, TasksStill,
            TasksOK, Fields, Blank
      <3>2. ChannelsStill
        BY <2>4, ChannelsKeepStill DEF ResolveApproval, ChannelsStill, HandsStill,
            Handling, ConsumerSteps, ConsumersOK, Finished
      <3> QED BY <2>4, <3>1, <3>2 DEF ResolveApproval, Still, TasksStill, ChannelsStill
    <2>5. ASSUME NEW r \in Runs, Accept(r) PROVE Flows \/ Still
      <3>1. TasksStill
        BY <2>5, TasksKeepStill, StepNames, <1>0 DEF Accept, TasksStill, TasksOK,
            Fields, Blank
      <3>2. ChannelsStill
        BY <2>5, ChannelsKeepStill DEF Accept, ChannelsStill, HandsStill, Handling,
            ConsumerSteps, ConsumersOK, Finished
      <3> QED BY <2>5, <3>1, <3>2 DEF Accept, Still, TasksStill, ChannelsStill
    <2>6. ASSUME NEW r \in Runs, NEW kind \in EmitKinds, Emit(r, kind) PROVE Flows \/ Still
      BY <2>6 DEF Flows
    <2>7. CASE PumpFail
      <3>1. TasksStill
        BY <2>7, TasksKeepStill, StepNames, <1>0 DEF PumpFail, TasksStill, TasksOK,
            Fields, Blank
      <3>2. ChannelsStill
        BY <2>7, ChannelsKeepStill DEF PumpFail, ChannelsStill, HandsStill, Handling,
            ConsumerSteps, ConsumersOK, Finished
      <3> QED BY <2>7, <3>1, <3>2 DEF PumpFail, Still, TasksStill, ChannelsStill
    <2>8. CASE Crash
      <3>1. TasksStill
        BY <2>8, TasksKeepStill, StepNames, <1>0 DEF Crash, TasksStill, TasksOK,
            Fields, Blank
      <3>2. ChannelsStill
        BY <2>8, ChannelsKeepStill DEF Crash, ChannelsStill, HandsStill, Handling,
            ConsumerSteps, ConsumersOK, Finished
      <3> QED BY <2>8, <3>1, <3>2 DEF Crash, Still, TasksStill, ChannelsStill
    <2> QED BY <1>7, <2>1, <2>2, <2>3, <2>4, <2>5, <2>6, <2>7, <2>8 DEF Environment
  <1>8. CASE UNCHANGED vars
    BY <1>8, TasksKeepStill, ChannelsKeepStill DEF vars, Still, TasksStill,
        ChannelsStill
  <1> QED BY ONLY [Next]_vars, <1>1, <1>2, <1>3, <1>4, <1>5, <1>6, <1>7, <1>8 DEF Next

(* Keeping all, dropping all, dropping the first.                          *)
LEMMA SomeWithin ==
    /\ \A s : Within(s, s) /\ Within(<<>>, s)
    /\ \A s \in Seq(Event) : s # <<>> => Within(Tail(s), s)
  BY EmptyEntries, TailEntries DEF Within

(* A step that only drops events keeps them apart.                         *)
LEMMA Dropped ==
    ASSUME Separate(Places, Where), Quiet({}) PROVE Passed
  <1>1. \A p \in Places : Within(Where'[p], Where[p])
    BY QuietPlaces
  <1> QED BY <1>1, DropsApart DEF Passed

(* So does one that hands events from one place to another.                *)
LEMMA Handed ==
    ASSUME Separate(Places, Where), NEW p \in Places, NEW q \in Places, p # q,
           Quiet({p, q}), NEW moved, moved \subseteq Entries(Where[p]),
           Entries(Where'[p]) \subseteq Entries(Where[p]) \ moved, NoRepeats(Where'[p]),
           Entries(Where'[q]) \subseteq Entries(Where[q]) \cup moved, NoRepeats(Where'[q])
    PROVE  Passed
  <1>1. \A x \in Places \ {p, q} : Within(Where'[x], Where[x])
    BY QuietPlaces
  <1> HIDE DEF Places, Where
  <1> QED BY <1>1, MovesApart DEF Passed

(* The names of places are names of places, and different.                 *)
LEMMA PlaceNames ==
    /\ InStream \in Places /\ InPending \in Places /\ InStream # InPending
    /\ \A r \in Runs : /\ InStart(r) \in Places /\ InTimeline(r) \in Places
                       /\ InStart(r) # InStream /\ InStart(r) # InPending
    /\ \A t \in Tasks : /\ InTodo(t) \in Places
                        /\ InTodo(t) # InPending
                        /\ \A r \in Runs : InTodo(t) # InStart(r)
    /\ \A c \in Consumers : /\ InQueue(c) \in Places /\ InHand(c) \in Places
                            /\ InQueue(c) # InStream /\ InQueue(c) # InHand(c)
                            /\ \A t \in Tasks : InQueue(c) # InTodo(t)
                            /\ \A r \in Runs : InHand(c) # InTimeline(r)
  <1> USE DEF Places, InStream, InPending, InStart, InTimeline, InTodo, InQueue, InHand
  <1>1. InStream \in Places /\ InPending \in Places /\ InStream # InPending
    OBVIOUS
  <1>2. ASSUME NEW r \in Runs
        PROVE  /\ InStart(r) \in Places /\ InTimeline(r) \in Places
               /\ InStart(r) # InStream /\ InStart(r) # InPending
    OBVIOUS
  <1>3. ASSUME NEW t \in Tasks
        PROVE  /\ InTodo(t) \in Places
               /\ InTodo(t) # InPending
               /\ \A r \in Runs : InTodo(t) # InStart(r)
    OBVIOUS
  <1>4. ASSUME NEW c \in Consumers
        PROVE  /\ InQueue(c) \in Places /\ InHand(c) \in Places
               /\ InQueue(c) # InStream /\ InQueue(c) # InHand(c)
               /\ \A t \in Tasks : InQueue(c) # InTodo(t)
               /\ \A r \in Runs : InHand(c) # InTimeline(r)
    OBVIOUS
  <1> QED BY ONLY <1>1, <1>2, <1>3, <1>4

(* Hands that are still take nothing.                                      *)
LEMMA StillHands ==
    ASSUME HandsStill
    PROVE  \A c \in Consumers : Within(Hand(consumers'[c]), Hand(consumers[c]))
  <1> SUFFICES ASSUME NEW c \in Consumers
               PROVE  Within(Hand(consumers'[c]), Hand(consumers[c]))
    OBVIOUS
  <1>1. Hand(consumers'[c]) = Hand(consumers[c]) \/ Hand(consumers'[c]) = <<>>
    BY DEF HandsStill, Hand
  <1> QED BY <1>1, SomeWithin

(* Where nothing changes hands, events are at most dropped.                *)
LEMMA StillPasses ==
    ASSUME Separate(Places, Where), Still, StateMoves, ~Flows PROVE Passed
  <1>1. /\ Within(stream', stream)
        /\ \A t \in Tasks : Within(task'[t].todo, task[t].todo)
        /\ \A c \in Consumers : Within(consumers'[c].queue, consumers[c].queue)
    BY SomeWithin DEF Still
  <1>2. /\ Within(state'.pendingEvents, state.pendingEvents)
        /\ \A r \in Runs : Within(state'.uncertainStarts[r].events,
                                  state.uncertainStarts[r].events)
    BY SomeWithin DEF StateMoves, Flows
  <1>3. \A c \in Consumers : Within(Hand(consumers'[c]), Hand(consumers[c]))
    BY StillHands DEF Still
  <1>4. Quiet({})
    BY <1>1, <1>2, <1>3 DEF Quiet, Still
  <1> QED BY <1>4, Dropped

(* An event from the head of one place comes to the end of another.        *)
LEMMA HeadHanded ==
    ASSUME Separate(Places, Where), NEW p \in Places, NEW q \in Places, p # q,
           Quiet({p, q}), Where[p] \in Seq(Event), Where[q] \in Seq(Event),
           Where[p] # <<>>, Where'[p] = Tail(Where[p]),
           Where'[q] = Append(Where[q], Head(Where[p]))
    PROVE  Passed
  <1> DEFINE e == Head(Where[p])
  <1> HIDE DEF Places, Where
  <1>1. /\ e \in Event /\ e \in Entries(Where[p]) /\ e \notin Entries(Where'[p])
        /\ Entries(Where'[p]) \subseteq Entries(Where[p]) /\ NoRepeats(Where'[p])
    BY TailEntries DEF Separate
  <1>2. e \notin Entries(Where[q]) /\ NoRepeats(Where[q])
    BY <1>1 DEF Separate
  <1>3. Entries(Where'[q]) = Entries(Where[q]) \cup {e} /\ NoRepeats(Where'[q])
    BY <1>1, <1>2, AppendEntries
  <1> HIDE DEF e
  <1>4. {e} \subseteq Entries(Where[p])
    BY <1>1
  <1>5. Entries(Where'[p]) \subseteq Entries(Where[p]) \ {e}
    BY <1>1
  <1> QED BY <1>1, <1>3, <1>4, <1>5, Handed

(* What is chosen from one place is all there is at another, and the rest  *)
(* is gone.                                                                *)
LEMMA ChosenHanded ==
    ASSUME Separate(Places, Where), NEW p \in Places, NEW q \in Places, p # q,
           Quiet({p, q}), Within(Where'[q], Where[p]), Where'[p] = <<>>
    PROVE  Passed
  <1> HIDE DEF Places, Where
  <1>1. NoRepeats(Where[p])
    BY DEF Separate
  <1>2. Entries(Where'[q]) \subseteq Entries(Where[p]) /\ NoRepeats(Where'[q])
    BY <1>1 DEF Within
  <1>3. Entries(Where'[p]) = {} /\ NoRepeats(Where'[p])
    BY EmptyEntries
  <1> QED BY <1>2, <1>3, Handed

(* The pump hands the event at the head of the stream to a channel, or to  *)
(* nobody.                                                                 *)
LEMMA DeliverPasses ==
    ASSUME TypeOK, SupervisorInv, Separate(Places, Where), PumpDeliver PROVE Passed /\ HandsStill
  <1> DEFINE e == Head(stream)
             c == state.routes[e.from]
  <1>1. stream \in Seq(Event) /\ stream # <<>> /\ stream' = Tail(stream)
    BY DEF PumpDeliver, TypeOK
  <1>2. e \in Event /\ e.from \in Runs
    <2>1. e \in Event
      BY <1>1, TailEntries
    <2> QED BY <2>1 DEF Event
  <1>3. c \in Consumers
    BY <1>2, FieldTypes DEF PumpDeliver
  <1>4. /\ state' = state /\ timeline' = timeline
        /\ \A t \in Tasks : task'[t].todo = task[t].todo
    <2>1. DOMAIN task = Tasks /\ DOMAIN task["pump"] = Fields /\ "pump" \in Tasks
      BY DEF SupervisorInv, RunsInv, TasksOK, Tasks
    <2> QED BY <2>1 DEF PumpDeliver, storeVars, Fields
  <1>5. CASE consumers' = consumers
    <2>1. HandsStill
      BY <1>5 DEF HandsStill
    <2>2. Quiet({})
      BY <1>1, <1>4, <1>5, <2>1, StillHands, SomeWithin DEF Quiet
    <2> QED BY <2>1, <2>2, Dropped
  <1>6. CASE Enqueue(c, e)
    <2>1. \A d \in Consumers :
             /\ consumers'[d].pc = consumers[d].pc /\ consumers'[d].event = consumers[d].event
             /\ consumers'[d].queue = IF d = c THEN Append(consumers[c].queue, e)
                                      ELSE consumers[d].queue
      BY <1>2, <1>6, Enqueued DEF TypeOK
    <2>2. HandsStill
      BY <2>1 DEF HandsStill
    <2>3. Quiet({InStream, InQueue(c)})
      BY <1>4, <2>1, <2>2, StillHands, SomeWithin DEF Quiet
    <2>4. consumers[c].queue \in Seq(Event)
      BY <1>3 DEF TypeOK, Consumer
    <2> HIDE DEF c, e
    <2>5. /\ Where[InStream] = stream /\ Where'[InStream] = Tail(stream)
          /\ Where[InQueue(c)] = consumers[c].queue
          /\ Where'[InQueue(c)] = Append(consumers[c].queue, e)
      BY <1>1, <1>3, <2>1, Contents, ContentsNext
    <2>6. InStream \in Places /\ InQueue(c) \in Places /\ InStream # InQueue(c)
      BY <1>3, PlaceNames
    <2> QED BY <1>1, <2>2, <2>3, <2>4, <2>5, <2>6, HeadHanded DEF e
  <1> QED BY <1>5, <1>6 DEF PumpDeliver

(* Or keeps it for a start, or drops it.                                   *)
LEMMA BufferPasses ==
    ASSUME TypeOK, StateInv(state), Separate(Places, Where), PumpBuffer
    PROVE  Passed /\ HandsStill
  <1> DEFINE e == Head(stream)
  <1>1. stream \in Seq(Event) /\ stream # <<>> /\ stream' = Tail(stream)
    BY DEF PumpBuffer, TypeOK
  <1>2. e \in Event
    BY <1>1, TailEntries
  <1>3. timeline' = timeline /\ task' = task /\ consumers' = consumers
    BY DEF PumpBuffer, storeVars
  <1>4. HandsStill
    BY <1>3 DEF HandsStill
  <1>5. /\ \A r \in Runs : timeline'[r] = timeline[r]
        /\ \A t \in Tasks : Within(task'[t].todo, task[t].todo)
        /\ \A c \in Consumers : Within(consumers'[c].queue, consumers[c].queue)
        /\ \A c \in Consumers : Within(Hand(consumers'[c]), Hand(consumers[c]))
    BY <1>3, SomeWithin
  <1>6. Kept(state, state', e)
    BY <1>2, BufferKeeps DEF PumpBuffer
  <1>7. Where[InStream] = stream /\ Where'[InStream] = Tail(stream)
    BY <1>1, Contents, ContentsNext
  <1> HIDE DEF e
  <1>8. CASE /\ state'.pendingEvents = Append(state.pendingEvents, e)
             /\ \A r \in Runs : state'.uncertainStarts[r].events = state.uncertainStarts[r].events
    <2>1. Quiet({InStream, InPending})
      BY <1>5, <1>8, SomeWithin DEF Quiet
    <2>2. /\ Where[InPending] = state.pendingEvents
          /\ Where'[InPending] = Append(state.pendingEvents, e)
          /\ state.pendingEvents \in Seq(Event)
      BY <1>8, Contents, ContentsNext, FieldTypes
    <2> QED BY <1>1, <1>4, <1>7, <2>1, <2>2, PlaceNames, HeadHanded DEF e
  <1>9. CASE /\ state'.pendingEvents = state.pendingEvents
             /\ \A r \in Runs : state'.uncertainStarts[r].events = state.uncertainStarts[r].events
    <2>1. /\ Within(stream', stream) /\ Within(state'.pendingEvents, state.pendingEvents)
          /\ \A r \in Runs : Within(state'.uncertainStarts[r].events,
                                    state.uncertainStarts[r].events)
      BY <1>1, <1>9, SomeWithin
    <2>2. Quiet({})
      BY <1>5, <2>1 DEF Quiet
    <2> QED BY <1>4, <2>2, Dropped
  <1>10. ASSUME state'.pendingEvents = state.pendingEvents,
                NEW h \in Runs, \A r \in Runs : state'.uncertainStarts[r].events =
                   IF r = h THEN Append(state.uncertainStarts[r].events, e)
                   ELSE state.uncertainStarts[r].events
         PROVE  Passed
    <2>1. Quiet({InStream, InStart(h)})
      BY <1>5, <1>10, SomeWithin DEF Quiet
    <2>2. /\ Where[InStart(h)] = state.uncertainStarts[h].events
          /\ Where'[InStart(h)] = Append(state.uncertainStarts[h].events, e)
          /\ state.uncertainStarts[h].events \in Seq(Event)
      BY <1>10, Contents, ContentsNext, FieldTypes
    <2>3. InStream \in Places /\ InStart(h) \in Places /\ InStream # InStart(h)
      BY PlaceNames
    <2> QED BY <1>1, <1>7, <2>1, <2>2, <2>3, HeadHanded DEF e
  <1> QED BY <1>4, <1>6, <1>8, <1>9, <1>10 DEF Kept

(* An uncertain start takes what was collected for it.                     *)
LEMMA UnknownPasses ==
    ASSUME TypeOK, SupervisorInv, StateInv(state), StartsOnce, Separate(Places, Where), StartUnknown
    PROVE  Passed /\ HandsStill
  <1> DEFINE r == Starter.run
  <1>1. /\ stream' = stream /\ timeline' = timeline /\ consumers' = consumers
        /\ \A t \in Tasks : task'[t].todo = task[t].todo
    <2>1. DOMAIN task = Tasks /\ DOMAIN task["starter"] = Fields /\ "starter" \in Tasks
      BY DEF SupervisorInv, RunsInv, TasksOK, Tasks
    <2> QED BY <2>1 DEF StartUnknown, storeVars, providerVars, Go, Fields
  <1>2. r \in Runs /\ ~state.uncertainStarts[r].held
    BY DEF StartUnknown, At, Starting, StartsOnce, SupervisorInv, RunsInv, TasksOK,
        Resting,
           Starter, Tasks
  <1>3. Retained(state, state', r)
    BY <1>2, RetainKeeps DEF StartUnknown
  <1>4. HandsStill
    BY <1>1 DEF HandsStill
  <1> HIDE DEF r
  <1>5. Quiet({InPending, InStart(r)})
    BY <1>1, <1>3, <1>4, StillHands, SomeWithin DEF Quiet, Retained
  <1>6. Within(Where'[InStart(r)], Where[InPending]) /\ Where'[InPending] = <<>>
    BY <1>2, <1>3, Contents, ContentsNext, SomeWithin DEF Retained
  <1>7. InPending \in Places /\ InStart(r) \in Places /\ InPending # InStart(r)
    BY <1>2, PlaceNames
  <1> QED BY <1>4, <1>5, <1>6, <1>7, ChosenHanded

(* What was collected for a start is on its way to the route of the run.   *)
LEMMA PendingPasses ==
    ASSUME TypeOK, SupervisorInv, StateMoves, Separate(Places, Where), ~PumpBuffer, ~StartUnknown,
           stream' = stream, timeline' = timeline,
           \A c \in Consumers : consumers'[c].queue \in {consumers[c].queue, <<>>},
           HandsStill,
           task'["starter"].todo = EventsOf(state.pendingEvents, Starter.run),
           \A t \in Tasks \ {"starter"} : task'[t] = task[t],
           state'.pendingEvents = <<>>
    PROVE  Passed
  <1>1. "starter" \in Tasks
    BY DEF Tasks
  <1>2. /\ \A c \in Consumers : Within(consumers'[c].queue, consumers[c].queue)
        /\ \A r \in Runs : Within(state'.uncertainStarts[r].events, state.uncertainStarts[r].events)
    BY SomeWithin DEF StateMoves
  <1>3. Quiet({InPending, InTodo("starter")})
    BY <1>2, StillHands, SomeWithin DEF Quiet
  <1>4. Within(EventsOf(state.pendingEvents, Starter.run), state.pendingEvents)
    BY FieldTypes, EventsOfType DEF Within
  <1>5. Within(Where'[InTodo("starter")], Where[InPending]) /\ Where'[InPending] = <<>>
    BY <1>1, <1>4, Contents, ContentsNext
  <1>6. InPending \in Places /\ InTodo("starter") \in Places /\ InPending # InTodo("starter")
    BY <1>1, PlaceNames
  <1> QED BY <1>3, <1>5, <1>6, ChosenHanded

(* A start that is bound takes the buffered events of its run along.       *)
LEMMA RouteStartPasses ==
    ASSUME TypeOK, SupervisorInv, StateMoves, StateInv(state), Separate(Places, Where),
           NEW c \in Consumers, RouteStart(c)
    PROVE  Passed /\ HandsStill
  <1>1. \A d \in Consumers \ {c} : consumers'[d] = consumers[d]
    BY DEF RouteStart, NewConsumer, SupervisorInv, RunsInv, ConsumersOK
  <1>2. consumers'[c].queue = <<>> /\ consumers'[c].pc = "recv"
    BY DEF RouteStart, NewConsumer, SupervisorInv, RunsInv, ConsumersOK, Finished
  <1>3. HandsStill /\ \A d \in Consumers : consumers'[d].queue \in {consumers[d].queue, <<>>}
    BY <1>1, <1>2 DEF HandsStill, Handling
  <1>4. /\ task'["starter"].todo = EventsOf(state.pendingEvents, Starter.run)
        /\ \A t \in Tasks \ {"starter"} : task'[t] = task[t]
    <2>1. DOMAIN task = Tasks /\ DOMAIN task["starter"] = Fields /\ "starter" \in Tasks
      BY DEF SupervisorInv, RunsInv, TasksOK, Tasks
    <2> QED BY <2>1 DEF RouteStart, Fields
  <1>5. state'.pendingEvents = <<>>
    BY DEF RouteStart, FinishHandshake, StateInv, State
  <1>6. stream' = stream /\ timeline' = timeline /\ ~PumpBuffer /\ ~StartUnknown
    <2>1. Starter'.pc = "pumpSend"
      <3>1. DOMAIN task = Tasks /\ DOMAIN task["starter"] = Fields /\ "starter" \in Tasks
        BY DEF SupervisorInv, RunsInv, TasksOK, Tasks
      <3> QED BY <3>1 DEF RouteStart, Fields, Starter
    <2>2. At("starter", "route")
      BY DEF RouteStart
    <2> QED BY <2>1, <2>2 DEF RouteStart, storeVars, providerVars, PumpBuffer,
        StartUnknown, At,
                              Starter
  <1> QED BY <1>3, <1>4, <1>5, <1>6, PendingPasses

(* So does a start the database could not bind.                            *)
LEMMA RetainPasses ==
    ASSUME TypeOK, SupervisorInv, StateMoves, StateInv(state), Separate(Places, Where), Retain
    PROVE  Passed /\ HandsStill
  <1>1. consumers' = consumers
    BY DEF Retain
  <1>2. HandsStill /\ \A d \in Consumers : consumers'[d].queue \in {consumers[d].queue, <<>>}
    BY <1>1 DEF HandsStill
  <1>3. /\ task'["starter"].todo = EventsOf(state.pendingEvents, Starter.run)
        /\ \A t \in Tasks \ {"starter"} : task'[t] = task[t]
        /\ Starter'.pc = "retainMark"
    <2>1. DOMAIN task = Tasks /\ DOMAIN task["starter"] = Fields /\ "starter" \in Tasks
      BY DEF SupervisorInv, RunsInv, TasksOK, Tasks
    <2> QED BY <2>1 DEF Retain, Fields, Starter
  <1>4. state'.pendingEvents = <<>>
    BY DEF Retain, FinishHandshake, StateInv, State
  <1>5. stream' = stream /\ timeline' = timeline /\ ~PumpBuffer /\ ~StartUnknown
    BY <1>3 DEF Retain, storeVars, providerVars, PumpBuffer, StartUnknown, At, Starter
  <1> QED BY <1>2, <1>3, <1>4, <1>5, PendingPasses

(* A task sends the first of its events, or gives them up.                 *)
LEMMA TodoPasses ==
    ASSUME TypeOK, Separate(Places, Where), NEW t \in Tasks,
           state' = state, stream' = stream, timeline' = timeline,
           \A u \in Tasks \ {t} : task'[u] = task[u],
           \/ task'[t].todo \in {task[t].todo, <<>>} /\ consumers' = consumers
           \/ /\ task[t].todo # <<>> /\ task'[t].todo = Tail(task[t].todo)
              /\ Enqueue(task[t].chan, Head(task[t].todo))
    PROVE  Passed /\ HandsStill
  <1> DEFINE c == task[t].chan
             e == Head(task[t].todo)
  <1>1. task[t].todo \in Seq(Event)
    BY FieldTypes
  <1>2. ASSUME Within(task'[t].todo, task[t].todo),
               \A d \in Consumers :
                  /\ consumers'[d].pc = consumers[d].pc
                  /\ consumers'[d].event = consumers[d].event
                  /\ consumers'[d].queue = consumers[d].queue
        PROVE  Passed /\ HandsStill
    <2>1. HandsStill
      BY <1>2 DEF HandsStill
    <2>2. \A u \in Tasks : Within(task'[u].todo, task[u].todo)
      BY <1>2, SomeWithin
    <2>3. \A d \in Consumers : Within(consumers'[d].queue, consumers[d].queue)
      BY <1>2, SomeWithin
    <2>4. Quiet({})
      BY <2>1, <2>2, <2>3, StillHands, SomeWithin DEF Quiet
    <2> QED BY <2>1, <2>4, Dropped
  <1>3. CASE task'[t].todo \in {task[t].todo, <<>>} /\ consumers' = consumers
    <2>1. Within(task'[t].todo, task[t].todo)
      BY <1>3, SomeWithin
    <2> QED BY <1>2, <1>3, <2>1
  <1>4. CASE /\ task[t].todo # <<>> /\ task'[t].todo = Tail(task[t].todo)
             /\ Enqueue(c, e)
    <2>1. e \in Event
      BY <1>1, <1>4, TailEntries
    <2>2. \A d \in Consumers :
             /\ consumers'[d].pc = consumers[d].pc /\ consumers'[d].event = consumers[d].event
             /\ consumers'[d].queue = IF d = c THEN Append(consumers[c].queue, e)
                                      ELSE consumers[d].queue
      BY <1>4, <2>1, Enqueued DEF TypeOK
    <2>3. HandsStill
      BY <2>2 DEF HandsStill
    <2>4. CASE c \notin Consumers
      <3>1. Within(task'[t].todo, task[t].todo)
        BY <1>1, <1>4, SomeWithin
      <3>2. \A d \in Consumers : d # c
        BY <2>4
      <3> QED BY <1>2, <2>2, <3>1, <3>2
    <2>5. CASE c \in Consumers
      <3>1. Quiet({InTodo(t), InQueue(c)})
        BY <2>2, <2>3, StillHands, SomeWithin DEF Quiet
      <3>2. consumers[c].queue \in Seq(Event)
        BY <2>5 DEF TypeOK, Consumer
      <3> HIDE DEF c, e
      <3>3. /\ Where[InTodo(t)] = task[t].todo /\ Where'[InTodo(t)] = Tail(task[t].todo)
            /\ Where[InQueue(c)] = consumers[c].queue
            /\ Where'[InQueue(c)] = Append(consumers[c].queue, e)
        BY <1>4, <2>2, <2>5, Contents, ContentsNext
      <3>4. InTodo(t) \in Places /\ InQueue(c) \in Places /\ InTodo(t) # InQueue(c)
        BY <2>5, PlaceNames
      <3> QED BY <1>1, <1>4, <2>3, <3>1, <3>2, <3>3, <3>4, HeadHanded DEF e
    <2> QED BY <2>4, <2>5
  <1> QED BY <1>3, <1>4

(* A task sends what it took along.                                        *)
LEMMA SendPasses ==
    ASSUME TypeOK, SupervisorInv, Separate(Places, Where), NEW t \in Tasks, Send(t)
    PROVE  Passed /\ HandsStill
  <1>0. DOMAIN task = Tasks /\ DOMAIN task[t] = Fields
    BY DEF SupervisorInv, RunsInv, TasksOK
  <1>1. state' = state /\ stream' = stream /\ timeline' = timeline
    BY DEF Send, storeVars, providerVars
  <1>2. \A u \in Tasks \ {t} : task'[u] = task[u]
    BY <1>0 DEF Send, Go, Done
  <1>3. \/ task'[t].todo \in {task[t].todo, <<>>} /\ consumers' = consumers
        \/ /\ task[t].todo # <<>> /\ task'[t].todo = Tail(task[t].todo)
           /\ Enqueue(task[t].chan, Head(task[t].todo))
    <2>1. CASE Go(t, "close") /\ consumers' = consumers
      BY <1>0, <2>1 DEF Go, Fields
    <2>2. CASE Done(t) /\ consumers' = consumers
      BY <1>0, <2>2 DEF Done, Blank
    <2>3. CASE /\ task[t].todo # <<>> /\ Enqueue(task[t].chan, Head(task[t].todo))
               /\ task' = [task EXCEPT ![t].todo = Tail(@)]
      BY <1>0, <2>3 DEF Fields
    <2> QED BY <2>1, <2>2, <2>3 DEF Send
  <1> QED BY <1>1, <1>2, <1>3, TodoPasses

(* So does a start that is retained.                                       *)
LEMMA RetainSendPasses ==
    ASSUME TypeOK, SupervisorInv, Separate(Places, Where), RetainSend
    PROVE  Passed /\ HandsStill
  <1>0. DOMAIN task = Tasks /\ DOMAIN task["starter"] = Fields /\ "starter" \in Tasks
    BY DEF SupervisorInv, RunsInv, TasksOK, Tasks
  <1>1. state' = state /\ stream' = stream /\ timeline' = timeline
    BY DEF RetainSend, storeVars, providerVars
  <1>2. \A u \in Tasks \ {"starter"} : task'[u] = task[u]
    BY <1>0 DEF RetainSend
  <1>3. \/ task'["starter"].todo \in {task["starter"].todo, <<>>} /\ consumers' = consumers
        \/ /\ task["starter"].todo # <<>> /\ task'["starter"].todo = Tail(task["starter"].todo)
           /\ Enqueue(task["starter"].chan, Head(task["starter"].todo))
    BY <1>0 DEF RetainSend, Starter, Fields
  <1> QED BY <1>0, <1>1, <1>2, <1>3, TodoPasses

(* Whoever reconciles a run takes what was collected for it.               *)
LEMMA CollectPasses ==
    ASSUME TypeOK, SupervisorInv, StateInv(state), Separate(Places, Where),
           NEW t \in Tasks, CollectUncertain(t)
    PROVE  Passed /\ HandsStill
  <1> DEFINE r == task[t].run
  <1>0. DOMAIN task = Tasks /\ DOMAIN task[t] = Fields /\ r \in Runs
    BY DEF SupervisorInv, RunsInv, TasksOK, CollectUncertain, At, Resting
  <1>1. stream' = stream /\ timeline' = timeline /\ consumers' = consumers
    BY DEF CollectUncertain, storeVars, providerVars
  <1>2. HandsStill
    BY <1>1 DEF HandsStill
  <1>3. Lessened(state, state') /\ state'.uncertainStarts[r].events = <<>>
    <2>1. state' = [state EXCEPT !.uncertainStarts[r] = NotHeld,
                                 !.uncertainOrder = Among(@, Runs \ {r})]
      BY Zenon DEF CollectUncertain
    <2> HIDE DEF r
    <2> QED BY <1>0, <2>1, CollectLess
  <1>4. \A u \in Tasks \ {t} : task'[u] = task[u]
    BY <1>0 DEF CollectUncertain, Done
  <1>5. task'[t].todo \in {<<>>, EventsOf(state.uncertainStarts[r].events, r)}
    BY <1>0 DEF CollectUncertain, Done, Blank, Fields
  <1> HIDE DEF r
  <1>6. state.uncertainStarts[r].events \in Seq(Event)
    BY <1>0, FieldTypes
  <1>7. Within(task'[t].todo, state.uncertainStarts[r].events)
    BY <1>5, <1>6, EventsOfType, SomeWithin DEF Within
  <1>8. /\ Within(state'.pendingEvents, state.pendingEvents)
        /\ \A q \in Runs : Within(state'.uncertainStarts[q].events,
                                  state.uncertainStarts[q].events)
    BY <1>3, SomeWithin DEF Lessened
  <1>9. Quiet({InStart(r), InTodo(t)})
    BY <1>1, <1>2, <1>4, <1>8, StillHands, SomeWithin DEF Quiet
  <1>10. Within(Where'[InTodo(t)], Where[InStart(r)]) /\ Where'[InStart(r)] = <<>>
    BY <1>0, <1>3, <1>7, Contents, ContentsNext
  <1>11. InStart(r) \in Places /\ InTodo(t) \in Places /\ InStart(r) # InTodo(t)
    BY <1>0, PlaceNames
  <1> QED BY <1>2, <1>9, <1>10, <1>11, ChosenHanded

(* A consumer takes the first event of its channel, and does with it what  *)
(* its kind asks for.                                                      *)
LEMMA TakenEvent ==
    ASSUME TypeOK, SupervisorInv, NEW c \in Consumers, TakeEvent(c)
    PROVE  /\ consumers[c].queue \in Seq(Event) /\ consumers[c].queue # <<>>
           /\ consumers[c].pc = "recv"
           /\ \A d \in Consumers \ {c} : consumers'[d] = consumers[d]
           /\ consumers'[c].queue = Tail(consumers[c].queue)
           /\ consumers'[c].pc \in Handling => consumers'[c].event = Head(consumers[c].queue)
           /\ consumers'[c].pc = "append" => KindOf(Head(consumers[c].queue)) = "item"
  <1> DEFINE e == Head(consumers[c].queue)
             kind == KindOf(e)
  <1>0. /\ DOMAIN consumers = Consumers
        /\ {"pc", "run", "queue", "event", "cursor", "seen"} \subseteq DOMAIN consumers[c]
    BY DEF SupervisorInv, RunsInv, ConsumersOK
  <1>1. /\ consumers[c].queue \in Seq(Event) /\ consumers[c].queue # <<>>
        /\ consumers[c].pc = "recv"
    BY DEF TypeOK, Consumer, TakeEvent, ConsumerAt
  <1>2. AfterTake(kind) = "append" => kind = "item"
    BY DEF AfterTake
  <1>4. ASSUME consumers' = [consumers EXCEPT ![c].queue = Tail(@), ![c].pc = "fail"]
        PROVE  /\ \A d \in Consumers \ {c} : consumers'[d] = consumers[d]
               /\ consumers'[c].queue = Tail(consumers[c].queue)
               /\ consumers'[c].pc = "fail"
    BY <1>0, <1>4
  <1>5. \/ consumers' = [consumers EXCEPT
             ![c].queue = Tail(@), ![c].event = e, ![c].pc = AfterTake(kind),
             ![c].cursor = IF kind = "item" THEN Len(timeline[consumers[c].run]) ELSE 0,
             ![c].seen = IF IsTerminal(kind) THEN runStatus[consumers[c].run] ELSE None]
        \/ consumers' = [consumers EXCEPT ![c].queue = Tail(@), ![c].pc = "fail"]
    BY Zenon DEF TakeEvent
  <1> DEFINE at == IF kind = "item" THEN Len(timeline[consumers[c].run]) ELSE 0
             saw == IF IsTerminal(kind) THEN runStatus[consumers[c].run] ELSE None
             after == AfterTake(kind)
  <1>6. \/ consumers' = [consumers EXCEPT
             ![c].queue = Tail(@), ![c].event = e, ![c].pc = after,
             ![c].cursor = at, ![c].seen = saw]
        \/ consumers' = [consumers EXCEPT ![c].queue = Tail(@), ![c].pc = "fail"]
    BY <1>5, Zenon
  <1>7. after = "append" => kind = "item"
    BY <1>2
  <1> HIDE DEF at, saw, after, e, kind
  <1>8. CASE consumers' = [consumers EXCEPT
             ![c].queue = Tail(@), ![c].event = e, ![c].pc = after,
             ![c].cursor = at, ![c].seen = saw]
    <2>1. /\ \A d \in Consumers \ {c} : consumers'[d] = consumers[d]
          /\ consumers'[c].queue = Tail(consumers[c].queue)
          /\ consumers'[c].event = e /\ consumers'[c].pc = after
      BY <1>0, <1>8
    <2> QED BY <1>1, <1>7, <2>1 DEF e, kind
  <1>9. CASE consumers' = [consumers EXCEPT ![c].queue = Tail(@), ![c].pc = "fail"]
    BY <1>1, <1>4, <1>9 DEF Handling
  <1> QED BY <1>6, <1>8, <1>9

(* So it goes from the channel to its hand.                                *)
LEMMA TakePasses ==
    ASSUME TypeOK, SupervisorInv, Separate(Places, Where), NEW c \in Consumers, TakeEvent(c)
    PROVE  Passed
  <1> DEFINE e == Head(consumers[c].queue)
  <1>1. /\ consumers[c].queue \in Seq(Event) /\ consumers[c].queue # <<>>
        /\ consumers[c].pc = "recv"
    BY DEF TypeOK, Consumer, TakeEvent, ConsumerAt
  <1>2. state' = state /\ stream' = stream /\ timeline' = timeline /\ task' = task
    BY DEF TakeEvent, storeVars, providerVars
  <1>3. /\ \A d \in Consumers \ {c} : consumers'[d] = consumers[d]
        /\ consumers'[c].queue = Tail(consumers[c].queue)
        /\ consumers'[c].pc \in Handling => consumers'[c].event = e
    BY TakenEvent
  <1>4. Hand(consumers[c]) = <<>> /\ Hand(consumers'[c]) \in {<<e>>, <<>>}
    BY <1>1, <1>3 DEF Hand, Handling
  <1>5. Quiet({InQueue(c), InHand(c)})
    BY <1>2, <1>3, SomeWithin DEF Quiet
  <1>6. /\ Where[InQueue(c)] = consumers[c].queue
        /\ Where'[InQueue(c)] = Tail(consumers[c].queue)
        /\ Where[InHand(c)] = <<>> /\ Where'[InHand(c)] \in {<<e>>, <<>>}
    BY <1>3, <1>4, Contents, ContentsNext
  <1>7. InQueue(c) \in Places /\ InHand(c) \in Places /\ InQueue(c) # InHand(c)
    BY PlaceNames
  <1>8. NoRepeats(consumers[c].queue)
    BY <1>6, <1>7 DEF Separate
  <1>9. /\ {e} \subseteq Entries(Where[InQueue(c)])
        /\ Entries(Where'[InQueue(c)]) \subseteq Entries(Where[InQueue(c)]) \ {e}
        /\ NoRepeats(Where'[InQueue(c)])
    BY <1>1, <1>6, <1>8, TailEntries
  <1>10. /\ Entries(Where'[InHand(c)]) \subseteq {e}
         /\ NoRepeats(Where'[InHand(c)])
    BY <1>6, EmptyEntries, OneEntry
  <1> HIDE DEF e
  <1>11. Entries(Where'[InHand(c)]) \subseteq Entries(Where[InHand(c)]) \cup {e}
    BY <1>10
  <1> QED BY <1>5, <1>7, <1>9, <1>10, <1>11, Handed

(* One more event on a timeline.                                           *)
LEMMA AppliedOneMore ==
    ASSUME NEW r, NEW line \in Seq(1..MaxEvents), NEW n \in 1..MaxEvents,
           [from |-> r, n |-> n] \notin Entries(Applied(r, line)), NoRepeats(Applied(r, line))
    PROVE  /\ Entries(Applied(r, Append(line, n))) =
                 Entries(Applied(r, line)) \cup {[from |-> r, n |-> n]}
           /\ NoRepeats(Applied(r, Append(line, n)))
  <1> DEFINE more == Append(line, n)
  <1>1. /\ DOMAIN more = DOMAIN line \cup {Len(line) + 1}
        /\ \A i \in DOMAIN line : more[i] = line[i]
        /\ more[Len(line) + 1] = n
        /\ Len(line) + 1 \notin DOMAIN line
    OBVIOUS
  <1> HIDE DEF more
  <1>2. /\ \A i \in DOMAIN line : Applied(r, more)[i] = Applied(r, line)[i]
        /\ Applied(r, more)[Len(line) + 1] = [from |-> r, n |-> n]
        /\ DOMAIN Applied(r, more) = DOMAIN more
        /\ DOMAIN Applied(r, line) = DOMAIN line
    BY <1>1 DEF Applied
  <1> DEFINE old == Applied(r, line)
             new == Applied(r, more)
             e == [from |-> r, n |-> n]
             k == Len(line) + 1
  <1>3. /\ DOMAIN new = DOMAIN old \cup {k} /\ k \notin DOMAIN old
        /\ \A i \in DOMAIN old : new[i] = old[i]
        /\ new[k] = e
    BY <1>1, <1>2
  <1>4. e \notin Entries(old) /\ NoRepeats(old)
    OBVIOUS
  <1> HIDE DEF old, new, e, k
  <1>5. Entries(new) = Entries(old) \cup {e}
    BY <1>3 DEF Entries
  <1>6. NoRepeats(new)
    BY <1>3, <1>4 DEF NoRepeats, Entries
  <1> QED BY <1>5, <1>6 DEF new, old, e, more

(* A consumer writes the item it has taken to the timeline of its run.     *)
LEMMA AppendPasses ==
    ASSUME TypeOK, SupervisorInv, ChannelsInv, Separate(Places, Where),
           NEW c \in Consumers, AppendItem(c)
    PROVE  Passed /\ HandsStill
  <1> DEFINE r == consumers[c].run
             e == consumers[c].event
  <1>1. /\ consumers[c].pc = "append" /\ r \in Runs /\ e \in Event /\ e.from = r
        /\ DOMAIN consumers = Consumers
    BY DEF AppendItem, ConsumerAt, SupervisorInv, RunsInv, ConsumersOK, ChannelsInv,
        Handling
  <1>2. state' = state /\ stream' = stream /\ task' = task
    BY DEF AppendItem, providerVars
  <1>3. /\ \A d \in Consumers \ {c} : consumers'[d] = consumers[d]
        /\ consumers'[c].queue = consumers[c].queue
        /\ consumers'[c].pc \notin Handling
    BY <1>1 DEF AppendItem, ConsumerGo, Handling, SupervisorInv, RunsInv, ConsumersOK
  <1>4. HandsStill
    BY <1>3 DEF HandsStill
  <1>5. Hand(consumers[c]) = <<e>> /\ Hand(consumers'[c]) = <<>>
    BY <1>1, <1>3 DEF Hand, Handling
  <1>6. CASE timeline' = timeline
    <2>1. Quiet({})
      BY <1>2, <1>3, <1>4, <1>6, StillHands, SomeWithin DEF Quiet
    <2> QED BY <1>4, <2>1, Dropped
  <1>7. CASE timeline' = [timeline EXCEPT ![r] = Append(@, e.n)]
    <2>1. timeline[r] \in Seq(1..MaxEvents) /\ DOMAIN timeline = Runs /\ e.n \in 1..MaxEvents
      BY <1>1 DEF TypeOK, Event
    <2>2. /\ \A q \in Runs \ {r} : timeline'[q] = timeline[q]
          /\ timeline'[r] = Append(timeline[r], e.n)
      BY <1>1, <1>7, <2>1
    <2>3. e = [from |-> r, n |-> e.n]
      BY <1>1 DEF Event
    <2> HIDE DEF r, e
    <2>4. InHand(c) \in Places /\ InTimeline(r) \in Places /\ InHand(c) # InTimeline(r)
      BY <1>1, PlaceNames
    <2>5. /\ Where[InHand(c)] = <<e>> /\ Where'[InHand(c)] = <<>>
          /\ Where[InTimeline(r)] = Applied(r, timeline[r])
          /\ Where'[InTimeline(r)] = Applied(r, Append(timeline[r], e.n))
      BY <1>1, <1>5, <2>2, Contents, ContentsNext
    <2>6. e \in Entries(Where[InHand(c)])
      BY <2>5, OneEntry
    <2>7. e \notin Entries(Where[InTimeline(r)]) /\ NoRepeats(Where[InTimeline(r)])
      BY <2>4, <2>6 DEF Separate
    <2>8. /\ Entries(Where'[InTimeline(r)]) = Entries(Where[InTimeline(r)]) \cup {e}
          /\ NoRepeats(Where'[InTimeline(r)])
      BY <2>1, <2>3, <2>5, <2>7, AppliedOneMore
    <2>9. Quiet({InHand(c), InTimeline(r)})
      BY <1>2, <1>3, <1>4, <2>2, StillHands, SomeWithin DEF Quiet
    <2>10. /\ {e} \subseteq Entries(Where[InHand(c)])
           /\ Entries(Where'[InHand(c)]) \subseteq Entries(Where[InHand(c)]) \ {e}
           /\ NoRepeats(Where'[InHand(c)])
      BY <2>5, <2>6, EmptyEntries
    <2> QED BY <1>4, <2>4, <2>8, <2>9, <2>10, Handed
  <1> QED BY <1>6, <1>7 DEF AppendItem

-----------------------------------------------------------------------------
(* Every event is in one place.                                            *)

(* What was sent stays sent, as what it was.                               *)
LEMMA SentStays ==
    ASSUME TypeOK, EmissionMoves
    PROVE  /\ Emitted \subseteq Emitted'
           /\ \A r \in Runs : \A n \in DOMAIN sent[r] :
                 n \in DOMAIN sent'[r] /\ sent'[r][n] = sent[r][n]
  <1>1. ASSUME NEW r \in Runs
        PROVE  \A n \in DOMAIN sent[r] : n \in DOMAIN sent'[r] /\ sent'[r][n] = sent[r][n]
    <2>1. sent[r] \in Seq(EmitKinds)
      BY DEF TypeOK
    <2>2. CASE sent'[r] = sent[r]
      BY <2>2
    <2>3. ASSUME NEW kind \in EmitKinds, sent'[r] = Append(sent[r], kind)
          PROVE  \A n \in DOMAIN sent[r] : n \in DOMAIN sent'[r] /\ sent'[r][n] = sent[r][n]
      BY <2>1, <2>3
    <2> QED BY <2>2, <2>3 DEF EmissionMoves
  <1>2. \A e \in Event : e.from \in Runs
    BY DEF Event
  <1> QED BY <1>1, <1>2 DEF Emitted

(* A new event is one that nobody has.                                     *)
LEMMA EmitPasses ==
    ASSUME TypeOK, Once, Known, NEW r \in Runs, NEW kind \in EmitKinds, Emit(r, kind)
    PROVE  Once' /\ Known' /\ HandsStill
  <1> DEFINE n == Len(sent[r]) + 1
             e == [from |-> r, n |-> n]
  <1>1. /\ sent[r] \in Seq(EmitKinds) /\ DOMAIN sent = Runs /\ stream \in Seq(Event)
        /\ Len(sent[r]) < MaxEvents
    BY DEF TypeOK, Emit
  <1>2. /\ sent' = [sent EXCEPT ![r] = Append(@, kind)]
        /\ stream' = Append(stream, e)
        /\ state' = state /\ timeline' = timeline /\ task' = task /\ consumers' = consumers
    BY DEF Emit, storeVars, innerVars
  <1>3. n \in 1..MaxEvents /\ n \notin DOMAIN sent[r]
    BY <1>1, StateAssumption
  <1>4. e \in Event /\ e \notin Emitted
    BY <1>3 DEF Event, Emitted
  <1>5. \A x \in DOMAIN sent[r] \cup {n} : x \in DOMAIN sent'[r]
    BY <1>1, <1>2
  <1>6. Emitted \subseteq Emitted'
    <2>1. \A f \in Event : f.from \in Runs
      BY DEF Event
    <2>2. ASSUME NEW f \in Event, f.n \in DOMAIN sent[f.from]
          PROVE  f.n \in DOMAIN sent'[f.from]
      BY <1>1, <1>2, <1>5, <2>1, <2>2
    <2> QED BY <2>2 DEF Emitted
  <1>7. e \in Emitted'
    BY <1>4, <1>5 DEF Emitted
  <1>8. HandsStill
    BY <1>2 DEF HandsStill
  <1>9. /\ \A x \in Places \ {InStream} : Where'[x] = Where[x]
        /\ Where[InStream] = stream /\ Where'[InStream] = Append(stream, e)
        /\ InStream \in Places
    <2>1. \A x \in Places \ {InStream} : Where'[x] = Where[x]
      <3>1. \A c \in Consumers : Where'[InQueue(c)] = Where[InQueue(c)] /\ Where'[InHand(c)] = Where[InHand(c)]
        BY <1>2, Contents, ContentsNext
      <3>2. \A t \in Tasks : Where'[InTodo(t)] = Where[InTodo(t)]
        BY <1>2, Contents, ContentsNext
      <3>3. \A q \in Runs : /\ Where'[InStart(q)] = Where[InStart(q)]
                            /\ Where'[InTimeline(q)] = Where[InTimeline(q)]
        BY <1>2, Contents, ContentsNext
      <3>4. Where'[InPending] = Where[InPending]
        BY <1>2, Contents, ContentsNext
      <3> QED BY <3>1, <3>2, <3>3, <3>4 DEF Places
    <2> QED BY <1>2, <2>1, Contents, ContentsNext, PlaceNames
  <1>10. \A x \in Places : e \notin Entries(Where[x])
    BY <1>4 DEF Known
  <1>11. NoRepeats(stream) /\ e \notin Entries(stream)
    BY <1>9, <1>10 DEF Once, Separate
  <1> HIDE DEF e
  <1>12. Entries(Where'[InStream]) = Entries(Where[InStream]) \cup {e} /\ NoRepeats(Where'[InStream])
    BY <1>1, <1>4, <1>9, <1>11, AppendEntries
  <1>13. Once'
    BY <1>9, <1>10, <1>12, NewApart DEF Once
  <1>14. Known'
    BY <1>6, <1>7, <1>9, <1>12 DEF Known
  <1> QED BY <1>8, <1>13, <1>14

(* What is handed on was sent before.                                      *)
LEMMA PassedIsKnown ==
    ASSUME Known, Emitted \subseteq Emitted', Passed PROVE Once' /\ Known'
  BY DEF Known, Passed, NothingNew, Once

(* What a consumer has in its hand was sent.                               *)
LEMMA HandsKnown ==
    ASSUME Known
    PROVE  \A c \in Consumers : consumers[c].pc \in Handling => consumers[c].event \in Emitted
  <1> SUFFICES ASSUME NEW c \in Consumers, consumers[c].pc \in Handling
               PROVE  consumers[c].event \in Emitted
    OBVIOUS
  <1>1. Where[InHand(c)] = <<consumers[c].event>>
    BY Contents DEF Hand
  <1> QED BY <1>1, PlaceNames, OneEntry DEF Known

(* In the form that the outcomes need.                                     *)
LEMMA HandledKnown == Known => HandledAreKnown
  BY HandsKnown DEF HandledAreKnown, Emitted

(* So are the events of a timeline.                                        *)
LEMMA TimelineKnown ==
    ASSUME TypeOK, Known, NEW r \in Runs PROVE Entries(timeline[r]) \subseteq DOMAIN sent[r]
  <1> SUFFICES ASSUME NEW i \in DOMAIN timeline[r] PROVE timeline[r][i] \in DOMAIN sent[r]
    BY DEF Entries
  <1> DEFINE e == [from |-> r, n |-> timeline[r][i]]
  <1>1. Where[InTimeline(r)] = Applied(r, timeline[r]) /\ InTimeline(r) \in Places
    BY Contents, PlaceNames
  <1>2. e \in Entries(Where[InTimeline(r)])
    BY <1>1 DEF Applied, Entries
  <1> HIDE DEF e
  <1>3. e \in Emitted
    BY <1>1, <1>2 DEF Known
  <1> QED BY <1>3 DEF Emitted, e

(* Every step appends only items.                                          *)
LEMMA KindsStep ==
    ASSUME TypeOK, Known, KindsRight, EmissionMoves, Hands, Lines PROVE KindsRight'
  <1>1. \A r \in Runs : \A n \in DOMAIN sent[r] : sent'[r][n] = sent[r][n]
    BY SentStays
  <1>2. \A e \in Emitted : sent'[e.from][e.n] = KindOf(e)
    BY <1>1 DEF Emitted, Event, KindOf
  <1>3. \A c \in Consumers : consumers[c].pc = "append" => consumers[c].event \in Emitted
    BY HandsKnown DEF Handling
  <1>4. ASSUME NEW c \in Consumers, consumers'[c].pc = "append"
        PROVE  sent'[consumers'[c].event.from][consumers'[c].event.n] = "item"
    BY <1>2, <1>3, <1>4 DEF Hands, KindsRight
  <1>5. ASSUME NEW r \in Runs, NEW n \in Entries(timeline'[r]) PROVE sent'[r][n] = "item"
    <2>1. CASE n \in Entries(timeline[r])
      BY <1>1, <2>1, TimelineKnown DEF KindsRight
    <2>2. ASSUME NEW c \in Consumers, consumers[c].pc = "append",
                 consumers[c].event.from = r, n = consumers[c].event.n
          PROVE  sent'[r][n] = "item"
      BY <1>2, <1>3, <2>2 DEF KindsRight
    <2> QED BY <1>5, <2>1, <2>2 DEF Lines
  <1> QED BY <1>4, <1>5 DEF KindsRight, KindOf

(* A consumer takes an item to append it, and has nothing new in its hand  *)
(* otherwise.                                                              *)
LEMMA HandsStep ==
    ASSUME TypeOK, SupervisorInv, Known, HandsStill \/ \E c \in Consumers : TakeEvent(c)
    PROVE  Hands
  <1>1. CASE HandsStill
    BY <1>1 DEF HandsStill, Hands, Handling
  <1>2. ASSUME NEW c \in Consumers, TakeEvent(c) PROVE Hands
    <2> DEFINE e == Head(consumers[c].queue)
    <2>1. /\ consumers[c].queue \in Seq(Event) /\ consumers[c].queue # <<>>
          /\ \A d \in Consumers \ {c} : consumers'[d] = consumers[d]
          /\ consumers'[c].pc \in Handling => consumers'[c].event = e
          /\ consumers'[c].pc = "append" => KindOf(e) = "item"
      BY <1>2, TakenEvent
    <2>2. e \in Entries(consumers[c].queue)
      BY <2>1, TailEntries
    <2>3. e \in Emitted
      BY <2>2, Contents, PlaceNames DEF Known
    <2> HIDE DEF e
    <2> QED BY <2>1, <2>3 DEF Hands, Handling
  <1> QED BY <1>1, <1>2

(* Only a consumer writes to a timeline, the item in its hand.             *)
LEMMA LinesStep ==
    ASSUME TypeOK, SupervisorInv, ChannelsInv, [Next]_vars PROVE Lines
  <1>1. ASSUME timeline' = timeline PROVE Lines
    BY <1>1 DEF Lines
  <1>2. CASE ~Flows
    BY <1>1, <1>2, StillStep DEF Still
  <1>3. ASSUME NEW c \in Consumers, AppendItem(c) PROVE Lines
    <2> DEFINE r == consumers[c].run
               n == consumers[c].event.n
               S == 1..MaxEvents
    <2>1. /\ consumers[c].pc = "append" /\ r \in Runs /\ consumers[c].event \in Event
          /\ consumers[c].event.from = r
      BY <1>3 DEF AppendItem, ConsumerAt, SupervisorInv, RunsInv, ConsumersOK,
          ChannelsInv,
                  Handling
    <2>2. timeline[r] \in Seq(S) /\ DOMAIN timeline = Runs /\ n \in S
      BY <2>1 DEF TypeOK, Event
    <2>3. timeline' = timeline \/ timeline' = [timeline EXCEPT ![r] = Append(@, n)]
      BY <1>3 DEF AppendItem
    <2> HIDE DEF r, n, S
    <2>4. CASE timeline' = [timeline EXCEPT ![r] = Append(@, n)]
      <3>1. /\ \A q \in Runs \ {r} : timeline'[q] = timeline[q]
            /\ timeline'[r] = Append(timeline[r], n)
        BY <2>1, <2>2, <2>4
      <3>2. Entries(timeline'[r]) = Entries(timeline[r]) \cup {n}
        BY <2>2, <3>1, AppendEntries
      <3>3. n = consumers[c].event.n
        BY DEF n
      <3> QED BY <2>1, <3>1, <3>2, <3>3 DEF Lines
    <2> QED BY <1>1, <2>3, <2>4
  <1>4. ASSUME NEW c \in Consumers, RouteStart(c) \/ TakeEvent(c) PROVE Lines
    BY <1>1, <1>4 DEF RouteStart, TakeEvent, storeVars
  <1>5. ASSUME NEW t \in Tasks, Send(t) \/ CollectUncertain(t) PROVE Lines
    BY <1>1, <1>5 DEF Send, CollectUncertain, storeVars
  <1>6. ASSUME NEW r \in Runs, NEW kind \in EmitKinds, Emit(r, kind) PROVE Lines
    BY <1>1, <1>6 DEF Emit, storeVars
  <1>7. CASE PumpDeliver \/ PumpBuffer \/ StartUnknown \/ Retain \/ RetainSend
    BY <1>1, <1>7 DEF PumpDeliver, PumpBuffer, StartUnknown, Retain, RetainSend,
        storeVars
  <1>8. Clients \subseteq Tasks
    BY DEF Tasks
  <1> QED BY <1>2, <1>3, <1>4, <1>5, <1>6, <1>7, <1>8 DEF Flows

(* The events stay apart.                                                  *)
LEMMA FlowStep ==
    ASSUME TypeOK, SupervisorInv, StateInv(state), StartsOnce, StateMoves, ChannelsInv,
           Once, Known, EmissionMoves, [Next]_vars
    PROVE  Once' /\ Known' /\ (HandsStill \/ \E c \in Consumers : TakeEvent(c))
  <1> USE DEF Once
  <1>1. Emitted \subseteq Emitted'
    BY SentStays
  <1>2. ASSUME Passed, HandsStill \/ \E c \in Consumers : TakeEvent(c)
        PROVE  Once' /\ Known' /\ (HandsStill \/ \E c \in Consumers : TakeEvent(c))
    BY <1>1, <1>2, PassedIsKnown
  <1>3. CASE ~Flows
    <2>1. Still
      BY <1>3, StillStep
    <2> QED BY <1>2, <1>3, <2>1, StillPasses DEF Still
  <1>4. CASE \/ PumpDeliver \/ PumpBuffer \/ StartUnknown \/ Retain \/ RetainSend
    BY <1>2, <1>4, DeliverPasses, BufferPasses, UnknownPasses, RetainPasses,
        RetainSendPasses
  <1>5. ASSUME NEW c \in Consumers, RouteStart(c) \/ TakeEvent(c) \/ AppendItem(c)
        PROVE  Once' /\ Known' /\ (HandsStill \/ \E d \in Consumers : TakeEvent(d))
    BY <1>2, <1>5, RouteStartPasses, TakePasses, AppendPasses
  <1>6. ASSUME NEW t \in Tasks, Send(t) \/ CollectUncertain(t)
        PROVE  Once' /\ Known' /\ (HandsStill \/ \E d \in Consumers : TakeEvent(d))
    BY <1>2, <1>6, SendPasses, CollectPasses
  <1>7. ASSUME NEW r \in Runs, NEW kind \in EmitKinds, Emit(r, kind)
        PROVE  Once' /\ Known' /\ (HandsStill \/ \E d \in Consumers : TakeEvent(d))
    BY <1>7, EmitPasses
  <1>8. Clients \subseteq Tasks
    BY DEF Tasks
  <1> QED BY <1>3, <1>4, <1>5, <1>6, <1>7, <1>8 DEF Flows

-----------------------------------------------------------------------------
(* The invariant of the state, and what it says.                           *)

(* Every step keeps it.                                                    *)
LEMMA WholeStep ==
    ASSUME WholeInv, [Next]_vars PROVE WholeInv'
  <1> USE DEF WholeInv, TasksInv, EventsInv
  <1>1. SupervisorInv' /\ PresentRuns \subseteq PresentRuns'
    BY SupervisorStep, RunsStay DEF SupervisorInv
  <1>2. StateMoves /\ RunsChange /\ StarterMoves /\ EmissionMoves /\ StatusMoves
    BY StateStep, RunsOfChannels, StarterStep, EmissionStep, StatusStep
  <1>3. StateInv(state)'
    BY <1>2 DEF StateMoves
  <1>4. Present' /\ StatePresent'
    BY <1>1, <1>2, PresentStep, StatePresentStep
  <1>5. RoutesInv' /\ ChannelsInv' /\ SendersInv'
    BY <1>2, RoutesStep, ChannelsStep, SendersStep
  <1>6. TypeOK'
    BY TypeStep
  <1>7. StartsOnce' /\ StarterInv' /\ EmissionsInv'
    BY <1>2, StartsOnceStep, StarterInvStep DEF EmissionMoves
  <1>8. OutcomeIsTheProviders'
    BY <1>2, HandledKnown, OutcomeStep
  <1>9. Once' /\ Known' /\ (HandsStill \/ \E c \in Consumers : TakeEvent(c))
    BY <1>2, FlowStep
  <1>10. KindsRight'
    BY <1>2, <1>9, HandsStep, LinesStep, KindsStep
  <1> QED BY <1>1, <1>3, <1>4, <1>5, <1>6, <1>7, <1>8, <1>9, <1>10

(* It holds initially: nothing has been sent, and nothing is anywhere.     *)
LEMMA WholeInit == Init => WholeInv
  <1> SUFFICES ASSUME Init PROVE WholeInv
    OBVIOUS
  <1>1. SupervisorInv
    BY SupervisorInit
  <1>2. /\ state = EmptyState /\ startup = "ready" /\ page = {} /\ affected = {}
        /\ stream = <<>> /\ pumpHandle = FALSE
        /\ timeline = [r \in Runs |-> <<>>] /\ task = [t \in Tasks |-> Blank]
        /\ consumers = [c \in Consumers |-> Finished]
        /\ provider = [r \in Runs |-> "none"] /\ sent = [r \in Runs |-> <<>>]
        /\ answers = [a \in Approvals |-> {}]
        /\ faults = [store |-> 0, pump |-> 0, crash |-> 0]
    BY DEF Init
  <1>3. StateInv(state)
    BY <1>2, EmptyLess DEF Lessened
  <1>4. /\ \A r \in Runs : /\ timeline[r] = <<>> /\ sent[r] = <<>> /\ provider[r] = "none"
                           /\ runStatus[r] = "absent" /\ state.routes[r] = None
                           /\ state.uncertainStarts[r] = NotHeld
        /\ \A t \in Tasks : task[t].pc = "idle" /\ task[t].chan = None /\ task[t].todo = <<>>
        /\ \A c \in Consumers : /\ consumers[c].pc = "done" /\ consumers[c].run = None
                                /\ consumers[c].queue = <<>>
        /\ state.pendingEvents = <<>>
    BY <1>2 DEF Init, TablesInit, EmptyState, Blank, Finished
  <1>5. TypeOK
    <2>1. TablesTypeOK
      BY DEF Init, TablesInit, TablesTypeOK, NoApproval, ApprovalRow
    <2>2. task \in [Tasks -> Task]
      BY <1>2, BlankType
    <2>3. Finished \in Consumer
      BY NoneAssumption DEF Finished, Consumer
    <2>4. consumers \in [Consumers -> Consumer]
      BY <1>2, <2>3
    <2>5. faults \in [store : 0..MaxStoreFaults, pump : 0..MaxPumpFailures,
                      crash : 0..MaxCrashes]
      BY <1>2, SupervisorAssumption
    <2>6. /\ timeline \in [Runs -> Seq(1..MaxEvents)]
          /\ sent \in [Runs -> Seq(EmitKinds)] /\ stream \in Seq(Event)
      BY <1>2
    <2>7. /\ answers \in [Approvals -> SUBSET Decisions]
          /\ provider \in [Runs -> {"none", "requested", "live", "ended", "refused"}]
      BY <1>2
    <2>8. Around
      BY <1>2, <2>5, <2>6, <2>7, Zenon DEF Around
    <2> QED BY <1>3, <2>1, <2>2, <2>4, <2>8 DEF TypeOK, Around, StateInv
  <1>6. TasksInv
    <2>1. StartsOnce /\ StatePresent /\ RoutesInv
      BY <1>4, NotHeldType DEF StartsOnce, StatePresent, RoutesInv, Starter,
          Starting, Tasks
    <2>2. Present
      BY <1>2, <1>4 DEF Present, Resting
    <2>3. ChannelsInv
      BY <1>4, EmptyEntries, StateAssumption DEF ChannelsInv, Handling
    <2>4. SendersInv
      BY <1>4, EmptyEntries DEF SendersInv
    <2> QED BY <2>1, <2>2, <2>3, <2>4 DEF TasksInv
  <1>7. StarterInv /\ EmissionsInv /\ OutcomeIsTheProviders
    BY <1>4 DEF StarterInv, EmissionsInv, OutcomeIsTheProviders, IsTerminal,
        Terminal, Starter,
                Tasks
  <1>8. \A p \in Places : Entries(Where[p]) = {} /\ NoRepeats(Where[p])
    <2>1. \A r \in Runs : /\ Entries(Applied(r, timeline[r])) = {}
                          /\ NoRepeats(Applied(r, timeline[r]))
      <3>1. \A r \in Runs : DOMAIN Applied(r, timeline[r]) = DOMAIN timeline[r]
        BY DEF Applied
      <3>2. DOMAIN <<>> = {}
        OBVIOUS
      <3>3. \A r \in Runs : DOMAIN timeline[r] = {}
        BY <1>4, <3>2, Zenon
      <3> QED BY <3>1, <3>3 DEF Entries, NoRepeats
    <2>2. \A c \in Consumers : Hand(consumers[c]) = <<>>
      BY <1>4 DEF Hand, Handling
    <2>3. \A r \in Runs : state.uncertainStarts[r].events = <<>>
      BY <1>4, NotHeldType
    <2> QED BY <1>2, <1>4, <2>1, <2>2, <2>3, Contents, EmptyEntries DEF Places
  <1>9. EventsInv
    <2>1. Once /\ Known
      BY <1>8 DEF Once, Separate, Known
    <2>2. KindsRight
      BY <1>4, EmptyEntries DEF KindsRight
    <2> QED BY <2>1, <2>2 DEF EventsInv
  <1> QED BY <1>1, <1>3, <1>5, <1>6, <1>7, <1>9 DEF WholeInv

(* So it always holds.                                                     *)
LEMMA WholeInvariant == Spec => []WholeInv
  BY WholeInit, WholeStep, PTL DEF Spec

(* What State holds has its type, its maps name the same attached runs and *)
(* its buffers keep within ROUTE_CHANNEL_CAPACITY and MAX_UNCERTAIN_STARTS *)
(* at every unlock, for any number of runs, callers and channels.          *)
THEOREM StateStaysConsistent == Spec => []StateIsConsistent
  <1>1. ASSUME WholeInv PROVE StateIsConsistent
    <2>1. TypeOK /\ StateInv(state) /\ ChannelsInv /\ RoutesInv
      BY <1>1 DEF WholeInv, TasksInv
    <2>2. RouteMapsAgree
      BY <2>1 DEF RouteMapsAgree, StateInv, Routed, RoutesInv
    <2>3. BuffersAreBounded
      BY <2>1 DEF BuffersAreBounded, StateInv, Bounded, ChannelsInv, Entries, NoRepeats
    <2> QED BY <2>1, <2>2, <2>3 DEF StateIsConsistent
  <1> QED BY <1>1, WholeInvariant, PTL

(* A run ends with the outcome its provider reported last, or failed when  *)
(* the provider refused to start it; nothing the supervisor does on a full *)
(* channel, a broken stream, a store fault or a restart invents an outcome.*)
THEOREM OutcomesAreTheProviders == Spec => []OutcomeIsTheProviders
  <1>1. WholeInv => OutcomeIsTheProviders
    BY DEF WholeInv
  <1> QED BY <1>1, WholeInvariant, PTL

(* No event is written to a timeline twice, and only items are: an event   *)
(* is always in one place, be that the stream, a handshake buffer, an      *)
(* uncertain start, a task, a channel, a consumer or a timeline.           *)
THEOREM EventsAreWrittenOnce == Spec => []TimelineHasEachEventOnce
  <1>1. ASSUME WholeInv PROVE TimelineHasEachEventOnce
    <2>1. Once /\ KindsRight
      BY <1>1 DEF WholeInv, EventsInv
    <2>2. ASSUME NEW r \in Runs, NEW i \in DOMAIN timeline[r], NEW j \in DOMAIN timeline[r],
                 timeline[r][i] = timeline[r][j]
          PROVE  i = j
      <3>1. NoRepeats(Applied(r, timeline[r]))
        BY <2>1, Contents, PlaceNames DEF Once, Separate
      <3> QED BY <2>2, <3>1 DEF NoRepeats, Applied
    <2>3. \A r \in Runs : \A i \in DOMAIN timeline[r] : sent[r][timeline[r][i]] = "item"
      BY <2>1 DEF KindsRight, Entries
    <2> QED BY <2>2, <2>3 DEF TimelineHasEachEventOnce
  <1> QED BY <1>1, WholeInvariant, PTL

-----------------------------------------------------------------------------
(* The restart.                                                            *)

(* The fields of the variables that the restart is about.                  *)
LEMMA BootTypes ==
    ASSUME TypeOK
    PROVE  /\ task \in [Tasks -> Task] /\ consumers \in [Consumers -> Consumer]
           /\ state \in State /\ state.routes \in [Runs -> Consumers \cup {None}]
           /\ runStatus \in [Runs -> RunStatus \cup {"absent"}] /\ page \subseteq Runs
           /\ "pump" \in Tasks /\ "marker" \in Tasks /\ "starter" \in Tasks
           /\ "pump" # "marker" /\ None \notin Runs /\ None \notin Consumers
           /\ \A c \in Consumers : consumers[c] \in Consumer /\ consumers[c].run \in Runs \cup {None}
           /\ \A t \in Tasks : task[t] \in Task
  BY StateAssumption, NoneAssumption DEF TypeOK, TablesTypeOK, State, Tasks, Consumer

(* A transition that is tried, when no store call fails, leaves no run     *)
(* where it was tried from.                                                *)
LEMMA TryCalms ==
    ASSUME TypeOK, ~StoreFault, NEW r \in Runs, NEW from, NEW to,
           to \notin {"starting", "running"}, TryTransition(r, from, to, None)
    PROVE  Calm /\ (CanTransitionTo(from, to) => runStatus'[r] # from)
  <1>1. CanTransitionTo(from, to) => from # to
    BY DEF CanTransitionTo
  <1>2. CASE TransitionRun(r, from, to, None)
    BY <1>1, <1>2, BootTypes DEF TransitionRun, Calm
  <1>3. CASE TransitionFails(r, from, to, None)
    BY <1>3 DEF TransitionFails, TransitionAllowed, tableVars, Calm
  <1> QED BY <1>2, <1>3 DEF TryTransition

(* Routes that go take nothing that the restart needs to know with them.   *)
LEMMA BootKeeps ==
    ASSUME TypeOK, BootChannels, BootRuns, page' = page, Calm,
           \A r \in Runs : /\ state'.routes[r] \in {state.routes[r], None}
                           /\ state'.routes[r] # None /\ r \in state.workItems => r \in state'.workItems
                           /\ state'.routes[r] # None => consumers'[state.routes[r]].run = r,
           \A c \in Consumers : consumers'[c].run \in {consumers[c].run, None},
           \A c \in Consumers : \A r \in Runs :
               consumers'[c].pc = "close" /\ consumers'[c].run = r /\ runStatus'[r] = "running"
               => state'.routes[r] = None,
           \A r \in Runs \ page : Watched(r) /\ runStatus'[r] = "running" => Watched(r)'
    PROVE  BootChannels' /\ BootRuns'
  <1>1. BootRuns'
    BY DEF BootRuns, Calm
  <1>2. /\ \A c, d \in Consumers : consumers'[c].run # None /\ consumers'[c].run = consumers'[d].run
                                   => c = d
        /\ \A c \in Consumers : consumers'[c].run \notin page'
    BY BootTypes DEF BootChannels
  <1>3. \A r \in Runs : state'.routes[r] # None
                        => consumers'[state'.routes[r]].run = r /\ r \in state'.workItems
    BY DEF BootChannels
  <1> QED BY <1>1, <1>2, <1>3 DEF BootChannels

(* The same for a step that leaves the consumers where they are.           *)
LEMMA BootTaskKeeps ==
    ASSUME TypeOK, BootChannels, BootRuns, page' = page, Calm,
           \A c \in Consumers : /\ consumers'[c].run = consumers[c].run
                                /\ consumers'[c].pc = consumers[c].pc
                                /\ consumers'[c].seen = consumers[c].seen,
           \A r \in Runs : /\ state'.routes[r] \in {state.routes[r], None}
                           /\ state'.routes[r] # None /\ r \in state.workItems => r \in state'.workItems,
           \A r \in Runs \ page :
               /\ state.routes[r] # None \/ r \in affected
                     \/ \E t \in {"pump", "marker"} : task[t].run = r /\ Losing(t)
               /\ runStatus'[r] = "running"
               => \/ state'.routes[r] # None \/ r \in affected'
                  \/ \E t \in {"pump", "marker"} : task'[t].run = r /\ Losing(t)'
    PROVE  BootChannels' /\ BootRuns'
  <1>1. \A r \in Runs : state'.routes[r] # None => consumers'[state.routes[r]].run = r
    <2>1. \A r \in Runs : state'.routes[r] # None =>
              state.routes[r] \in Consumers /\ consumers[state.routes[r]].run = r
      BY BootTypes DEF BootChannels
    <2> QED BY <2>1
  <1>2. \A c \in Consumers : \A r \in Runs :
            consumers'[c].pc = "close" /\ consumers'[c].run = r /\ runStatus'[r] = "running"
            => state'.routes[r] = None
    BY DEF BootChannels, Calm
  <1>3. \A c \in Consumers : Failing(c)' <=> Failing(c)
    BY DEF Failing
  <1>4. \A r \in Runs \ page : Watched(r) /\ runStatus'[r] = "running" => Watched(r)'
    BY <1>3 DEF Watched
  <1> QED BY <1>1, <1>2, <1>4, BootKeeps

(* Only a crash and reconcile_startup change how far the restart is.       *)
LEMMA StartupStands ==
    ASSUME [Next]_vars, ~Crash, ~StartupStep PROVE startup' = startup
  <1>1. ASSUME Environment PROVE startup' = startup
    BY <1>1 DEF Environment, StartRun, ReconcileRun, Command, ResolveApproval, Accept, Emit,
        PumpFail, innerVars, backVars, bootVars
  <1>2. ASSUME StartStep PROVE startup' = startup
    BY <1>2 DEF StartStep, RegisterStart, CallStart, StartAccepted, StartUnknown,
        StartRejected, MarkStart, BindStart, RouteStart, AttachRoute, Retain, RetainMark,
        RetainPick, RetainSend, backVars, bootVars
  <1>3. ASSUME PumpStep PROVE startup' = startup
    BY <1>3 DEF PumpStep, PumpDeliver, PumpBuffer, Disconnect, PumpTake, MarkAffected,
        backVars, bootVars
  <1>4. ASSUME NEW t \in Tasks, SharedStep(t) PROVE startup' = startup
    BY <1>4 DEF SharedStep, EnsureEventPump, Send, OverflowClose, Mark, MarkWrite,
        FlagUncertain, backVars, bootVars
  <1>5. ASSUME NEW c \in Consumers, ConsumerStep(c) PROVE startup' = startup
    BY <1>5 DEF ConsumerStep, TakeEvent, AppendItem, RecordApproval, RegisterApproval,
        ApplyTerminal, ConsumerFails, ChannelEnds, ConsumerCloses, backVars, bootVars
  <1>6. ASSUME NEW t \in Clients, ClientStep(t) PROVE startup' = startup
    BY <1>6 DEF ClientStep, Reconnect, CheckAttached, LoadForReattach, PrepareReattach,
        Promote, Unroute, ActivateReattach, CollectUncertain, CommandReturns, OutcomeUnknown,
        BeginResponse, RememberResponse, Respond, ConfirmResponse, ForgetApproval, backVars,
        bootVars
  <1>7. CASE UNCHANGED vars
    BY <1>7 DEF vars, innerVars, backVars, bootVars
  <1> QED BY <1>1, <1>2, <1>3, <1>4, <1>5, <1>6, <1>7 DEF Next

(* Outside the restart only a crash leads into it.                         *)
LEMMA BootBegins ==
    ASSUME ~AtBoot, [Next]_vars, ~Crash PROVE startup' = startup
  <1>1. ~StartupStep
    BY DEF StartupStep, StartupDowngrade, StartupPrepare, StartupFails, StartupActivate,
        StartupDone, AtBoot
  <1> QED BY <1>1, StartupStands

(* A crash leaves nobody at work, and every run whose fate is open to be   *)
(* looked at.                                                              *)
LEMMA CrashBoots ==
    ASSUME TypeOK, Crash PROVE BootInv'
  <1>1. /\ state' = EmptyState /\ pumpHandle' = FALSE /\ affected' = {}
        /\ startup' = "reconciling" /\ page' = {r \in Runs : NeedsReconciliation(r)}
        /\ \A t \in Tasks : task'[t] = Blank
        /\ \A c \in Consumers : consumers'[c] = Finished
        /\ UNCHANGED tableVars
    BY DEF Crash
  <1>2. /\ \A t \in Tasks : task'[t].pc = "idle"
        /\ \A c \in Consumers : consumers'[c].pc = "done" /\ consumers'[c].run = None
        /\ \A r \in Runs : state'.routes[r] = None
    BY <1>1 DEF Blank, Finished, EmptyState
  <1>3. BootTasks'
    BY <1>1, <1>2, BootTypes DEF BootTasks
  <1>4. BootChannels'
    BY <1>1, <1>2, BootTypes DEF BootChannels
  <1>5. BootRuns'
    BY <1>1 DEF BootRuns, NeedsReconciliation, Unsettled, tableVars
  <1> QED BY <1>3, <1>4, <1>5 DEF BootInv

(* Nobody calls the supervisor at a restart, and no start is under way.    *)
LEMMA NobodyElse ==
    ASSUME TypeOK, AtBoot, BootTasks
    PROVE  /\ ~StartStep
           /\ \A t \in Clients : ~ClientStep(t)
           /\ \A t \in Tasks : ~EnsureEventPump(t) /\ ~Send(t) /\ ~FlagUncertain(t)
           /\ \A t \in Tasks \ {"pump"} : ~OverflowClose(t)
           /\ \A t \in Tasks \ {"pump", "marker"} : ~Mark(t) /\ ~MarkWrite(t)
           /\ \A r \in Runs : ~StartRun(r)
           /\ \A t \in Clients : /\ \A r \in Runs : ~ReconcileRun(t, r) /\ ~Command(t, r)
                                 /\ \A a \in Approvals, d \in Decisions : ~ResolveApproval(t, a, d)
  <1>1. ~StartStep
    <2>1. task["starter"].pc = "idle"
      BY DEF BootTasks, Tasks
    <2> QED BY <2>1 DEF StartStep, RegisterStart, CallStart, StartAccepted, StartUnknown,
        StartRejected, MarkStart, BindStart, RouteStart, AttachRoute, Retain, RetainMark,
        RetainPick, RetainSend, At
  <1>2. ASSUME NEW t \in Clients PROVE ~ClientStep(t)
    <2>1. task[t].pc = "idle"
      BY SupervisorAssumption DEF BootTasks, Tasks
    <2> QED BY <2>1 DEF ClientStep, Reconnect, CheckAttached, LoadForReattach,
        PrepareReattach, Promote, Unroute, ActivateReattach, CollectUncertain,
        CommandReturns, OutcomeUnknown, BeginResponse, RememberResponse, Respond,
        ConfirmResponse, ForgetApproval, At
  <1>3. ASSUME NEW t \in Tasks
        PROVE  task[t].pc \in {"idle", "next", "take", "close", "mark", "markWrite", "lost",
                               "lostWrite"}
    BY DEF BootTasks
  <1>4. \A t \in Tasks : ~EnsureEventPump(t) /\ ~Send(t) /\ ~FlagUncertain(t)
    BY <1>3 DEF EnsureEventPump, Send, FlagUncertain, At, AfterPump
  <1>5. \A t \in Tasks \ {"pump"} : ~OverflowClose(t)
    BY DEF BootTasks, OverflowClose, At
  <1>6. \A t \in Tasks \ {"pump", "marker"} : ~Mark(t) /\ ~MarkWrite(t)
    BY DEF BootTasks, Mark, MarkWrite, At
  <1>7. startup # "ready"
    BY DEF AtBoot
  <1> QED BY <1>1, <1>2, <1>4, <1>5, <1>6, <1>7 DEF StartRun, ReconcileRun, Command,
      ResolveApproval

(* A step of the pump or its clean-up that leaves the consumers alone, when*)
(* no store call fails.                                                    *)
LEMMA TaskBoots ==
    ASSUME TypeOK, AtBoot, BootTasks, BootChannels, BootRuns, UNCHANGED bootVars, Calm,
           \A c \in Consumers : /\ consumers'[c].run = consumers[c].run
                                /\ consumers'[c].pc = consumers[c].pc
                                /\ consumers'[c].seen = consumers[c].seen,
           \A t \in Tasks \ {"pump", "marker"} : task'[t].pc = task[t].pc,
           task'["pump"].pc \in {"idle", "next", "take", "close", "mark", "markWrite", "lost",
                                 "lostWrite"},
           task'["marker"].pc \in {"idle", "mark", "markWrite"},
           ~pumpHandle' => task'["pump"].pc = "idle",
           \/ task["pump"].pc # "idle"
           \/ task["marker"].pc # "idle"
           \/ affected # {},
           \A r \in Runs : /\ state'.routes[r] \in {state.routes[r], None}
                           /\ state'.routes[r] # None /\ r \in state.workItems => r \in state'.workItems,
           \A r \in Runs \ page :
               /\ state.routes[r] # None \/ r \in affected
                     \/ \E t \in {"pump", "marker"} : task[t].run = r /\ Losing(t)
               /\ runStatus'[r] = "running"
               => \/ state'.routes[r] # None \/ r \in affected'
                  \/ \E t \in {"pump", "marker"} : task'[t].run = r /\ Losing(t)'
    PROVE  BootInv'
  <1>1. startup = "activating" /\ startup' = startup /\ page' = page
    BY DEF AtBoot, BootTasks, bootVars
  <1>2. BootTasks'
    BY <1>1, BootTypes DEF BootTasks
  <1>3. BootChannels' /\ BootRuns'
    BY <1>1, BootTaskKeeps
  <1> QED BY <1>2, <1>3 DEF BootInv

(* The pump delivers or loses an event.                                    *)
LEMMA DeliverBoots ==
    ASSUME WholeInv, AtBoot, BootTasks, BootChannels, BootRuns, PumpDeliver PROVE BootInv'
  <1>0. TypeOK
    BY DEF WholeInv
  <1> DEFINE e == Head(stream)
             c == state.routes[e.from]
  <1>1. /\ task["pump"].pc = "next" /\ UNCHANGED <<storeVars, state, backVars>>
        /\ \/ Enqueue(c, e) /\ UNCHANGED task
           \/ UNCHANGED <<consumers, task>>
           \/ /\ UNCHANGED consumers
              /\ \E pc \in {"lost", "close"} :
                    task' = [task EXCEPT !["pump"].pc = pc, !["pump"].run = e.from]
    BY DEF PumpDeliver, At
  <1>2. /\ UNCHANGED <<bootVars, pumpHandle, affected, state, runStatus>>
        /\ pumpHandle
    BY <1>1 DEF backVars, pumpVars, storeVars, tableVars, BootTasks
  <1>3. Calm
    BY <1>2 DEF Calm
  <1>4. ASSUME NEW d \in Consumers
        PROVE  /\ consumers'[d].run = consumers[d].run /\ consumers'[d].pc = consumers[d].pc
               /\ consumers'[d].seen = consumers[d].seen
    <2> HIDE DEF e, c
    <2>1. consumers \in [Consumers -> Consumer]
      BY <1>0, BootTypes
    <2>2. CASE Enqueue(c, e)
      <3>1. CASE d = c
        <4>1. consumers'[d] = [consumers[d] EXCEPT !.queue = Append(@, e)]
          BY <2>1, <2>2, <3>1 DEF Enqueue
        <4> QED BY <2>1, <4>1 DEF Consumer
      <3>2. CASE d # c
        <4>1. consumers'[d] = consumers[d]
          BY <2>1, <2>2, <3>2 DEF Enqueue
        <4> QED BY <4>1
      <3> QED BY <3>1, <3>2
    <2>3. CASE consumers' = consumers
      BY <2>3
    <2> QED BY <1>1, <2>2, <2>3 DEF Enqueue
  <1>5. /\ \A t \in Tasks \ {"pump"} : task'[t] = task[t]
        /\ task'["pump"].pc \in {"next", "lost", "close"}
    BY <1>0, <1>1, BootTypes DEF Task
  <1>6. ~Losing("pump") /\ (Losing("marker")' <=> Losing("marker"))
    BY <1>0, <1>1, <1>5, BootTypes DEF Losing
  <1> HIDE DEF e, c
  <1>7. \A r \in Runs \ page :
           (\E t \in {"pump", "marker"} : task[t].run = r /\ Losing(t))
           => \E t \in {"pump", "marker"} : task'[t].run = r /\ Losing(t)'
    BY <1>0, <1>5, <1>6, BootTypes
  <1>8. /\ \A t \in Tasks \ {"pump", "marker"} : task'[t].pc = task[t].pc
        /\ task'["marker"].pc \in {"idle", "mark", "markWrite"}
    BY <1>0, <1>5, BootTypes DEF BootTasks
  <1> QED BY <1>0, <1>1, <1>2, <1>3, <1>4, <1>5, <1>7, <1>8, TaskBoots

(* The pump buffers an event that has no route.                            *)
LEMMA BufferBoots ==
    ASSUME WholeInv, AtBoot, BootTasks, BootChannels, BootRuns, PumpBuffer PROVE BootInv'
  <1>0. TypeOK /\ StateInv(state) /\ Head(stream) \in Event
    BY DEF WholeInv, TypeOK, PumpBuffer
  <1>1. /\ task["pump"].pc = "next" /\ UNCHANGED <<storeVars, task, consumers, backVars>>
        /\ state' \in BufferHandshakeEvent(state, Head(stream))
    BY DEF PumpBuffer, At
  <1>2. /\ UNCHANGED <<bootVars, pumpHandle, affected, task, consumers, runStatus>>
        /\ pumpHandle
    BY <1>1 DEF backVars, pumpVars, storeVars, tableVars, BootTasks
  <1>3. state'.routes = state.routes
    BY <1>0, <1>1, BufferKeeps DEF Kept
  <1>4. state'.workItems = state.workItems
    <2> DEFINE e == Head(stream)
               work(st) == st.workItems = state.workItems
    <2>1. \A p, q : /\ work([state EXCEPT !.pendingEvents = p])
                    /\ work([state EXCEPT !.pendingOverflow = p])
                    /\ work([state EXCEPT !.uncertainStarts = p])
                    /\ work(state)
      BY <1>0 DEF StateInv, State
    <2>2. \A p, r : /\ work([state EXCEPT !.uncertainStarts[r].events = p])
                    /\ work([state EXCEPT !.uncertainStarts[r].overflow = p])
                    /\ work([state EXCEPT !.uncertainStarts[r].events = Append(@, p)])
                    /\ work([state EXCEPT !.pendingEvents = Append(@, p)])
      BY <1>0 DEF StateInv, State
    <2> HIDE DEF e, work
    <2>3. state' \in BufferHandshakeEvent(state, e)
      BY <1>1 DEF e
    <2>4. work(state')
      BY <2>1, <2>2, <2>3, Zenon DEF BufferHandshakeEvent
    <2> QED BY <2>4 DEF work
  <1>5. Calm
    BY <1>2 DEF Calm
  <1>6. \A t \in {"pump", "marker"} : Losing(t)' <=> Losing(t)
    BY <1>2 DEF Losing
  <1> QED BY <1>0, <1>1, <1>2, <1>3, <1>4, <1>5, <1>6, TaskBoots DEF BootTasks

(* The pump writes that a run lost its receiver.                           *)
LEMMA DisconnectBoots ==
    ASSUME WholeInv, AtBoot, BootTasks, BootChannels, BootRuns, ~StoreFault, Disconnect
    PROVE  BootInv'
  <1>0. TypeOK /\ task["pump"].pc \in {"lost", "lostWrite"} /\ task["pump"].run \in Runs
    BY DEF WholeInv, SupervisorInv, RunsInv, TasksOK, Disconnect, At, Tasks, Resting
  <1> DEFINE run == task["pump"].run
             seen == task["pump"].seen
  <1>1. /\ UNCHANGED <<timeline, state, consumers, backVars>>
        /\ pumpHandle /\ UNCHANGED <<bootVars, pumpHandle, affected>>
    BY <1>0 DEF Disconnect, backVars, pumpVars, BootTasks
  <1>2. CASE /\ task["pump"].pc = "lost"
             /\ task' = [task EXCEPT !["pump"].pc = "lostWrite", !["pump"].seen = runStatus[run]]
             /\ UNCHANGED tableVars
    <2>1. /\ \A t \in Tasks \ {"pump"} : task'[t] = task[t]
          /\ task'["pump"].pc = "lostWrite" /\ task'["pump"].run = run
          /\ task'["pump"].seen = runStatus[run]
          /\ UNCHANGED runStatus
      BY <1>0, <1>2, BootTypes DEF Task, tableVars
    <2>2. Calm
      BY <2>1 DEF Calm
    <2>3. Losing("marker")' <=> Losing("marker")
      BY <1>0, <2>1, BootTypes DEF Losing
    <2>4. runStatus'[run] = "running" => Losing("pump")'
      BY <2>1 DEF Losing
    <2> QED BY <1>0, <1>1, <2>1, <2>2, <2>3, <2>4, TaskBoots, BootTypes DEF BootTasks
  <1>3. CASE /\ task["pump"].pc = "lostWrite"
             /\ IF seen \in {"starting", "running"}
                THEN TryTransition(run, seen, "disconnected", None)
                ELSE UNCHANGED <<tableVars, faults>>
             /\ Done("pump")
    <2>1. /\ \A t \in Tasks \ {"pump"} : task'[t] = task[t]
          /\ task'["pump"].pc = "next"
      BY <1>0, <1>3, BootTypes DEF Done, Blank
    <2>2. Calm /\ (seen = "running" => runStatus'[run] # "running")
      <3>1. CASE seen \in {"starting", "running"}
        <4>1. TryTransition(run, seen, "disconnected", None)
          BY <1>3, <3>1
        <4> QED BY <1>0, <4>1, TryCalms DEF CanTransitionTo
      <3>2. CASE seen \notin {"starting", "running"}
        BY <1>3, <3>2 DEF Calm, tableVars
      <3> QED BY <3>1, <3>2
    <2>3. Losing("marker")' <=> Losing("marker")
      BY <1>0, <2>1, BootTypes DEF Losing
    <2>4. Losing("pump") => seen = "running"
      BY <1>3 DEF Losing
    <2> QED BY <1>0, <1>1, <2>1, <2>2, <2>3, <2>4, TaskBoots, BootTypes DEF BootTasks
  <1> QED BY <1>2, <1>3 DEF Disconnect, ReadFails, At

(* The stream breaks: the runs that had a route are those to be marked.    *)
LEMMA PumpFailBoots ==
    ASSUME WholeInv, AtBoot, BootTasks, BootChannels, BootRuns, PumpFail PROVE BootInv'
  <1>0. TypeOK /\ StateInv(state)
    BY DEF WholeInv
  <1>1. /\ task["pump"].pc = "next" /\ task' = [task EXCEPT !["pump"].pc = "take"]
        /\ UNCHANGED <<runStatus, consumers, pumpHandle, bootVars>>
        /\ state' = EmptyState
        /\ affected' = affected \cup (state.runs \cap state.workItems)
    BY DEF PumpFail, At, Go, tableVars
  <1>2. /\ \A t \in Tasks \ {"pump"} : task'[t] = task[t]
        /\ task'["pump"].pc = "take" /\ pumpHandle
    BY <1>0, <1>1, BootTypes DEF Task, BootTasks
  <1>3. Calm /\ \A r \in Runs : state'.routes[r] = None
    BY <1>1 DEF Calm, EmptyState
  <1>4. \A r \in Runs : state.routes[r] # None => r \in affected'
    BY <1>0, <1>1 DEF BootChannels, StateInv, Routed
  <1>5. ~Losing("pump") /\ (Losing("marker")' <=> Losing("marker"))
    BY <1>0, <1>1, <1>2, BootTypes DEF Losing
  <1> QED BY <1>0, <1>1, <1>2, <1>3, <1>4, <1>5, TaskBoots, BootTypes DEF BootTasks

(* The handle of the broken pump is taken, or a run it lost is marked.     *)
LEMMA AftermathBoots ==
    ASSUME WholeInv, AtBoot, BootTasks, BootChannels, BootRuns,
           PumpTake \/ \E r \in Runs : MarkAffected(r)
    PROVE  BootInv'
  <1>0. TypeOK
    BY DEF WholeInv
  <1>1. /\ UNCHANGED <<storeVars, state, consumers, bootVars>> /\ runStatus' = runStatus
        /\ Calm
    BY DEF PumpTake, MarkAffected, storeVars, tableVars, Calm
  <1>2. CASE PumpTake
    <2>1. /\ \A t \in Tasks \ {"pump"} : task'[t] = task[t] /\ task'["pump"].pc = "idle"
          /\ task["pump"].pc = "take" /\ affected' = affected
      BY <1>0, <1>2, BootTypes DEF PumpTake, Blank, At
    <2>2. /\ \A t \in Tasks \ {"pump"} : task'[t] = task[t]
          /\ task'["pump"].pc = "idle"
      BY <1>0, <2>1, BootTypes
    <2>3. ~Losing("pump") /\ (Losing("marker")' <=> Losing("marker"))
      BY <1>0, <2>1, <2>2, BootTypes DEF Losing
    <2> QED BY <1>0, <1>1, <2>1, <2>2, <2>3, TaskBoots, BootTypes DEF BootTasks
  <1>3. ASSUME NEW r \in Runs, MarkAffected(r) PROVE BootInv'
    <2>1. /\ task' = [task EXCEPT !["marker"].pc = "mark", !["marker"].run = r]
          /\ task["marker"].pc = "idle" /\ affected' = affected \ {r} /\ affected # {}
          /\ UNCHANGED pumpHandle
      BY <1>3 DEF MarkAffected, At
    <2>2. /\ \A t \in Tasks \ {"marker"} : task'[t] = task[t]
          /\ task'["marker"].pc = "mark" /\ task'["marker"].run = r
      BY <1>0, <2>1, BootTypes DEF Task
    <2>3. ~Losing("marker") /\ Losing("marker")' /\ (Losing("pump")' <=> Losing("pump"))
      BY <1>0, <2>1, <2>2, BootTypes DEF Losing
    <2> QED BY <1>0, <1>1, <2>1, <2>2, <2>3, TaskBoots, BootTypes DEF BootTasks
  <1> QED BY <1>2, <1>3

(* The pump closes a run whose channel overflowed, and it or its clean-up  *)
(* marks a run.                                                            *)
LEMMA SharedBoots ==
    ASSUME WholeInv, AtBoot, BootTasks, BootChannels, BootRuns, ~StoreFault,
           NEW t \in Tasks, SharedStep(t)
    PROVE  BootInv'
  <1>0. TypeOK /\ StateInv(state) /\ TasksOK
    BY DEF WholeInv, SupervisorInv, RunsInv
  <1>1. /\ OverflowClose(t) \/ Mark(t) \/ MarkWrite(t)
        /\ t \in {"pump", "marker"} /\ (OverflowClose(t) => t = "pump")
    BY <1>0, NobodyElse DEF SharedStep
  <1> DEFINE run == task[t].run
             seen == task[t].seen
             other == CHOOSE u \in {"pump", "marker"} : u # t
  <1>2. /\ UNCHANGED <<timeline, consumers, backVars>>
        /\ UNCHANGED <<bootVars, pumpHandle, affected>>
        /\ task[t].pc \in {"close", "mark", "markWrite"} /\ run \in Runs
    <2>1. UNCHANGED <<timeline, consumers, backVars>>
      BY <1>1 DEF OverflowClose, Mark, MarkWrite, storeVars
    <2>2. task[t].pc \in {"close", "mark", "markWrite"}
      BY <1>1 DEF OverflowClose, Mark, MarkWrite, At
    <2>3. run \in Runs
      BY <1>0, <2>2 DEF TasksOK, Resting
    <2> QED BY <2>1, <2>2, <2>3 DEF backVars, pumpVars
  <1>3. \A c \in Consumers : /\ consumers'[c].run = consumers[c].run
                             /\ consumers'[c].pc = consumers[c].pc
                             /\ consumers'[c].seen = consumers[c].seen
    BY <1>2
  <1>4. task["pump"].pc # "idle" \/ task["marker"].pc # "idle"
    BY <1>1, <1>2
  <1>5. t = "pump" => pumpHandle'
    BY <1>2 DEF BootTasks
  <1>6. other \in {"pump", "marker"} /\ {"pump", "marker"} = {t, other} /\ other # t
    BY <1>1
  <1> HIDE DEF other
  <1>7. ASSUME \A u \in Tasks \ {t} : task'[u] = task[u],
               task'[t].pc \in IF t = "pump" THEN {"mark", "markWrite", "next"}
                               ELSE {"mark", "markWrite", "idle"},
               Calm,
               \A r \in Runs : /\ state'.routes[r] \in {state.routes[r], None}
                               /\ state'.routes[r] # None /\ r \in state.workItems => r \in state'.workItems,
               \A r \in Runs \ {run} : state'.routes[r] = state.routes[r],
               Losing(t) \/ state'.routes[run] # state.routes[run]
                  => runStatus'[run] # "running" \/ (task'[t].run = run /\ Losing(t)')
        PROVE  BootInv'
    <2>1. /\ \A u \in Tasks \ {"pump", "marker"} : task'[u].pc = task[u].pc
          /\ task'["pump"].pc \in {"idle", "next", "take", "close", "mark", "markWrite",
                                   "lost", "lostWrite"}
          /\ task'["marker"].pc \in {"idle", "mark", "markWrite"}
      BY <1>0, <1>1, <1>7, BootTypes DEF BootTasks
    <2>2. ~pumpHandle' => task'["pump"].pc = "idle"
      BY <1>0, <1>2, <1>5, <1>7, BootTypes DEF BootTasks
    <2>3. task'[other] = task[other] /\ (Losing(other)' <=> Losing(other))
      BY <1>0, <1>6, <1>7, BootTypes DEF Losing
    <2>4. ASSUME NEW r \in Runs, runStatus'[r] = "running",
                 \/ state.routes[r] # None \/ r \in affected
                 \/ \E u \in {"pump", "marker"} : task[u].run = r /\ Losing(u)
          PROVE  \/ state'.routes[r] # None \/ r \in affected'
                 \/ \E u \in {"pump", "marker"} : task'[u].run = r /\ Losing(u)'
      <3>1. CASE r \in affected
        BY <1>2, <3>1
      <3>2. CASE state.routes[r] # None
        BY <1>6, <1>7, <2>4, <3>2
      <3>3. CASE task[other].run = r /\ Losing(other)
        BY <1>6, <2>3, <3>3
      <3>4. CASE task[t].run = r /\ Losing(t)
        BY <1>6, <1>7, <2>4, <3>4
      <3> QED BY <1>6, <2>4, <3>1, <3>2, <3>3, <3>4
    <2> QED BY <1>0, <1>2, <1>3, <1>4, <1>7, <2>1, <2>2, <2>4, TaskBoots
  <1>8. CASE OverflowClose(t)
    <2>1. /\ task' = [task EXCEPT ![t].pc = "mark", ![t].todo = <<>>]
          /\ state' = CloseRun(state, run) /\ runStatus' = runStatus
      BY <1>8 DEF OverflowClose, storeVars, tableVars
    <2>2. /\ \A u \in Tasks \ {t} : task'[u] = task[u]
          /\ task'[t].pc = "mark" /\ task'[t].run = run
      BY <1>0, <2>1, BootTypes DEF Task
    <2>3. \A r \in Runs :
             /\ state'.routes[r] = IF r = run /\ r \in state.runs THEN None ELSE state.routes[r]
             /\ r \in state'.workItems <=> r \in state.workItems /\ r # run
      BY <1>0, <1>2, <2>1 DEF CloseRun, StateInv, State
    <2>4. \A r \in Runs : state.routes[r] # None => r \in state.runs
      BY <1>0 DEF StateInv, Routed
    <2>5. Calm /\ Losing(t)'
      BY <2>1, <2>2 DEF Calm, Losing
    <2> QED BY <1>1, <1>7, <1>8, <2>2, <2>3, <2>4, <2>5
  <1>9. CASE Mark(t) \/ MarkWrite(t)
    <2>1. state' = state
      BY <1>9 DEF Mark, MarkWrite
    <2>2. ASSUME Mark(t), task' = [task EXCEPT ![t].pc = "markWrite", ![t].seen = runStatus[run]],
                 UNCHANGED tableVars
          PROVE  BootInv'
      <3>1. /\ \A u \in Tasks \ {t} : task'[u] = task[u]
            /\ task'[t].pc = "markWrite" /\ task'[t].run = run
            /\ task'[t].seen = runStatus[run]
            /\ runStatus' = runStatus
        BY <1>0, <2>2, BootTypes DEF Task, tableVars
      <3>2. Calm /\ (runStatus'[run] = "running" => Losing(t)')
        BY <3>1 DEF Calm, Losing
      <3> QED BY <1>1, <1>7, <2>1, <3>1, <3>2
    <2>3. ASSUME MarkWrite(t) PROVE BootInv'
      <3>1. /\ \A u \in Tasks \ {t} : task'[u] = task[u]
            /\ task'[t].pc = IF t = "pump" THEN "next" ELSE "idle"
        BY <1>0, <2>3, BootTypes DEF MarkWrite, Done, Blank
      <3>2. Calm /\ (seen = "running" => runStatus'[run] # "running")
        <4>1. CASE seen \in {"starting", "running"}
          <5>1. TryTransition(run, seen, Downgraded(seen), None)
            BY <2>3, <4>1 DEF MarkWrite
          <5> QED BY <1>0, <1>2, <4>1, <5>1, TryCalms DEF CanTransitionTo, Downgraded
        <4>2. CASE seen \notin {"starting", "running"}
          BY <2>3, <4>2 DEF MarkWrite, Calm, tableVars
        <4> QED BY <4>1, <4>2
      <3>3. Losing(t) => seen = "running"
        BY <2>3 DEF Losing, MarkWrite, At
      <3> QED BY <1>1, <1>7, <2>1, <3>1, <3>2, <3>3
    <2> QED BY <1>9, <2>2, <2>3 DEF Mark, ReadFails
  <1> QED BY <1>1, <1>8, <1>9

(* A consumer takes a step at a restart.                                   *)
LEMMA ConsumersBoot ==
    ASSUME WholeInv, AtBoot, BootTasks, BootChannels, BootRuns, ~StoreFault,
           NEW c \in Consumers, ConsumerStep(c)
    PROVE  BootInv'
  <1>0. TypeOK /\ StateInv(state) /\ ConsumersOK
    BY DEF WholeInv, SupervisorInv, RunsInv
  <1> DEFINE run == consumers[c].run
             pc == consumers[c].pc
             seen == consumers[c].seen
  <1>1. pc \in {"recv", "append", "record", "register", "terminal", "fail", "failWrite", "close"}
    BY DEF ConsumerStep, TakeEvent, AppendItem, RecordApproval, RegisterApproval,
        ApplyTerminal, ConsumerFails, ChannelEnds, ConsumerCloses, ConsumerAt
  <1>2. startup = "activating" /\ page = {} /\ run \in Runs
    BY <1>0, <1>1 DEF AtBoot, BootTasks, ConsumersOK
  <1>3. UNCHANGED <<task, backVars>>
    BY DEF ConsumerStep, TakeEvent, AppendItem, RecordApproval, RegisterApproval,
        ApplyTerminal, ConsumerFails, ChannelEnds, ConsumerCloses
  <1>4. UNCHANGED <<task, pumpHandle, affected, startup, page>>
    BY <1>3 DEF backVars, pumpVars, bootVars
  <1>5. ASSUME Calm,
               \A d \in Consumers \ {c} : consumers'[d] = consumers[d],
               consumers'[c].run = run,
               consumers'[c].pc = "failWrite" => consumers'[c].seen = "running",
               state'.routes = state.routes, state'.workItems = state.workItems,
               consumers'[c].pc = "close" /\ runStatus'[run] = "running" => state.routes[run] = None,
               Failing(c) /\ runStatus'[run] = "running" => Failing(c)'
        PROVE  BootInv'
    <2>1. BootTasks'
      <3>1. \A d \in Consumers : consumers'[d].pc = "failWrite" => consumers'[d].seen = "running"
        BY <1>5 DEF BootTasks
      <3> QED BY <1>2, <1>4, <3>1 DEF BootTasks
    <2>2. \A d \in Consumers : consumers'[d].run = consumers[d].run
      BY <1>5
    <2>3. \A r \in Runs : /\ state'.routes[r] # None => state.routes[r] \in Consumers
                          /\ state'.routes[r] # None => consumers'[state.routes[r]].run = r
      BY <1>0, <1>5, <2>2, BootTypes DEF BootChannels
    <2>4. ASSUME NEW d \in Consumers, NEW r \in Runs, consumers'[d].pc = "close",
                 consumers'[d].run = r, runStatus'[r] = "running"
          PROVE  state'.routes[r] = None
      <3>1. CASE d = c
        BY <1>5, <2>4, <3>1
      <3>2. CASE d # c
        BY <1>5, <2>4, <3>2 DEF BootChannels, Calm
      <3> QED BY <3>1, <3>2
    <2>5. ASSUME NEW r \in Runs, Watched(r), runStatus'[r] = "running" PROVE Watched(r)'
      <3>1. ASSUME NEW d \in Consumers, consumers[d].run = r, Failing(d) PROVE Watched(r)'
        <4>1. CASE d = c
          BY <1>5, <2>5, <3>1, <4>1 DEF Watched
        <4>2. CASE d # c
          <5>1. Failing(d)' /\ consumers'[d].run = r
            BY <1>5, <3>1, <4>2 DEF Failing
          <5> QED BY <5>1 DEF Watched
        <4> QED BY <4>1, <4>2
      <3>2. \A t \in {"pump", "marker"} : Losing(t)' <=> Losing(t)
        BY <1>4 DEF Losing
      <3> QED BY <1>4, <1>5, <2>5, <3>1, <3>2 DEF Watched
    <2>6. BootChannels' /\ BootRuns'
      BY <1>0, <1>4, <1>5, <2>2, <2>3, <2>4, <2>5, BootKeeps
    <2> QED BY <2>1, <2>6 DEF BootInv
  <1>7. consumers \in [Consumers -> Consumer]
    BY <1>0, BootTypes
  <1>8. ASSUME NEW p, ConsumerGo(c, p)
        PROVE  /\ \A d \in Consumers \ {c} : consumers'[d] = consumers[d]
               /\ consumers'[c].run = run /\ consumers'[c].pc = p
    BY <1>7, <1>8 DEF ConsumerGo, Consumer
  <1>9. CASE TakeEvent(c)
    <2>1. /\ \A d \in Consumers \ {c} : consumers'[d] = consumers[d]
          /\ consumers'[c].run = run
          /\ consumers'[c].pc \in {"append", "record", "terminal"}
      <3> DEFINE e == Head(consumers[c].queue)
                 at == IF KindOf(e) = "item" THEN Len(timeline[run]) ELSE 0
                 read == IF IsTerminal(KindOf(e)) THEN runStatus[run] ELSE None
                 p == AfterTake(KindOf(e))
                 rest == Tail(consumers[c].queue)
      <3>1. consumers' = [consumers EXCEPT ![c].queue = rest, ![c].event = e,
                             ![c].pc = p, ![c].cursor = at, ![c].seen = read]
        BY <1>9 DEF TakeEvent, ReadFails
      <3>2. p \in {"append", "record", "terminal"}
        BY DEF AfterTake
      <3> HIDE DEF e, at, read, p, rest
      <3> QED BY <1>7, <3>1, <3>2 DEF Consumer
    <2>2. /\ UNCHANGED <<state, runStatus>> /\ pc = "recv"
      BY <1>9 DEF TakeEvent, ReadFails, ConsumerAt, tableVars
    <2>3. Calm /\ ~Failing(c)
      BY <2>2 DEF Calm, Failing
    <2> QED BY <1>5, <2>1, <2>2, <2>3
  <1>10. CASE AppendItem(c)
    <2>1. /\ ConsumerGo(c, "recv") \/ ConsumerGo(c, "fail")
          /\ UNCHANGED <<state, runStatus>> /\ pc = "append"
      BY <1>10 DEF AppendItem, ConsumerAt, tableVars
    <2>2. Calm /\ ~Failing(c)
      BY <2>1 DEF Calm, Failing
    <2>3. consumers'[c].pc \in {"recv", "fail"}
      BY <1>8, <2>1
    <2>4. /\ \A d \in Consumers \ {c} : consumers'[d] = consumers[d]
          /\ consumers'[c].run = run
      BY <1>8, <2>1
    <2> QED BY <1>5, <2>1, <2>2, <2>3, <2>4
  <1>11. CASE RecordApproval(c) \/ RegisterApproval(c)
    <2>1. /\ \/ ConsumerGo(c, "recv") \/ ConsumerGo(c, "fail")
             \/ consumers' = [consumers EXCEPT ![c].pc = "register"]
          /\ UNCHANGED runStatus /\ pc \in {"record", "register"}
      BY <1>11 DEF RecordApproval, RegisterApproval, RecordPendingApproval, ConsumerAt,
          tableVars, storeVars
    <2>2. Calm /\ ~Failing(c)
      BY <2>1 DEF Calm, Failing
    <2>4. /\ \A d \in Consumers \ {c} : consumers'[d] = consumers[d]
          /\ consumers'[c].run = run /\ consumers'[c].pc \in {"recv", "fail", "register"}
      <3>1. CASE consumers' = [consumers EXCEPT ![c].pc = "register"]
        BY <1>7, <3>1 DEF Consumer
      <3> QED BY <1>8, <2>1, <3>1
    <2>5. state'.routes = state.routes /\ state'.workItems = state.workItems
      BY <1>0, <1>11 DEF RecordApproval, RegisterApproval, StateInv, State
    <2> QED BY <1>5, <2>1, <2>2, <2>4, <2>5
  <1>12. CASE ApplyTerminal(c)
    <2> DEFINE kind == KindOf(consumers[c].event)
    <2>1. kind \notin {"starting", "running"}
      <3>1. /\ consumers[c].event \in Event
            /\ consumers[c].event.n \in DOMAIN sent[consumers[c].event.from]
        BY <1>12, HandledKnown DEF WholeInv, TasksInv, EventsInv, ChannelsInv, Handling,
            HandledAreKnown, ApplyTerminal, ConsumerAt
      <3>2. sent[consumers[c].event.from] \in Seq(EmitKinds)
        BY <1>0, <3>1 DEF TypeOK, Event
      <3>3. kind \in EmitKinds
        BY <3>1, <3>2 DEF KindOf
      <3> QED BY <3>3, SupervisorAssumption DEF Terminal
    <2> HIDE DEF kind
    <2>2. /\ UNCHANGED state /\ pc = "terminal"
          /\ \/ TransitionRun(run, seen, kind, None) /\ UNCHANGED faults /\ ConsumerGo(c, "close")
             \/ TransitionFails(run, seen, kind, None) /\ ConsumerGo(c, "fail")
      BY <1>12 DEF ApplyTerminal, ConsumerAt, kind
    <2>3. Calm
      BY <1>0, <1>2, <2>1, <2>2, TryCalms DEF TryTransition
    <2>4. consumers'[c].pc = "close" => runStatus'[run] # "running"
      <3>1. CASE TransitionRun(run, seen, kind, None)
        BY <1>0, <1>2, <2>1, <3>1, BootTypes DEF TransitionRun
      <3> QED BY <1>8, <2>2, <3>1
    <2>5. /\ \A d \in Consumers \ {c} : consumers'[d] = consumers[d]
          /\ consumers'[c].run = run /\ consumers'[c].pc # "failWrite"
      BY <1>8, <2>2
    <2>6. ~Failing(c)
      BY <2>2 DEF Failing
    <2> QED BY <1>5, <2>2, <2>3, <2>4, <2>5, <2>6
  <1>13. CASE ConsumerFails(c)
    <2>0. state' = state /\ runStatus[run] # "starting"
      BY <1>2, <1>13 DEF ConsumerFails, BootRuns
    <2>1. ASSUME pc = "fail",
                 consumers' = [consumers EXCEPT
                      ![c].seen = runStatus[run],
                      ![c].pc = IF runStatus[run] \in {"starting", "running"}
                                THEN "failWrite" ELSE "close"],
                 UNCHANGED tableVars
          PROVE  BootInv'
      <3> DEFINE p == IF runStatus[run] \in {"starting", "running"} THEN "failWrite" ELSE "close"
                 status == runStatus[run]
      <3>1. consumers' = [consumers EXCEPT ![c].seen = status, ![c].pc = p]
        BY <2>1
      <3>2. /\ p = "failWrite" => status = "running"
            /\ p = "close" => status # "running"
            /\ p \in {"failWrite", "close"}
        BY <2>0
      <3> HIDE DEF p, status
      <3>3. /\ \A d \in Consumers \ {c} : consumers'[d] = consumers[d]
            /\ consumers'[c].run = run /\ consumers'[c].pc = p /\ consumers'[c].seen = status
        BY <1>7, <3>1 DEF Consumer
      <3>4. Calm /\ runStatus'[run] = status
        BY <2>1 DEF Calm, tableVars, status
      <3>5. runStatus'[run] = "running" => Failing(c)'
        BY <3>2, <3>3, <3>4 DEF Failing
      <3> QED BY <1>5, <2>0, <3>2, <3>3, <3>4, <3>5
    <2>2. ASSUME pc = "failWrite", TryTransition(run, seen, "outcome_unknown", None),
                 ConsumerGo(c, "close")
          PROVE  BootInv'
      <3>1. Calm /\ runStatus'[run] # "running"
        BY <1>0, <1>2, <2>2, TryCalms DEF BootTasks, CanTransitionTo
      <3>2. /\ \A d \in Consumers \ {c} : consumers'[d] = consumers[d]
            /\ consumers'[c].run = run /\ consumers'[c].pc = "close"
        BY <1>8, <2>2
      <3> QED BY <1>5, <2>0, <3>1, <3>2
    <2> QED BY <1>13, <2>1, <2>2 DEF ConsumerFails, ConsumerAt, ReadFails
  <1>14. CASE ChannelEnds(c)
    <2>1. /\ pc = "recv" /\ ~SenderAlive(c) /\ ConsumerGo(c, "close")
          /\ state' = state /\ runStatus' = runStatus
      BY <1>14 DEF ChannelEnds, ConsumerAt, storeVars, tableVars
    <2>2. Calm /\ ~Failing(c)
      BY <2>1 DEF Calm, Failing
    <2>3. state.routes[run] = None
      <3>1. SUFFICES ASSUME state.routes[run] # None PROVE FALSE
        OBVIOUS
      <3>2. state.routes[run] \in Consumers /\ consumers[state.routes[run]].run = run
        BY <1>0, <1>2, <3>1, BootTypes DEF BootChannels
      <3>3. state.routes[run] = c
        BY <1>0, <1>2, <3>2, BootTypes DEF BootChannels
      <3> QED BY <1>2, <2>1, <3>3 DEF SenderAlive
    <2>4. /\ \A d \in Consumers \ {c} : consumers'[d] = consumers[d]
          /\ consumers'[c].run = run /\ consumers'[c].pc = "close"
      BY <1>8, <2>1
    <2> QED BY <1>5, <2>1, <2>2, <2>3, <2>4
  <1>15. CASE ConsumerCloses(c)
    <2>1. /\ pc = "close" /\ state' = CloseRun(state, run) /\ runStatus' = runStatus
          /\ consumers' = [consumers EXCEPT ![c] = Finished]
      BY <1>15 DEF ConsumerCloses, ConsumerAt, storeVars, tableVars
    <2>2. /\ \A d \in Consumers \ {c} : consumers'[d] = consumers[d]
          /\ consumers'[c].run = None /\ consumers'[c].pc = "done"
      BY <1>7, <2>1 DEF Finished
    <2>3. \A r \in Runs :
             /\ state'.routes[r] = IF r = run /\ r \in state.runs THEN None ELSE state.routes[r]
             /\ r \in state'.workItems <=> r \in state.workItems /\ r # run
      BY <1>0, <1>2, <2>1 DEF CloseRun, StateInv, State
    <2>4. \A r \in Runs : state.routes[r] # None => r \in state.runs
      BY <1>0 DEF StateInv, Routed
    <2>5. ASSUME NEW r \in Runs
          PROVE  /\ state'.routes[r] \in {state.routes[r], None}
                 /\ state'.routes[r] # None /\ r \in state.workItems => r \in state'.workItems
                 /\ state'.routes[r] # None => consumers'[state.routes[r]].run = r
      <3>1. CASE r = run
        BY <2>3, <2>4, <3>1
      <3>2. CASE r # run
        <4>1. state'.routes[r] = state.routes[r] /\ (r \in state'.workItems <=> r \in state.workItems)
          BY <2>3, <3>2
        <4>2. state.routes[r] # None =>
                 state.routes[r] \in Consumers /\ consumers[state.routes[r]].run = r
          BY <1>0, BootTypes DEF BootChannels
        <4>3. state.routes[r] # None => state.routes[r] # c
          BY <3>2, <4>2
        <4> QED BY <2>2, <4>1, <4>2, <4>3
      <3> QED BY <3>1, <3>2
    <2>6. Calm
      BY <2>1 DEF Calm
    <2>7. ASSUME NEW d \in Consumers, NEW r \in Runs, consumers'[d].pc = "close",
                 consumers'[d].run = r, runStatus'[r] = "running"
          PROVE  state'.routes[r] = None
      <3>1. d # c
        BY <2>2, <2>7
      <3>2. state.routes[r] = None
        BY <2>1, <2>2, <2>7, <3>1 DEF BootChannels
      <3> QED BY <2>3, <3>2
    <2>8. ASSUME NEW r \in Runs, Watched(r), runStatus'[r] = "running" PROVE Watched(r)'
      <3>1. \A t \in {"pump", "marker"} : Losing(t)' <=> Losing(t)
        BY <1>4 DEF Losing
      <3>2. ASSUME NEW d \in Consumers, consumers[d].run = r, Failing(d) PROVE Watched(r)'
        <4>1. d # c
          BY <2>1, <3>2 DEF Failing
        <4>2. Failing(d)' /\ consumers'[d].run = r
          BY <2>2, <3>2, <4>1 DEF Failing
        <4> QED BY <4>2 DEF Watched
      <3>3. CASE state.routes[r] # None
        <4>1. r # run
          BY <2>1, <2>8, <3>3 DEF BootChannels
        <4> QED BY <2>3, <3>3, <4>1 DEF Watched
      <3> QED BY <1>4, <2>8, <3>1, <3>2, <3>3 DEF Watched
    <2>9. BootTasks'
      <3>1. \A d \in Consumers : consumers'[d].pc = "failWrite" => consumers'[d].seen = "running"
        BY <2>2 DEF BootTasks
      <3> QED BY <1>2, <1>4, <3>1 DEF BootTasks
    <2>10. \A d \in Consumers : consumers'[d].run \in {consumers[d].run, None}
      BY <2>2
    <2>11. BootChannels' /\ BootRuns'
      BY <1>0, <1>4, <2>5, <2>6, <2>7, <2>8, <2>10, BootKeeps
    <2> QED BY <2>9, <2>11 DEF BootInv
  <1> QED BY <1>9, <1>10, <1>11, <1>12, <1>13, <1>14, <1>15 DEF ConsumerStep

(* reconcile_startup looks at a run, or starts the consumer of a plan.     *)
LEMMA StartupBoots ==
    ASSUME WholeInv, AtBoot, BootTasks, BootChannels, BootRuns, ~StoreFault, StartupStep
    PROVE  BootInv'
  <1>0. TypeOK /\ StateInv(state) /\ ConsumersOK /\ ChannelsInv
    BY DEF WholeInv, SupervisorInv, RunsInv, TasksInv
  <1>1. ASSUME NEW r \in Runs, StartupDowngrade(r) PROVE BootInv'
    <2> DEFINE s == runStatus[r]
    <2>1. /\ startup = "reconciling" /\ r \in page /\ page' = page \ {r}
          /\ UNCHANGED <<state, consumers, startup, task, pumpHandle, affected>>
          /\ IF s \in {"starting", "running"}
             THEN TransitionRun(r, s, Downgraded(s), None) ELSE UNCHANGED tableVars
      BY <1>1 DEF StartupDowngrade, pumpVars
    <2>2. /\ runStatus'[r] \notin {"starting", "running"}
          /\ \A q \in Runs \ {r} : runStatus'[q] = runStatus[q]
      <3>1. CASE s \in {"starting", "running"}
        <4>1. TransitionRun(r, s, Downgraded(s), None)
          BY <2>1, <3>1
        <4> QED BY <1>0, <4>1, BootTypes DEF TransitionRun, Downgraded
      <3>2. CASE s \notin {"starting", "running"}
        BY <2>1, <3>2 DEF tableVars
      <3> QED BY <3>1, <3>2
    <2>3. BootTasks'
      BY <2>1 DEF BootTasks
    <2>4. BootChannels'
      BY <2>1 DEF BootChannels, BootTasks
    <2>5. BootRuns'
      <3>1. \A q \in Runs : Watched(q)' <=> Watched(q)
        BY <2>1 DEF Watched, Losing, Failing
      <3> QED BY <2>1, <2>2, <3>1 DEF BootRuns
    <2> QED BY <2>3, <2>4, <2>5 DEF BootInv
  <1>2. ASSUME NEW r \in Runs, NEW c \in Consumers, StartupPrepare(r, c) PROVE BootInv'
    <2>1. /\ startup = "reconciling" /\ r \in page /\ page' = page \ {r} /\ Unused(c)
          /\ UNCHANGED <<startup, task, pumpHandle, affected>>
          /\ IF runStatus[r] = "running" THEN UNCHANGED tableVars
             ELSE TransitionRun(r, runStatus[r], "running", r)
          /\ state' = PrepareRoute(state, r, c, LoadRequests(r))
          /\ NewConsumer(c, r, "prepared")
      BY <1>2 DEF StartupPrepare, pumpVars
    <2>2. /\ runStatus'[r] = "running"
          /\ \A q \in Runs \ {r} : runStatus'[q] = runStatus[q]
      <3>1. CASE runStatus[r] = "running"
        BY <2>1, <3>1 DEF tableVars
      <3>2. CASE TransitionRun(r, runStatus[r], "running", r)
        BY <1>0, <3>2, BootTypes DEF TransitionRun
      <3> QED BY <2>1, <3>1, <3>2
    <2>3. /\ consumers'[c].run = r /\ consumers'[c].pc = "prepared"
          /\ \A d \in Consumers \ {c} : consumers'[d] = consumers[d]
          /\ consumers[c].run = None
      BY <1>0, <2>1, BootTypes DEF NewConsumer, Finished, Unused, ChannelsInv
    <2>4. /\ state'.routes[r] = c /\ r \in state'.workItems
          /\ \A q \in Runs \ {r} : state'.routes[q] = state.routes[q]
          /\ state.workItems \subseteq state'.workItems
      <3> DEFINE loaded == LoadRequests(r)
      <3> HIDE DEF loaded
      <3>1. state' = PrepareRoute(state, r, c, loaded)
        BY <2>1 DEF loaded
      <3> QED BY <1>0, <3>1 DEF PrepareRoute, StateInv, State
    <2>5. BootTasks'
      BY <2>1, <2>3 DEF BootTasks
    <2>6. BootChannels'
      <3>1. ASSUME NEW d \in Consumers, NEW e \in Consumers, consumers'[d].run # None,
                   consumers'[d].run = consumers'[e].run
            PROVE  d = e
        BY <2>1, <2>3, <3>1 DEF BootChannels
      <3>2. \A d \in Consumers : consumers'[d].run \notin page'
        BY <2>1, <2>3 DEF BootChannels
      <3>3. ASSUME NEW q \in Runs, state'.routes[q] # None
            PROVE  consumers'[state'.routes[q]].run = q /\ q \in state'.workItems
        <4>1. CASE q = r
          BY <2>3, <2>4, <4>1
        <4>2. CASE q # r
          <5>1. state.routes[q] \in Consumers \ {c}
            BY <1>0, <2>1, <2>4, <3>3, <4>2, BootTypes DEF Unused, SenderAlive
          <5> QED BY <2>3, <2>4, <3>3, <4>2, <5>1 DEF BootChannels
        <4> QED BY <4>1, <4>2
      <3>4. \A d \in Consumers : consumers'[d].pc # "close"
        BY <2>1, <2>3 DEF BootTasks
      <3> QED BY <3>1, <3>2, <3>3, <3>4 DEF BootChannels
    <2>7. BootRuns'
      <3>1. ASSUME NEW q \in Runs \ {r}, Watched(q) PROVE Watched(q)'
        <4>1. state.routes[q] # None
          BY <2>1, <3>1 DEF Watched, BootTasks, Losing, Failing
        <4> QED BY <2>4, <4>1 DEF Watched
      <3>2. Watched(r)'
        BY <1>0, <2>4, BootTypes DEF Watched
      <3> QED BY <2>1, <2>2, <3>1, <3>2 DEF BootRuns
    <2> QED BY <2>5, <2>6, <2>7 DEF BootInv
  <1>3. ASSUME NEW c \in Consumers, StartupActivate(c) PROVE BootInv'
    <2>1. /\ page = {} /\ consumers[c].pc = "prepared" /\ pumpHandle'
          /\ consumers' = [consumers EXCEPT ![c].pc = "recv"]
          /\ state' = [state EXCEPT !.uncertainRuns = @ \ {consumers[c].run}]
          /\ task' = IF pumpHandle THEN task
                     ELSE [task EXCEPT !["pump"] = [Blank EXCEPT !.pc = "next"]]
          /\ startup' = "activating"
          /\ UNCHANGED <<runStatus, affected, page>>
      BY <1>3 DEF StartupActivate, Prepared, storeVars, tableVars
    <2>2. /\ \A d \in Consumers \ {c} : consumers'[d] = consumers[d]
          /\ consumers'[c].run = consumers[c].run /\ consumers'[c].pc = "recv"
      BY <1>0, <2>1, BootTypes DEF Consumer
    <2>3. state'.routes = state.routes /\ state'.workItems = state.workItems
      BY <1>0, <2>1 DEF StateInv, State
    <2>4. /\ \A t \in Tasks \ {"pump"} : task'[t] = task[t]
          /\ \/ task'["pump"] = task["pump"]
             \/ task["pump"].pc = "idle" /\ task'["pump"].pc = "next"
      BY <1>0, <2>1, BootTypes DEF Blank, BootTasks
    <2>5. BootTasks'
      BY <1>0, <2>1, <2>2, <2>4, BootTypes DEF BootTasks
    <2>6. Calm /\ \A d \in Consumers : consumers'[d].run = consumers[d].run
      BY <2>1, <2>2 DEF Calm
    <2>7. \A r \in Runs : state'.routes[r] # None => consumers'[state.routes[r]].run = r
      <3>1. \A r \in Runs : state'.routes[r] # None =>
               state.routes[r] \in Consumers /\ consumers[state.routes[r]].run = r
        BY <1>0, <2>3, BootTypes DEF BootChannels
      <3> QED BY <2>6, <3>1
    <2>8. ASSUME NEW d \in Consumers, NEW r \in Runs, consumers'[d].pc = "close",
                 consumers'[d].run = r, runStatus'[r] = "running"
          PROVE  state'.routes[r] = None
      <3>1. d # c
        BY <2>2, <2>8
      <3> QED BY <2>1, <2>2, <2>3, <2>8, <3>1 DEF BootChannels
    <2>9. ASSUME NEW r \in Runs, Watched(r) PROVE Watched(r)'
      <3>1. \A t \in {"pump", "marker"} : Losing(t) /\ task[t].run = r
                                          => Losing(t)' /\ task'[t].run = r
        BY <1>0, <2>4, BootTypes DEF Losing
      <3>2. \A d \in Consumers : Failing(d) => Failing(d)'
        BY <2>1, <2>2 DEF Failing
      <3> QED BY <2>1, <2>3, <2>6, <2>9, <3>1, <3>2 DEF Watched
    <2>10. BootChannels' /\ BootRuns'
      BY <1>0, <2>1, <2>3, <2>6, <2>7, <2>8, <2>9, BootKeeps
    <2> QED BY <2>5, <2>10 DEF BootInv
  <1>4. ASSUME StartupDone PROVE BootInv'
    BY <1>4 DEF StartupDone, BootInv, AtBoot
  <1>5. ~StartupFails
    BY DEF StartupFails
  <1> QED BY <1>1, <1>2, <1>3, <1>4, <1>5 DEF StartupStep

(* Every step keeps what holds at a restart, if no store call fails.       *)
LEMMA BootStep ==
    ASSUME WholeInv, ~StoreFault, BootInv, [Next]_vars PROVE BootInv'
  <1>0. TypeOK
    BY DEF WholeInv
  <1>1. CASE Crash
    BY <1>0, <1>1, CrashBoots
  <1>2. CASE ~AtBoot /\ ~Crash
    BY <1>2, BootBegins DEF BootInv, AtBoot
  <1>3. CASE AtBoot /\ ~Crash
    <2>1. BootTasks /\ BootChannels /\ BootRuns
      BY <1>3 DEF BootInv
    <2>2. CASE StartStep \/ \E t \in Clients : ClientStep(t)
      BY <1>0, <1>3, <2>1, <2>2, NobodyElse
    <2>3. CASE PumpStep
      BY <1>3, <2>1, <2>3, DeliverBoots, BufferBoots, DisconnectBoots, AftermathBoots
         DEF PumpStep
    <2>4. CASE \E t \in Tasks : SharedStep(t)
      BY <1>3, <2>1, <2>4, SharedBoots
    <2>5. CASE \E c \in Consumers : ConsumerStep(c)
      BY <1>3, <2>1, <2>5, ConsumersBoot
    <2>6. CASE StartupStep
      BY <1>3, <2>1, <2>6, StartupBoots
    <2>7. ASSUME UNCHANGED <<innerVars, runStatus>> PROVE BootInv'
      <3>1. UNCHANGED <<state, task, consumers, pumpHandle, affected, startup, page, runStatus>>
        BY <2>7 DEF innerVars, backVars, pumpVars, bootVars
      <3> QED BY <3>1 DEF BootInv, AtBoot, BootTasks, BootChannels, BootRuns, Watched, Losing, Failing
    <2>8. CASE Environment
      <3>1. ASSUME NEW r \in Runs, Accept(r) \/ \E kind \in EmitKinds : Emit(r, kind)
            PROVE  BootInv'
        BY <2>7, <3>1 DEF Accept, Emit, storeVars, tableVars
      <3>2. CASE PumpFail
        BY <1>3, <2>1, <3>2, PumpFailBoots
      <3> QED BY <1>0, <1>3, <2>1, <2>8, <3>1, <3>2, NobodyElse DEF Environment
    <2>9. CASE UNCHANGED vars
      BY <2>7, <2>9 DEF vars, storeVars, tableVars
    <2> QED BY ONLY [Next]_vars, <2>2, <2>3, <2>4, <2>5, <2>6, <2>8, <2>9 DEF Next
  <1> QED BY <1>1, <1>2, <1>3

(* When reconcile_startup is through, no run is left starting, and a run   *)
(* that is running has a route or somebody is about to write that it has   *)
(* lost it, if no store call has failed: for any number of runs and        *)
(* restarts, and wherever the stream breaks, a channel overflows or the    *)
(* provider loses its runs meanwhile.                                      *)
THEOREM RestartsAccountForRuns ==
    ASSUME MaxStoreFaults = 0 PROVE Spec => RestartAccountsForEveryRun
  <1>1. Init => BootInv
    BY DEF Init, BootInv, AtBoot
  <1>2. WholeInv => ~StoreFault
    BY SupervisorAssumption DEF WholeInv, TypeOK, StoreFault
  <1>3. WholeInv /\ BootInv /\ [Next]_vars => BootInv'
    BY <1>2, BootStep
  <1>4. ASSUME WholeInv, BootInv, [Next]_vars
        PROVE  [startup # "ready" /\ startup' = "ready" =>
                   \A r \in Runs : /\ runStatus[r] # "starting"
                                   /\ runStatus[r] = "running" => Accounted(r)]_vars
    <2>1. SUFFICES ASSUME startup # "ready", startup' = "ready", NEW r \in Runs
                   PROVE  /\ runStatus[r] # "starting"
                          /\ runStatus[r] = "running" => Accounted(r)
      OBVIOUS
    <2>2. ~Crash
      BY <2>1 DEF Crash
    <2>3. AtBoot
      BY <1>4, <2>1, <2>2, BootBegins
    <2>4. StartupStep
      BY <1>4, <2>1, <2>2, StartupStands
    <2>5. StartupDone
      BY <2>1, <2>4 DEF StartupStep, StartupDowngrade, StartupPrepare, StartupFails,
          StartupActivate
    <2>6. page = {} /\ BootRuns
      BY <1>4, <2>3, <2>5 DEF StartupDone, BootInv
    <2>7. Watched(r) => Accounted(r)
      BY DEF Watched, Accounted, Failing, Tasks
    <2> QED BY <2>6, <2>7 DEF BootRuns
  <1> QED BY <1>1, <1>3, <1>4, WholeInvariant, PTL DEF Spec, RestartAccountsForEveryRun

=============================================================================
