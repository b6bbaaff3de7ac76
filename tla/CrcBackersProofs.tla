--------------------------- MODULE CrcBackersProofs ---------------------------
(***************************************************************************)
(* Theorems about the crc-backers worker, for any backers, chain, number   *)
(* of failures and reorganisations, as long as the index of events is no   *)
(* further behind the head than the confirmations that a run waits for.    *)
(***************************************************************************)
EXTENDS CrcBackers, TLAPS

\* What the worker relies on: a block that has its confirmations is indexed.
IndexKeepsUp == IndexLag <= Confirmations

Running == {"untrust", "trust", "pending", "reconcile"}

USE DEF Running, Never

-----------------------------------------------------------------------------
(* The invariant. *)

RunType == [stage : Running \cup {"down", "idle", "save"}, to : Nat, time : Nat,
            untrust : SUBSET Backers, trust : SUBSET Backers, banned : SUBSET Backers,
            done : SUBSET Backers, left : SUBSET Backers]

\* The types that the argument needs; the cursors are at most a block ahead.
Typed ==
    /\ head \in Nat \ {0}
    /\ initiated \in [Backers -> Nat] /\ completed \in [Backers -> Nat]
    /\ order \in [Backers -> Orders]
    /\ trust \subseteq Backers
    /\ nextFrom \in 1 .. head + 1 /\ savedFrom \in 1 .. head + 1
    /\ run \in RunType

\* A process has an order once it is initiated, and one that has completed has
\* created its LBP and cannot do so again.
ChainInv == \A b \in Backers :
    /\ initiated[b] # Never <=> order[b] # "none"
    /\ completed[b] <= head
    /\ completed[b] # Never <=> order[b] = "created"

\* A completion that no reorganisation can undo.
Final(b) == completed[b] # Never /\ completed[b] <= head - Confirmations

\* A run knows every completion between its cursor and the end of its range,
\* they are final, and it trusts nobody else.
RunInv ==
    /\ run.stage \in Running =>
          /\ run.to <= head - Confirmations
          /\ run.trust \subseteq run.done
          /\ \A b \in run.done : Final(b)
          /\ \A b \in Backers : completed[b] \in nextFrom .. run.to => b \in run.done
    /\ run.stage \in {"pending", "reconcile"} => run.done \subseteq handled

TrustFinal == \A b \in trust : Final(b)

\* The list that a run has loaded is what it untrusts by.
ListInv ==
    /\ run.stage = "untrust" => trust \cap loaded \subseteq run.untrust
    /\ run.stage \in {"untrust", "trust"} => run.trust \cap loaded = {}
    /\ run.stage \in {"trust", "pending", "reconcile"} => trust \cap loaded = {}

BInv == Typed /\ ChainInv /\ RunInv /\ TrustFinal /\ CursorCoversHandled

-----------------------------------------------------------------------------
(* The chain. *)

\* The head does not go back, and what is final stays as it is; a completion
\* that is new is above the head that was.
ChainStep ==
    /\ head' \in Nat /\ head' >= head
    /\ \A b \in Backers : \/ completed'[b] = completed[b]
                          \/ ~Final(b) /\ completed'[b] = Never
                          \/ completed[b] = Never /\ completed'[b] = head + 1

\* What the worker knows and has done survives whatever the chain does.
LEMMA ChainStepKeeps ==
    ASSUME BInv, ChainStep, Typed', ChainInv',
           UNCHANGED <<nextFrom, savedFrom, trust>>, handled \subseteq handled',
           run'.stage \in Running => run.stage \in Running,
           run'.stage \in {"pending", "reconcile"} => run.stage \in {"pending", "reconcile"},
           run'.to = run.to, run'.trust = run.trust, run'.done = run.done
    PROVE  BInv'
<1> USE BackersAssumption DEF BInv
<1>1. \A b \in Backers : Final(b) => Final(b)' /\ completed'[b] = completed[b]
  BY DEF Final, ChainStep, Typed
<1>2. TrustFinal'
  BY <1>1 DEF TrustFinal, Typed
<1>3. RunInv'
  <2>1. ASSUME run'.stage \in Running
        PROVE  /\ run'.to <= head' - Confirmations
               /\ run'.trust \subseteq run'.done
               /\ \A b \in run'.done : Final(b)'
               /\ \A b \in Backers : completed'[b] \in nextFrom' .. run'.to => b \in run'.done
    <3>1. run.to \in Nat /\ run.to <= head - Confirmations /\ run.done \subseteq Backers
      BY <2>1 DEF RunInv, Typed, RunType
    <3>2. \A b \in run.done : Final(b)'
      BY <1>1, <2>1, <3>1 DEF RunInv
    <3>3. ASSUME NEW b \in Backers, completed'[b] \in nextFrom .. run.to
          PROVE  b \in run.done
      <4>1. completed'[b] # head + 1 /\ completed'[b] # Never
        BY <3>1, <3>3 DEF Typed
      <4>2. completed'[b] = completed[b]
        BY <4>1 DEF ChainStep
      <4>3. QED
        BY <2>1, <3>3, <4>2 DEF RunInv
    <3>4. QED
      BY <2>1, <3>1, <3>2, <3>3 DEF RunInv, ChainStep, Typed
  <2>2. run'.stage \in {"pending", "reconcile"} => run'.done \subseteq handled'
    BY DEF RunInv
  <2>3. QED
    BY <2>1, <2>2 DEF RunInv, Final
<1>4. CursorCoversHandled'
  <2> SUFFICES ASSUME NEW b \in Backers, completed'[b] # Never,
                      completed'[b] < nextFrom \/ completed'[b] < savedFrom
               PROVE  b \in handled
    BY DEF CursorCoversHandled
  <2>1. completed'[b] = completed[b]
    BY DEF ChainStep, Typed
  <2>2. QED
    BY <2>1 DEF CursorCoversHandled
<1>5. QED
  BY <1>2, <1>3, <1>4

\* What simulateCreateLbp leads to on the chain.
LEMMA CreateStep ==
    ASSUME BInv, NEW b \in Backers, TryCreateLbp(b), UNCHANGED initiated
    PROVE  /\ ChainStep /\ ChainInv' /\ head' \in Nat \ {0}
           /\ completed' \in [Backers -> Nat] /\ order' \in [Backers -> Orders]
<1> USE BackersAssumption DEF BInv
<1>1. CASE order[b] = "filled"
  <2>1. /\ order' = [order EXCEPT ![b] = "created"] /\ head' = head + 1
        /\ completed' = [completed EXCEPT ![b] = head + 1] /\ completed[b] = Never
    BY <1>1 DEF TryCreateLbp, ChainInv
  <2>2. ChainStep /\ head' \in Nat \ {0}
    BY <2>1 DEF ChainStep, Typed
  <2>3. ChainInv'
    BY <1>1, <2>1 DEF ChainInv, Typed
  <2>4. QED
    BY <2>1, <2>2, <2>3 DEF Typed, Orders
<1>2. CASE order[b] # "filled"
  BY <1>2 DEF TryCreateLbp, ChainStep, ChainInv, Typed
<1>3. QED
  BY <1>1, <1>2

\* A block, whatever happens in it.
LEMMA MineStep == BInv /\ Mine => BInv'
<1> SUFFICES ASSUME BInv, Mine PROVE BInv'
  OBVIOUS
<1> USE BackersAssumption
<1>1. /\ head' = head + 1
      /\ UNCHANGED <<trust, nextFrom, savedFrom, run, handled>>
  BY DEF Mine, memoryVars, history
<1> DEFINE Kept == /\ ChainStep /\ ChainInv' /\ initiated' \in [Backers -> Nat]
                   /\ completed' \in [Backers -> Nat] /\ order' \in [Backers -> Orders]
<1>2. Kept
  <2>1. CASE UNCHANGED <<initiated, completed, order>>
    BY <1>1, <2>1 DEF ChainStep, ChainInv, Typed, BInv
  <2>2. ASSUME NEW b \in Backers, Initiate(b)
        PROVE  Kept
    BY <1>1, <2>2 DEF Initiate, ChainStep, ChainInv, Typed, BInv, Orders
  <2>3. ASSUME NEW b \in Backers, Complete(b)
        PROVE  Kept
    BY <1>1, <2>3 DEF Complete, ChainStep, ChainInv, Typed, BInv, Orders
  <2>4. QED
    BY <2>1, <2>2, <2>3 DEF Mine
<1>3. Typed'
  BY <1>1, <1>2 DEF Typed, BInv
<1>4. QED
  BY <1>1, <1>2, <1>3, ChainStepKeeps

\* Only what is not final is undone.
LEMMA ReorganiseStep == BInv /\ Reorganise => BInv'
<1> SUFFICES ASSUME BInv, Reorganise PROVE BInv'
  OBVIOUS
<1> USE BackersAssumption
<1>1. UNCHANGED <<head, initiated, trust, nextFrom, savedFrom, run, handled>>
  BY DEF Reorganise, memoryVars, history
<1>2. PICK b \in Backers :
        /\ completed[b] # Never /\ completed[b] > head - Confirmations
        /\ completed' = [completed EXCEPT ![b] = Never]
        /\ order' = [order EXCEPT ![b] = "filled"]
  BY DEF Reorganise
<1>3. ChainStep
  BY <1>1, <1>2 DEF ChainStep, Typed, BInv, Final
<1>4. ChainInv'
  BY <1>1, <1>2 DEF ChainInv, Typed, BInv
<1>5. Typed'
  BY <1>1, <1>2 DEF Typed, BInv, Orders
<1>6. QED
  BY <1>1, <1>3, <1>4, <1>5, ChainStepKeeps

-----------------------------------------------------------------------------
(* The run. *)

\* A step of the worker that leaves the chain alone.
ChainStays == UNCHANGED <<head, initiated, completed, order>>

\* A run that ends or fails leaves nothing to account for but the cursors.
LEMMA RunOver ==
    ASSUME BInv, ChainStays, TrustFinal', trust' \subseteq Backers, run' \in RunType,
           run'.stage \notin Running, UNCHANGED handled, UNCHANGED savedFrom,
           nextFrom' = nextFrom \/ nextFrom' = 1 \/ nextFrom' = savedFrom
    PROVE  BInv'
<1> USE BackersAssumption DEF BInv, ChainStays
<1>1. Typed' /\ ChainInv'
  BY DEF Typed, ChainInv
<1>2. RunInv'
  BY DEF RunInv
<1>3. CursorCoversHandled'
  BY DEF CursorCoversHandled, Typed
<1>4. QED
  BY <1>1, <1>2, <1>3

LEMMA EndsTyped == /\ Idle \in RunType /\ Idle.stage = "idle"
                   /\ Down \in RunType /\ Down.stage = "down"
  BY DEF Idle, Down, RunType

\* A failed iteration, and the exit after too many of them.
LEMMA FailOver ==
    ASSUME BInv, Fail \/ Exit, ChainStays, TrustFinal', trust' \subseteq Backers,
           UNCHANGED <<handled, savedFrom>>
    PROVE  BInv'
<1>1. /\ run' = Idle \/ run' = Down
      /\ nextFrom' = nextFrom \/ nextFrom' = 1
  BY DEF Fail, Exit
<1>2. QED
  BY <1>1, RunOver, EndsTyped

\* The head that a run may rely on has its confirmations.
LEMMA BeginRunStep == IndexKeepsUp /\ BInv /\ BeginRun => BInv'
<1> SUFFICES ASSUME IndexKeepsUp, BInv, BeginRun PROVE BInv'
  OBVIOUS
<1> USE BackersAssumption DEF IndexKeepsUp
<1>1. UNCHANGED <<head, initiated, completed, order, nextFrom, savedFrom, trust, handled>>
  BY DEF BeginRun, worldVars, chainVars, history
<1>2. CASE SafeHead < nextFrom
  <2>1. run' = [Idle EXCEPT !.stage = "save", !.to = nextFrom - 1]
    BY <1>2 DEF BeginRun
  <2>2. run' \in RunType /\ run'.stage = "save"
    <3>1. nextFrom - 1 \in Nat
      BY DEF Typed, BInv
    <3>2. QED
      BY <2>1, <3>1, EndsTyped DEF RunType
  <2>3. TrustFinal' /\ trust' \subseteq Backers
    BY <1>1 DEF BInv, TrustFinal, Final, Typed
  <2>4. QED
    BY <1>1, <2>2, <2>3, RunOver DEF ChainStays
<1>3. CASE ~(SafeHead < nextFrom)
  <2>1. PICK indexed \in head - IndexLag .. head :
          LET done == {b \in Backers : InRange(completed[b], SafeHead, indexed)}
          IN  run' = [stage |-> "untrust", to |-> SafeHead, time |-> head,
                      banned |-> Banned(done, loaded'), done |-> done, left |-> {},
                      untrust |-> trust \cap Banned(done, loaded'),
                      trust |-> (done \ Banned(done, loaded')) \ trust]
    BY <1>3 DEF BeginRun
  <2> DEFINE done == {b \in Backers : InRange(completed[b], SafeHead, indexed)}
  <2>2. SafeHead \in Nat /\ SafeHead = head - Confirmations /\ SafeHead >= nextFrom
    BY <1>3 DEF SafeHead, BInv, Typed
  <2>3. \A b \in done : Final(b)
    BY <2>2 DEF InRange, Final, BInv, Typed
  <2>4. \A b \in Backers : completed[b] \in nextFrom .. SafeHead => b \in done
    BY <2>2 DEF InRange, BInv, Typed
  <2>5. done \subseteq Backers
    OBVIOUS
  <2> HIDE DEF done
  <2>6. /\ run'.stage = "untrust" /\ run'.to = SafeHead /\ run'.done = done
        /\ run'.trust \subseteq done
    BY <2>1 DEF done
  <2>7. run' \in RunType
    <3>1. Banned(done, loaded') \subseteq Backers
      BY <2>5 DEF Banned, BInv, Typed
    <3>2. QED
      BY <2>1, <2>2, <2>5, <3>1 DEF done, RunType, BInv, Typed
  <2>8. RunInv'
    BY <1>1, <2>2, <2>3, <2>4, <2>6 DEF RunInv, Final
  <2>9. QED
    BY <1>1, <2>7, <2>8 DEF BInv, Typed, ChainInv, TrustFinal, Final, CursorCoversHandled
<1>4. QED
  BY <1>2, <1>3

\* A step inside a run: only its stage and what is left to do change, and whom
\* it trusts or has dealt with.
LEMMA RunGoesOn ==
    ASSUME BInv, ChainStays, UNCHANGED <<nextFrom, savedFrom>>, run.stage \in Running,
           TrustFinal', trust' \subseteq Backers, handled \subseteq handled', run' \in RunType,
           run'.to = run.to, run'.trust = run.trust, run'.done = run.done,
           run'.stage \in {"pending", "reconcile"} => run.done \subseteq handled'
    PROVE  BInv'
<1> USE BackersAssumption DEF BInv, ChainStays
<1>1. Typed' /\ ChainInv'
  BY DEF Typed, ChainInv
<1>2. RunInv'
  BY DEF RunInv, Final
<1>3. CursorCoversHandled'
  BY DEF CursorCoversHandled
<1>4. QED
  BY <1>1, <1>2, <1>3

\* The order of an instance moves without a block.
LEMMA OrderMovesStep == BInv /\ OrderMoves => BInv'
<1> SUFFICES ASSUME BInv, OrderMoves PROVE BInv'
  OBVIOUS
<1>1. UNCHANGED <<chainVars, trust, nextFrom, savedFrom, run, handled>>
  BY DEF OrderMoves, memoryVars, history
<1>2. PICK b \in Backers :
        /\ order[b] \in {"current", "outdated"}
        /\ \E to \in {"outdated", "filled", "short", "cancelled"} :
              order' = [order EXCEPT ![b] = to]
  <2> DEFINE moves == {<<"current", "outdated">>, <<"current", "filled">>,
                       <<"outdated", "filled">>, <<"current", "short">>,
                       <<"current", "cancelled">>}
  <2>1. PICK b \in Backers, move \in moves :
            order[b] = move[1] /\ order' = [order EXCEPT ![b] = move[2]]
    BY DEF OrderMoves
  <2>2. /\ move[1] \in {"current", "outdated"}
        /\ move[2] \in {"outdated", "filled", "short", "cancelled"}
    OBVIOUS
  <2> HIDE DEF moves
  <2>3. QED
    BY <2>1, <2>2
<1>3. ChainInv'
  BY <1>1, <1>2 DEF ChainInv, Typed, BInv, chainVars
<1>4. Typed'
  BY <1>1, <1>2 DEF Typed, BInv, chainVars, Orders
<1>5. ChainStep
  BY <1>1 DEF ChainStep, chainVars, Typed, BInv
<1>6. QED
  BY <1>1, <1>3, <1>4, <1>5, ChainStepKeeps

\* A batch of the run, or its look at the processes under way.
LEMMA BatchSteps == BInv /\ (UntrustBatch \/ TrustBatch \/ FindPending) => BInv'
<1> SUFFICES ASSUME BInv, UntrustBatch \/ TrustBatch \/ FindPending PROVE BInv'
  OBVIOUS
<1>1. ChainStays /\ UNCHANGED <<nextFrom, savedFrom>>
  BY DEF UntrustBatch, TrustBatch, FindPending, worldVars, chainVars, ChainStays
<1>2. run \in RunType
  BY DEF BInv, Typed
<1>3. CASE UntrustBatch
  <2>1. /\ run.stage = "untrust" /\ trust' = trust \ run.untrust
        /\ run' = [run EXCEPT !.stage = "trust"] /\ handled' = handled
    BY <1>3 DEF UntrustBatch, history
  <2>2. TrustFinal' /\ trust' \subseteq Backers
    BY <1>1, <2>1 DEF TrustFinal, Final, BInv, Typed, ChainStays
  <2>3. /\ run' \in RunType /\ run'.stage = "trust" /\ run'.to = run.to
        /\ run'.trust = run.trust /\ run'.done = run.done
    BY <1>2, <2>1 DEF RunType
  <2>4. QED
    BY <1>1, <2>1, <2>2, <2>3, RunGoesOn
<1>4. CASE TrustBatch
  <2>1. /\ run.stage = "trust" /\ trust' = trust \cup run.trust
        /\ run' = [run EXCEPT !.stage = "pending"] /\ handled' = handled \cup run.done
    BY <1>4 DEF TrustBatch
  <2>2. TrustFinal' /\ trust' \subseteq Backers
    BY <1>1, <1>2, <2>1 DEF TrustFinal, Final, BInv, Typed, ChainStays, RunInv, RunType
  <2>3. /\ run' \in RunType /\ run'.to = run.to
        /\ run'.trust = run.trust /\ run'.done = run.done
    BY <1>2, <2>1 DEF RunType
  <2>4. QED
    BY <1>1, <2>1, <2>2, <2>3, RunGoesOn
<1>5. CASE FindPending
  <2>1. run.stage = "pending" /\ UNCHANGED <<trust, handled>>
    BY <1>5 DEF FindPending, history
  <2>2. PICK left \in SUBSET Backers :
            run' = [run EXCEPT !.stage = "reconcile", !.left = left]
    BY <1>5 DEF FindPending
  <2>3. /\ run' \in RunType /\ run'.to = run.to
        /\ run'.trust = run.trust /\ run'.done = run.done
    BY <1>2, <2>2 DEF RunType
  <2>4. TrustFinal' /\ trust' \subseteq Backers
    BY <1>1, <2>1 DEF TrustFinal, Final, BInv, Typed, ChainStays
  <2>5. run.done \subseteq handled
    BY <2>1 DEF BInv, RunInv
  <2>6. QED
    BY <1>1, <2>1, <2>3, <2>4, <2>5, RunGoesOn
<1>6. QED
  BY <1>3, <1>4, <1>5

\* A process is reconciled: it may complete, and a later run trusts its backer.
LEMMA ReconcileStep == BInv /\ ReconcileProcess => BInv'
<1> SUFFICES ASSUME BInv, NEW b \in run.left, run.stage = "reconcile",
                    TryCreateLbp(b) \/ TryReset(b), run' = [run EXCEPT !.left = @ \ {b}],
                    UNCHANGED <<initiated, nextFrom, handled, trust, savedFrom>>
             PROVE  BInv'
  BY DEF ReconcileProcess
<1>1. b \in Backers /\ run \in RunType
  BY DEF BInv, Typed, RunType
<1> DEFINE Kept == /\ ChainStep /\ ChainInv' /\ head' \in Nat \ {0}
                   /\ completed' \in [Backers -> Nat] /\ order' \in [Backers -> Orders]
<1>2. Kept
  <2>1. CASE TryCreateLbp(b)
    BY <1>1, <2>1, CreateStep
  <2>2. CASE ~TryCreateLbp(b)
    <3>1. UNCHANGED <<head, completed>>
          /\ \/ order' = order
             \/ order' = [order EXCEPT ![b] = "current"] /\ order[b] = "outdated"
      BY <2>2 DEF TryReset
    <3>2. ChainStep /\ head' \in Nat \ {0} /\ completed' \in [Backers -> Nat]
      BY <3>1 DEF ChainStep, BInv, Typed
    <3>3. ChainInv' /\ order' \in [Backers -> Orders]
      BY <1>1, <3>1 DEF ChainInv, BInv, Typed, Orders
    <3>4. QED
      BY <3>2, <3>3
  <2>3. QED
    BY <2>1, <2>2
<1>3. /\ run' \in RunType /\ run'.stage = run.stage /\ run'.to = run.to
      /\ run'.trust = run.trust /\ run'.done = run.done
  BY <1>1 DEF RunType
<1>4. Typed'
  BY <1>2, <1>3 DEF Typed, BInv, ChainStep
<1>5. QED
  BY <1>2, <1>3, <1>4, ChainStepKeeps

\* The cursor moves behind the range, all of whose completions are handled.
LEMMA RunEndsStep == BInv /\ RunEnds => BInv'
<1> SUFFICES ASSUME BInv, RunEnds PROVE BInv'
  OBVIOUS
<1> USE BackersAssumption
<1>1. /\ run.stage = "reconcile" /\ run' = [run EXCEPT !.stage = "save"]
      /\ nextFrom' = run.to + 1
      /\ UNCHANGED <<head, initiated, completed, order, handled, trust, savedFrom>>
  BY DEF RunEnds, worldVars, chainVars, history
<1>2. run \in RunType /\ run' \in RunType /\ run'.stage = "save"
  BY <1>1 DEF BInv, Typed, RunType
<1>3. run.to \in Nat /\ run.to <= head - Confirmations
  BY <1>1, <1>2 DEF BInv, RunInv, RunType
<1>4. Typed' /\ ChainInv' /\ TrustFinal' /\ RunInv'
  BY <1>1, <1>2, <1>3 DEF BInv, Typed, ChainInv, TrustFinal, Final, RunInv
<1>5. CursorCoversHandled'
  <2> SUFFICES ASSUME NEW b \in Backers, completed[b] # Never,
                      completed[b] < run.to + 1 \/ completed[b] < savedFrom
               PROVE  b \in handled
    BY <1>1 DEF CursorCoversHandled
  <2>1. CASE completed[b] < nextFrom \/ completed[b] < savedFrom
    BY <2>1 DEF BInv, CursorCoversHandled
  <2>2. CASE completed[b] \in nextFrom .. run.to
    BY <1>1, <2>2 DEF BInv, RunInv
  <2>3. QED
    BY <1>3, <2>1, <2>2 DEF BInv, Typed
<1>6. QED
  BY <1>4, <1>5 DEF BInv

LEMMA SaveStep == BInv /\ Save => BInv'
<1> SUFFICES ASSUME BInv, Save PROVE BInv'
  OBVIOUS
<1>1. /\ run' = Idle /\ savedFrom' \in {nextFrom, savedFrom}
      /\ UNCHANGED <<head, initiated, completed, order, nextFrom, handled, trust>>
  BY DEF Save, worldVars, chainVars, history
<1>2. QED
  BY <1>1, EndsTyped
  DEF BInv, Typed, ChainInv, TrustFinal, Final, RunInv, CursorCoversHandled

-----------------------------------------------------------------------------
(* Every step keeps the invariant. *)

LEMMA BInvInit == Init => BInv
<1> SUFFICES ASSUME Init PROVE BInv
  OBVIOUS
<1>1. Typed
  BY EndsTyped DEF Init, Typed, Orders
<1>2. ChainInv /\ TrustFinal /\ CursorCoversHandled
  BY DEF Init, ChainInv, TrustFinal, CursorCoversHandled
<1>3. RunInv
  BY EndsTyped DEF Init, RunInv
<1>4. QED
  BY <1>1, <1>2, <1>3 DEF BInv

LEMMA BInvNext == IndexKeepsUp /\ BInv /\ [Next]_vars => BInv'
<1> SUFFICES ASSUME IndexKeepsUp, BInv, [Next]_vars PROVE BInv'
  OBVIOUS
<1> USE DEF worldVars, chainVars, memoryVars, history
<1>1. ASSUME ChainStays, UNCHANGED trust PROVE TrustFinal' /\ trust' \subseteq Backers
  BY <1>1 DEF TrustFinal, Final, BInv, Typed, ChainStays
<1>2. CASE Mine \/ OrderMoves \/ Reorganise
  BY <1>2, MineStep, OrderMovesStep, ReorganiseStep
<1>3. ASSUME UNCHANGED <<chainVars, order, nextFrom, run, trust, savedFrom, handled>>
      PROVE  BInv'
  BY <1>3 DEF BInv, Typed, ChainInv, TrustFinal, Final, RunInv, CursorCoversHandled
<1>4. CASE BlacklistChanges
  BY <1>3, <1>4 DEF BlacklistChanges
<1>5. CASE Start
  <2>1. /\ ChainStays /\ UNCHANGED <<trust, handled, savedFrom>> /\ run' = Idle
        /\ nextFrom' = savedFrom \/ nextFrom' = 1
    BY <1>5 DEF Start, ChainStays
  <2>2. QED
    BY <1>1, <2>1, RunOver, EndsTyped
<1>6. CASE BeginRun
  BY <1>6, BeginRunStep
<1>7. CASE UntrustBatch \/ TrustBatch \/ FindPending
  BY <1>7, BatchSteps
<1>8. CASE ReconcileProcess
  BY <1>8, ReconcileStep
<1>9. CASE RunEnds
  BY <1>9, RunEndsStep
<1>10. CASE Save
  BY <1>10, SaveStep
<1>11. CASE RunFails \/ Crash
  <2>1. ChainStays /\ UNCHANGED <<trust, handled, savedFrom>> /\ (Fail \/ Exit)
    BY <1>11 DEF RunFails, Crash, ChainStays
  <2>2. QED
    BY <1>1, <2>1, FailOver
<1>12. CASE BatchReportedFailed
  <2>1. ChainStays /\ UNCHANGED <<handled, savedFrom>> /\ Fail
    BY <1>12 DEF BatchReportedFailed, ChainStays
  <2>2. trust' \subseteq trust \cup run.trust
    BY <1>12 DEF BatchReportedFailed
  <2>3. run.stage \in Running /\ run \in RunType
    BY <1>12 DEF BatchReportedFailed, BInv, Typed
  <2>4. \A b \in trust \cup run.trust : b \in Backers /\ Final(b)
    BY <2>3 DEF BInv, Typed, TrustFinal, RunInv, RunType
  <2>5. TrustFinal' /\ trust' \subseteq Backers
    BY <2>1, <2>2, <2>4 DEF TrustFinal, Final, ChainStays
  <2>6. QED
    BY <2>1, <2>5, FailOver
<1>13. CASE UNCHANGED vars
  BY <1>3, <1>13 DEF vars
<1>14. QED
  BY <1>2, <1>4, <1>5, <1>6, <1>7, <1>8, <1>9, <1>10, <1>11, <1>12, <1>13
  DEF Next, WorldStep, WorkerStep

-----------------------------------------------------------------------------
(* Theorems. *)

\* Nobody is trusted for a completion that is not on the chain for good,
\* wherever the run is when a reorganisation comes (logic.ts:397).
THEOREM TrustIsFinal == IndexKeepsUp => (Spec => []TrustsOnlyFinalCompletions)
<1>1. BInv => TrustsOnlyFinalCompletions
  BY DEF BInv, TrustFinal, Final, TrustsOnlyFinalCompletions
<1>2. SUFFICES ASSUME IndexKeepsUp PROVE Spec => []TrustsOnlyFinalCompletions
  OBVIOUS
<1>3. BInv /\ [Next]_vars => BInv'
  BY <1>2, BInvNext
<1>4. QED
  BY <1>1, <1>3, BInvInit, PTL DEF Spec

\* The cursor, in memory or stored, passes no completion that was not handled,
\* whatever fails and wherever the process ends (main.ts:187).
THEOREM CursorNeverSkips == IndexKeepsUp => (Spec => []CursorCoversHandled)
<1>1. BInv => CursorCoversHandled
  BY DEF BInv
<1>2. SUFFICES ASSUME IndexKeepsUp PROVE Spec => []CursorCoversHandled
  OBVIOUS
<1>3. BInv /\ [Next]_vars => BInv'
  BY <1>2, BInvNext
<1>4. QED
  BY <1>1, <1>3, BInvInit, PTL DEF Spec

-----------------------------------------------------------------------------
(* The blacklist: what a run does by its list does not depend on the index. *)

IsRun == run = [stage |-> run.stage, to |-> run.to, time |-> run.time,
                untrust |-> run.untrust, trust |-> run.trust, banned |-> run.banned,
                done |-> run.done, left |-> run.left]

LEMMA ListInvNext == IsRun /\ ListInv /\ [Next]_vars => IsRun' /\ ListInv'
<1> SUFFICES ASSUME IsRun, ListInv, [Next]_vars PROVE IsRun' /\ ListInv'
  OBVIOUS
<1> USE DEF worldVars, chainVars, memoryVars, history, IsRun
<1>1. ASSUME UNCHANGED <<loaded, trust, run>> PROVE IsRun' /\ ListInv'
  BY <1>1 DEF ListInv
<1>2. ASSUME run' = Idle \/ run' = Down PROVE IsRun' /\ ListInv'
  BY <1>2 DEF ListInv, Idle, Down
<1>3. CASE WorldStep
  BY <1>1, <1>3 DEF WorldStep, Mine, OrderMoves, Reorganise, BlacklistChanges
<1>4. CASE Start \/ Save
  BY <1>2, <1>4 DEF Start, Save
<1>5. CASE RunFails \/ Crash \/ BatchReportedFailed
  BY <1>2, <1>5 DEF RunFails, Crash, BatchReportedFailed, Fail, Exit
<1>6. CASE BeginRun
  <2>1. CASE run' = [Idle EXCEPT !.stage = "save", !.to = nextFrom - 1]
    BY <2>1 DEF ListInv, Idle
  <2>2. CASE ~(run' = [Idle EXCEPT !.stage = "save", !.to = nextFrom - 1])
    <3>1. PICK done : run' = [stage |-> "untrust", to |-> SafeHead, time |-> head,
                              banned |-> Banned(done, loaded'), done |-> done, left |-> {},
                              untrust |-> trust \cap Banned(done, loaded'),
                              trust |-> (done \ Banned(done, loaded')) \ trust]
      BY <1>6, <2>2 DEF BeginRun
    <3>2. trust' = trust
      BY <1>6 DEF BeginRun
    <3>3. /\ run'.stage = "untrust" /\ IsRun'
          /\ run'.untrust = trust \cap Banned(done, loaded')
          /\ run'.trust = (done \ Banned(done, loaded')) \ trust
      BY <3>1
    <3>4. /\ trust \cap loaded' \subseteq run'.untrust
          /\ run'.trust \cap loaded' = {}
      BY <3>3 DEF Banned
    <3>5. QED
      BY <3>2, <3>3, <3>4 DEF ListInv
  <2>3. QED
    BY <2>1, <2>2
<1>7. CASE UntrustBatch
  <2>1. /\ run.stage = "untrust" /\ trust' = trust \ run.untrust /\ loaded' = loaded
        /\ run' = [run EXCEPT !.stage = "trust"]
    BY <1>7 DEF UntrustBatch
  <2>2. IsRun' /\ run'.stage = "trust" /\ run'.trust = run.trust
    BY <2>1
  <2>3. QED
    BY <2>1, <2>2 DEF ListInv
<1>8. CASE TrustBatch
  <2>1. /\ run.stage = "trust" /\ trust' = trust \cup run.trust /\ loaded' = loaded
        /\ run' = [run EXCEPT !.stage = "pending"]
    BY <1>8 DEF TrustBatch
  <2>2. IsRun' /\ run'.stage = "pending"
    BY <2>1
  <2>3. QED
    BY <2>1, <2>2 DEF ListInv
<1>9. CASE FindPending
  <2>1. run.stage = "pending" /\ UNCHANGED <<trust, loaded>>
    BY <1>9 DEF FindPending
  <2>2. PICK left : run' = [run EXCEPT !.stage = "reconcile", !.left = left]
    BY <1>9 DEF FindPending
  <2>3. IsRun' /\ run'.stage = "reconcile"
    BY <2>2
  <2>4. QED
    BY <2>1, <2>3 DEF ListInv
<1>10. CASE ReconcileProcess
  <2>1. run.stage = "reconcile" /\ UNCHANGED <<trust, loaded>>
    BY <1>10 DEF ReconcileProcess
  <2>2. PICK left : run' = [run EXCEPT !.left = left]
    BY <1>10 DEF ReconcileProcess
  <2>3. IsRun' /\ run'.stage = "reconcile"
    BY <2>1, <2>2
  <2>4. QED
    BY <2>1, <2>3 DEF ListInv
<1>11. CASE RunEnds
  <2>1. run' = [run EXCEPT !.stage = "save"]
    BY <1>11 DEF RunEnds
  <2>2. IsRun' /\ run'.stage = "save"
    BY <2>1
  <2>3. QED
    BY <2>2 DEF ListInv
<1>12. CASE UNCHANGED vars
  BY <1>1, <1>12 DEF vars
<1>13. QED
  BY <1>3, <1>4, <1>5, <1>6, <1>7, <1>8, <1>9, <1>10, <1>11, <1>12 DEF Next, WorkerStep

\* Once a run has untrusted and trusted, no trustee is on the list that it
\* loaded, however far the index is behind (logic.ts:211-240).
THEOREM BlacklistedGo == Spec => []RunUntrustsBlacklisted
<1>1. Init => IsRun /\ ListInv
  BY DEF Init, IsRun, ListInv, Idle, Down
<1>2. ListInv => RunUntrustsBlacklisted
  BY DEF ListInv, RunUntrustsBlacklisted
<1>3. QED
  BY <1>1, <1>2, ListInvNext, PTL DEF Spec
=============================================================================
