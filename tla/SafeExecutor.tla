---------------------------- MODULE SafeExecutor -----------------------------
(***************************************************************************)
(* SafeTransactionExecutor (src/src/services/safeTransactionExecutor.ts)   *)
(* and the callers that run a batch operation through it, some of which    *)
(* try again when it fails (gnosis-group and gp-crc, logic.ts).            *)
(*                                                                         *)
(* Each call of execute() waits for the one before it, reads the Safe's    *)
(* nonce, signs, estimates, sends once and waits for the receipt.  The     *)
(* Safe executes a transaction only with the nonce that is next.           *)
(*                                                                         *)
(* External: the Safe contract, the mempool, and other processes that use  *)
(* the same Safe.  Hazards names what the environment may do.              *)
(***************************************************************************)
EXTENDS Integers, Sequences

CONSTANTS
    Callers,       \* batch operations, run concurrently in one process
    MaxAttempts,   \* how often a caller tries: *_BATCH_MAX_ATTEMPTS, 1 for most
    MaxRaces,      \* MAX_NONCE_RACE_RETRIES
    MaxForeign,    \* bound: transactions of other processes
    Hazards

AllHazards == {"estimateFails",   \* the node cannot estimate, for any reason
               "unsent",          \* executeTransaction throws, nothing was sent
               "answerLost",      \* ... or it was sent
               "timeout",         \* the receipt comes later than the timeout, or never
               "reverts"}         \* the inner call fails on chain

ASSUME ExecutorAssumption ==
    /\ MaxAttempts \in Nat \ {0} /\ MaxRaces \in Nat \ {0} /\ MaxForeign \in Nat
    /\ Hazards \subseteq AllHazards

VARIABLES
    lock,       \* calls of execute() in the order of _executeLock's chain
    pc,         \* where each caller is
    tries,      \* how often the caller has called execute()
    race,       \* attempt of the create-sign-estimate cycle
    signed,     \* nonce of the signed transaction
    nonce,      \* external: the Safe's nonce
    mempool,    \* external: transactions that are not mined
    mined,      \* external: what became of the others
    executed,   \* history: how often the operation of a caller was executed
    foreign     \* counter for the bound

callVars  == <<lock, pc, tries, race, signed>>
chainVars == <<nonce, mempool, mined, executed, foreign>>
vars == <<callVars, chainVars>>

NoNonce == -1
Tx == [caller : Callers, try : 1 .. MaxAttempts, nonce : Nat]

\* Between these a call is inside _executeInner.
Inside == {"create", "estimate", "send", "wait"}

TypeOK ==
    /\ lock \in Seq(Callers)
    /\ pc \in [Callers -> Inside \cup {"idle", "queued", "failed", "done", "gaveUp"}]
    /\ tries \in [Callers -> 0 .. MaxAttempts]
    /\ race \in [Callers -> 1 .. MaxRaces]
    /\ signed \in [Callers -> Nat \cup {NoNonce}]
    /\ nonce \in Nat /\ foreign \in 0 .. MaxForeign
    /\ mempool \subseteq Tx
    /\ mined \subseteq [tx : Tx, status : {"executed", "failed"}]
    /\ executed \in [Callers -> Nat]

Init ==
    /\ lock = <<>>
    /\ pc = [c \in Callers |-> "idle"] /\ tries = [c \in Callers |-> 0]
    /\ race = [c \in Callers |-> 1] /\ signed = [c \in Callers |-> NoNonce]
    /\ nonce = 0 /\ mempool = {} /\ mined = {}
    /\ executed = [c \in Callers |-> 0] /\ foreign = 0

-----------------------------------------------------------------------------
(* The chain. *)

\* A transaction is mined: the Safe carries it out if its nonce is next.  An inner
\* call that fails uses the nonce up as well, or, in newer Safes, makes the whole
\* transaction revert (GS013).
Mined(tx) ==
    /\ tx \in mempool
    /\ mempool' = mempool \ {tx}
    /\ \/ /\ tx.nonce = nonce
          /\ nonce' = nonce + 1
          /\ executed' = [executed EXCEPT ![tx.caller] = @ + 1]
          /\ mined' = mined \cup {[tx |-> tx, status |-> "executed"]}
       \/ /\ "reverts" \in Hazards /\ tx.nonce = nonce
          /\ nonce' = nonce + 1
          /\ mined' = mined \cup {[tx |-> tx, status |-> "failed"]}
          /\ UNCHANGED executed
       \/ /\ tx.nonce # nonce \/ "reverts" \in Hazards
          /\ mined' = mined \cup {[tx |-> tx, status |-> "failed"]}
          /\ UNCHANGED <<nonce, executed>>
    /\ UNCHANGED <<callVars, foreign>>

\* Another process uses the Safe: "separate processes won't help".
ForeignTransaction ==
    /\ foreign < MaxForeign
    /\ foreign' = foreign + 1
    /\ nonce' = nonce + 1
    /\ UNCHANGED <<callVars, mempool, mined, executed>>

-----------------------------------------------------------------------------
(* execute(). *)

\* execute() up to its await: the call joins the chain of promises.
Call(c) ==
    /\ pc[c] = "idle" \/ (pc[c] = "failed" /\ tries[c] < MaxAttempts)
    /\ pc' = [pc EXCEPT ![c] = "queued"]
    /\ tries' = [tries EXCEPT ![c] = @ + 1]
    /\ lock' = Append(lock, c)
    /\ UNCHANGED <<race, signed, chainVars>>

\* The caller gives up after its last attempt.
GiveUp(c) ==
    /\ pc[c] = "failed" /\ tries[c] = MaxAttempts
    /\ pc' = [pc EXCEPT ![c] = "gaveUp"]
    /\ UNCHANGED <<lock, tries, race, signed, chainVars>>

\* Mutant: no call waits for another.
EnterAtOnce(c) ==
    /\ pc[c] = "queued"
    /\ pc' = [pc EXCEPT ![c] = "create"]
    /\ race' = [race EXCEPT ![c] = 1]
    /\ UNCHANGED <<lock, tries, signed, chainVars>>

\* The promise of the call before is resolved.
Enter(c) ==
    /\ pc[c] = "queued" /\ Head(lock) = c
    /\ pc' = [pc EXCEPT ![c] = "create"]
    /\ race' = [race EXCEPT ![c] = 1]
    /\ UNCHANGED <<lock, tries, signed, chainVars>>

\* Mutant: the lock is released only by a call that succeeds.
LeaveOnSuccess(c, result) ==
    /\ pc' = [pc EXCEPT ![c] = result]
    /\ lock' = IF result = "done" THEN SelectSeq(lock, LAMBDA d : d # c) ELSE lock

\* finally: the next call may enter, whatever the result.
Leave(c, result) ==
    /\ pc' = [pc EXCEPT ![c] = result]
    /\ lock' = Tail(lock)

\* createTransaction and signTransaction: the nonce is read from the Safe.
Create(c) ==
    /\ pc[c] = "create"
    /\ pc' = [pc EXCEPT ![c] = "estimate"]
    /\ signed' = [signed EXCEPT ![c] = nonce]
    /\ UNCHANGED <<lock, tries, race, chainVars>>

\* estimateExecutionGasLimit: a nonce that has been used up shows as GS026, and
\* the cycle starts again, up to MaxRaces times in all.
Estimate(c) ==
    /\ pc[c] = "estimate"
    /\ \/ /\ signed[c] = nonce
          /\ pc' = [pc EXCEPT ![c] = "send"]
          /\ UNCHANGED <<lock, race>>
       \/ /\ signed[c] # nonce /\ race[c] < MaxRaces
          /\ pc' = [pc EXCEPT ![c] = "create"]
          /\ race' = [race EXCEPT ![c] = @ + 1]
          /\ UNCHANGED lock
       \/ /\ (signed[c] # nonce /\ race[c] = MaxRaces) \/ "estimateFails" \in Hazards
          /\ Leave(c, "failed")
          /\ UNCHANGED race
    /\ UNCHANGED <<tries, signed, chainVars>>

TxOf(c) == [caller |-> c, try |-> tries[c], nonce |-> signed[c]]

\* Mutant: a lost answer leads to a new transaction of the same call.
SendAgain(c) ==
    /\ pc[c] = "send"
    /\ mempool' = mempool \cup {TxOf(c)}
    /\ \/ pc' = [pc EXCEPT ![c] = "wait"] /\ UNCHANGED lock
       \/ /\ "answerLost" \in Hazards
          /\ pc' = [pc EXCEPT ![c] = "create"] /\ UNCHANGED lock
    /\ UNCHANGED <<tries, race, signed, nonce, mined, executed, foreign>>

\* executeTransaction, once.
Send(c) ==
    /\ pc[c] = "send"
    /\ \/ mempool' = mempool \cup {TxOf(c)} /\ pc' = [pc EXCEPT ![c] = "wait"] /\ UNCHANGED lock
       \/ /\ "answerLost" \in Hazards
          /\ mempool' = mempool \cup {TxOf(c)} /\ Leave(c, "failed")
       \/ "unsent" \in Hazards /\ UNCHANGED mempool /\ Leave(c, "failed")
    /\ UNCHANGED <<tries, race, signed, nonce, mined, executed, foreign>>

\* waitForTransaction, and ensureSuccessfulReceipt.
Receipt(c) ==
    /\ pc[c] = "wait"
    /\ \E m \in mined :
        /\ m.tx = TxOf(c)
        /\ Leave(c, IF m.status = "executed" THEN "done" ELSE "failed")
    /\ UNCHANGED <<tries, race, signed, chainVars>>

\* TransactionConfirmationTimeoutError: the transaction may be mined later.
TimesOut(c) ==
    /\ "timeout" \in Hazards
    /\ pc[c] = "wait"
    /\ Leave(c, "failed")
    /\ UNCHANGED <<tries, race, signed, chainVars>>

-----------------------------------------------------------------------------
Settled(c) == pc[c] \in {"done", "gaveUp"}

Step(c) == \/ Call(c) \/ GiveUp(c) \/ Enter(c) \/ Create(c) \/ Estimate(c)
           \/ Send(c) \/ Receipt(c) \/ TimesOut(c)

\* Every caller has settled and nothing is pending.
Ended == (\A c \in Callers : Settled(c)) /\ mempool = {} /\ UNCHANGED vars

Next == \/ \E c \in Callers : Step(c)
        \/ \E tx \in mempool : Mined(tx)
        \/ ForeignTransaction
        \/ Ended

\* Requests are answered and timers fire.  Nothing makes a transaction be mined.
Spec == Init /\ [][Next]_vars
FairSpec == Spec /\ \A c \in Callers : WF_vars(Step(c))

-----------------------------------------------------------------------------
(* Properties. *)

\* At most one call is past the await of the lock, and it is the first of the
\* chain (execute's async mutex).
Serialized == \A c, d \in Callers : pc[c] \in Inside /\ pc[d] \in Inside => c = d

\* An operation that is reported as done was carried out.
DoneMeansExecuted == \A c \in Callers : pc[c] = "done" => executed[c] > 0

\* One execute() is carried out at most once, though its answer is lost or its
\* receipt comes late: it never sends twice (safeTransactionExecutor.ts:182).
ExecutedAtMostOncePerCall == \A c \in Callers : executed[c] <= tries[c]
=============================================================================
