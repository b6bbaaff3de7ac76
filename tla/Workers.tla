------------------------------- MODULE Workers -------------------------------
(***************************************************************************)
(* One process runs one worker (src/src/main.ts): one of the smaller ones, *)
(* or gp-crc, which has its own loop and its own view of the chain (module *)
(* GpCrc).  The variables of the workers that do not run stay as they are. *)
(***************************************************************************)
EXTENDS Oic, DublinTms, Router2, GnosisGroup, NewGnosis, GpCrc

VARIABLE steady         \* history: who has been rightful ever since the run began, and
                        \* on what ground

memories == <<oicVars, nextFrom, approved, gnosisVars, backfilled>>
smallVars == <<loopVars, memories, steady>>
workersVars == <<smallVars, vars>>

-----------------------------------------------------------------------------
(* What goes wrong in a loop, and what becomes of the worker's memory. *)

ForgetAll == OicForget /\ DublinForget /\ Router2Forget /\ GnosisForget /\ NewGnosisForget

\* Something that a run needs cannot be read.
ReadFails ==
    /\ work.stage \notin {"score", "execute"}
    /\ Mishap
    /\ RunError(ForgetAll, UNCHANGED memories)
    /\ UNCHANGED <<factVars, trusted>>

ProcessCrashes ==
    /\ Mishap
    /\ ProcessEnds(ForgetAll)
    /\ UNCHANGED <<factVars, trusted>>

\* A batch that goes wrong ends the run, except in gnosis-group.
BatchFails ==
    /\ app # "gnosis-group"
    /\ BatchTrouble
    /\ RunError(ForgetAll, UNCHANGED memories)
    /\ UNCHANGED factVars

\* A batch that goes well: router2 alone remembers it.
PlainBatch ==
    /\ app # "router2"
    /\ BatchSucceeds
    /\ UNCHANGED <<memories, factVars, mishaps>>

-----------------------------------------------------------------------------
(* The workers. *)

\* A worker changes its own memory and no other's.
WorkerStep ==
    \/ OicStep /\ UNCHANGED <<nextFrom, approved, gnosisVars, backfilled>>
    \/ DublinStep /\ UNCHANGED <<oicVars, approved, gnosisVars, backfilled>>
    \/ Router2Step /\ UNCHANGED <<oicVars, nextFrom, gnosisVars, backfilled>>
    \/ GnosisStep /\ UNCHANGED <<oicVars, nextFrom, approved, backfilled>>
    \/ NewGnosisStep /\ UNCHANGED <<oicVars, nextFrom, approved, gnosisVars>>
    \/ PlainBatch
    \/ BatchFails

ScoreFails == GnosisScoreFails /\ UNCHANGED <<oicVars, nextFrom, approved, backfilled>>

Expires(h) == Expire(h) /\ UNCHANGED <<oicVars, nextFrom, approved, backfilled>>

WorldChanges == (NewBlock \/ FactChanges) /\ UNCHANGED <<trusted, work, errorCount, mishaps, memories>>

Wanted ==
    CASE app = "oic"          -> OicWanted
      [] app = "dublin-tms"   -> DublinWanted
      [] app = "router2"      -> Router2Wanted
      [] app = "gnosis-group" -> GnosisWanted
      [] app = "new-gnosis"   -> NewGnosisWanted
      [] OTHER                -> {}

Rightful == IF app = "gnosis-group" THEN GnosisRightful ELSE Wanted \X {"wanted"}

Observed == steady' = IF work'.stage = "rest" THEN Rightful' ELSE steady \cap Rightful'

SmallNext ==
    /\ app # "gp-crc"
    /\ \/ WorkerStep \/ WorldChanges \/ ReadFails \/ ScoreFails \/ ProcessCrashes
       \/ \E h \in Humans : Expires(h)
    /\ Observed
    /\ UNCHANGED vars

GpCrcNext == app = "gp-crc" /\ Next /\ UNCHANGED smallVars

WorkersInit ==
    /\ TrustLoopInit
    /\ OicInit /\ DublinInit /\ Router2Init /\ GnosisInit /\ NewGnosisInit
    /\ app = "gp-crc" => logs = {} /\ untrustable = {}
    /\ steady = Rightful
    /\ Init

\* Each loop goes on, and scores grow old.  Mishaps are bounded, so that a run
\* goes undisturbed some time.
WorkersSpec ==
    /\ WorkersInit /\ [][SmallNext \/ GpCrcNext]_workersVars
    /\ WF_workersVars(app # "gp-crc" /\ WorkerStep /\ Observed /\ UNCHANGED vars)
    /\ WF_workersVars(app = "gp-crc" /\ RunStep /\ UNCHANGED smallVars)
    /\ \A h \in Humans : WF_workersVars(Expires(h) /\ Observed /\ UNCHANGED vars)

-----------------------------------------------------------------------------
(* Properties of the smaller workers. *)

\* Nobody is untrusted who has been entitled to the trust in every state since the
\* run began, whatever failed in that run or in those before it (oic: on the
\* whitelist, or an affiliate who is vouched for; gnosis-group: on a list, or scored,
\* and not blacklisted, as far as lists and scores that were fetched before tell).
\* In gnosis-group the ground must have lasted: a run reads the lists first and the
\* scores later, and untrusts who moved from the one ground to the other in between.
RightfulKept == [][\A r \in steady : r[1] \in trusted => r[1] \in trusted']_workersVars

\* A member whom the target refuses holds up those in its batch.  A run that ends
\* with such a batch never comes to the batches after it.
HeldUp ==
    CASE app \in {"oic", "dublin-tms", "router2"} -> untrustable # {}
      [] app = "gnosis-group" -> vouched \subseteq barred \/ (untrustable # {} /\ GroupBatchSize > 1)
      [] OTHER -> FALSE

\* Once the world is at rest each worker has its target trust whom it should, and
\* oic and gnosis-group have it trust nobody else; whatever has failed, and though
\* memory is lost and scores are cached, unless a refused member holds it up.  In
\* gp-crc those are trusted for whom a safe counts, though a run saved its decision
\* and failed before it was carried out (gp-crc/logic.ts:238-239).
LoopsConverge ==
    <>[](\/ HeldUp
         \/ /\ Wanted \ untrustable \subseteq trusted
            /\ app \in {"oic", "gnosis-group"} => trusted \subseteq Wanted
            /\ app = "gp-crc" => TrustFollowsState)
=============================================================================
