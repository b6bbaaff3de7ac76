------------------------------- MODULE Services -------------------------------
(***************************************************************************)
(* Services that several workers use, each on its own: the executor of     *)
(* Safe transactions, the reads of event ranges and of paged lists.        *)
(***************************************************************************)
EXTENDS SafeExecutor, EventRanges, PagedReads

VARIABLE service    \* the one at work; the others stay as they begin

\* For the configuration: a blacklist or members that are too long, and reads
\* from a row that end.
MCMaxPages == [r \in Readers |-> IF r \in {"blacklist", "members"} THEN 2 ELSE 3]

servicesVars == <<service, vars, rangeVars, pageVars>>

ServicesInit ==
    /\ service \in {"executor", "events", "pages"}
    /\ Init
    /\ RangesInit
    /\ service # "events" => indexed = {}
    /\ PagesInit
    /\ service # "pages" => Rows = {} /\ reader = "humans"

ServicesNext ==
    \/ service = "executor" /\ Next /\ UNCHANGED <<service, rangeVars, pageVars>>
    \/ service = "events" /\ RangesNext /\ UNCHANGED <<service, vars, pageVars>>
    \/ service = "pages" /\ PagesNext /\ UNCHANGED <<service, vars, rangeVars>>

\* As each of the services has it.
ServicesSpec ==
    /\ ServicesInit /\ [][ServicesNext]_servicesVars
    /\ \A c \in Callers :
        WF_servicesVars(service = "executor" /\ Step(c) /\ UNCHANGED <<service, rangeVars, pageVars>>)
    /\ WF_servicesVars(service = "pages" /\ PagesStep /\ UNCHANGED <<service, vars, rangeVars>>)

-----------------------------------------------------------------------------
\* Every caller of execute() gets its result, though a transaction is never mined:
\* the timeout ends the wait, and a failed call releases the lock.
EveryCallerSettles == []<>(service = "executor" => \A c \in Callers : Settled(c))

\* Reads of paged lists are complete again and again, whatever was removed or added,
\* though requests fail and a method that was cached is gone (the error count ends
\* the process that has cached it: affiliateGroupsRpcService.ts:164), unless the
\* list is too long.
ReadsComplete == []<>(service = "pages" => status = "complete" \/ TooLong)
=============================================================================
