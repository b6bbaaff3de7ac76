------------------------------ MODULE PagedReads ------------------------------
(***************************************************************************)
(* Lists that the workers read page by page while they may change          *)
(* (src/src/services):                                                     *)
(*   blacklist  blacklistingService.ts         at offsets, of a total      *)
(*   users      gnosisAppUserService.ts        at offsets, oldest first    *)
(*   trustees   circlesRpcService.ts           from a row, newest first;   *)
(*              trust relations, and memberships and groups likewise       *)
(*   humans     circlesRpcService.ts           from a row, oldest first    *)
(*   members    affiliateGroupsRpcService.ts   from a cursor of the node   *)
(*                                                                         *)
(* External: the tables, the order they are read in, and the node, which   *)
(* serves the members under an old or a new method name.                   *)
(***************************************************************************)
EXTENDS Integers, FiniteSets

Readers == {"blacklist", "users", "trustees", "humans", "members"}

CONSTANTS
    Addresses,          \* as numbers, in the order of the rows at the start
    PageSize,
    MaxPages,           \* MAX_PAGES, hardPageCap or maxPages, by reader
    ErrorsBeforeCrash,
    MaxRowChanges,      \* bound: changes of the table, or of the node's method name
    MaxRequestErrors    \* bound: requests that fail

ASSUME PagedReadsAssumption ==
    /\ IsFiniteSet(Addresses) /\ Addresses = 1 .. Cardinality(Addresses)
    /\ {PageSize, ErrorsBeforeCrash} \subseteq Nat \ {0}
    /\ MaxPages \in [Readers -> Nat \ {0}]
    /\ {MaxRowChanges, MaxRequestErrors} \subseteq Nat

VARIABLES
    reader,         \* which list is read
    place,          \* where an address has its row in the table; Absent when it has none
    method,         \* the name under which the node serves the members
    resolved,       \* resolvedNames: the name that worked, or Unresolved
    status,         \* idle, reading, complete, or capped: returned without the rest
    collected,      \* what the pages so far have brought
    position,       \* the offset, or the key of the last row
    pages,
    errorsInRow,
    steady,         \* history: the addresses that have had a row ever since the read began
    shifts,         \* history: changes since that move a row into what was read already
    rowChanges, requestErrors   \* counters for the bounds

tableVars == <<reader, place, method, rowChanges>>
readVars == <<status, collected, position, pages, resolved, errorsInRow>>
pageVars == <<tableVars, readVars, steady, shifts, requestErrors>>

AtOffset == reader \in {"blacklist", "users"}
NewestFirst == reader = "trustees"
Methods == {"new", "old"}
Unresolved == "none"

Absent == 0
TopPlace == 2 * Cardinality(Addresses) + MaxRowChanges
Rows == {a \in Addresses : place[a] # Absent}

\* Before the first row of any order.
Start == IF AtOffset THEN 0 ELSE -(TopPlace + 1)

PagesTypeOK ==
    /\ reader \in Readers /\ place \in [Addresses -> Absent .. TopPlace]
    /\ method \in Methods /\ resolved \in Methods \cup {Unresolved}
    /\ status \in {"idle", "reading", "complete", "capped"}
    /\ collected \subseteq Addresses /\ steady \subseteq Addresses
    /\ position \in Int /\ pages \in 0 .. MaxPages[reader]
    /\ errorsInRow \in 0 .. ErrorsBeforeCrash - 1
    /\ {shifts, rowChanges, requestErrors} \subseteq Nat

\* Rows of the addresses up to last, in their order and with room between them.
\* Users are ordered by the block they were created in: those who share it with the
\* one before them have its place.
RowsInOrder(last, sharing) ==
    [a \in Addresses |->
        IF a > last THEN Absent
        ELSE 2 * (CHOOSE b \in Addresses \ sharing :
                    b <= a /\ \A c \in Addresses \ sharing : c <= b \/ c > a)]

PagesInit ==
    /\ reader \in Readers
    /\ \E last \in {0} \cup Addresses :
        \E sharing \in SUBSET {a \in Addresses : a <= last /\ \E b \in Addresses : b < a} :
            /\ reader # "users" => sharing = {}
            /\ place = RowsInOrder(last, sharing)
    /\ method \in (IF reader = "members" THEN Methods ELSE {"old"})
    /\ resolved = Unresolved
    /\ status = "idle" /\ collected = {} /\ position = Start /\ pages = 0 /\ errorsInRow = 0
    /\ steady = {} /\ shifts = 0 /\ rowChanges = 0 /\ requestErrors = 0

-----------------------------------------------------------------------------
(* The tables. *)

Changes == rowChanges < MaxRowChanges /\ rowChanges' = rowChanges + 1

Occupied == {place[a] : a \in Rows}

LastPlace == CHOOSE p \in Occupied \cup {Absent} : \A q \in Occupied : q <= p

\* Between two rows, before or after them, or appended: users, in a block that they
\* may share, humans and trust relations.
NewPlaces ==
    CASE reader \in {"blacklist", "members"} -> {2 * a - 1 : a \in Addresses} \ Occupied
      [] reader = "users" -> {LastPlace, LastPlace + 1} \ {Absent}
      [] OTHER -> {LastPlace + 1}

Adds(a) ==
    /\ Changes /\ a \notin Rows
    /\ \E p \in NewPlaces : place' = [place EXCEPT ![a] = p]
    /\ UNCHANGED <<reader, method, readVars, steady, shifts, requestErrors>>

\* A removal moves every row after it up by one.
Removes(a) ==
    /\ Changes /\ reader \in {"blacklist", "trustees", "members"} /\ a \in Rows
    /\ place' = [place EXCEPT ![a] = Absent]
    /\ steady' = steady \ {a}
    /\ shifts' = IF AtOffset THEN shifts + 1 ELSE shifts
    /\ UNCHANGED <<reader, method, readVars, requestErrors>>

\* A trust is renewed: its row is the newest now.
Renews(a) ==
    /\ Changes /\ NewestFirst /\ a \in Rows
    /\ \E p \in NewPlaces : place' = [place EXCEPT ![a] = p]
    /\ shifts' = shifts + 1
    /\ UNCHANGED <<reader, method, readVars, steady, requestErrors>>

\* The node is brought up to date, or back.
Renames ==
    /\ Changes /\ reader = "members"
    /\ method' \in Methods \ {method}
    /\ UNCHANGED <<reader, place, readVars, steady, shifts, requestErrors>>

TableChanges == Renames \/ \E a \in Addresses : Adds(a) \/ Removes(a) \/ Renews(a)

-----------------------------------------------------------------------------
(* A read. *)

BeginRead ==
    /\ status # "reading"
    /\ status' = "reading"
    /\ collected' = {} /\ position' = Start /\ pages' = 0
    /\ steady' = Rows /\ shifts' = 0
    /\ UNCHANGED <<tableVars, resolved, errorsInRow, requestErrors>>

Key(a) == IF NewestFirst THEN -place[a] ELSE place[a]

\* first is what comes first among some rows, up to a number; rows that share a
\* place are in any order, which may change from one answer to the next.
AreFirst(first, number, rows) ==
    /\ first \subseteq rows
    /\ Cardinality(first) = IF number < Cardinality(rows) THEN number ELSE Cardinality(rows)
    /\ \A a \in first, b \in rows \ first : Key(a) <= Key(b)

Behind == {a \in Rows : Key(a) > position}

IsPage(page) ==
    IF AtOffset
    THEN \E skipped \in SUBSET Rows : /\ AreFirst(skipped, position, Rows)
                                      /\ AreFirst(page, PageSize, Rows \ skipped)
    ELSE AreFirst(page, PageSize, Behind)

PositionOfLast(page) == CHOOSE k \in {Key(a) : a \in page} : \A a \in page : Key(a) <= k

\* Mutant: the offset stays.
PositionKept(page) == IF page = {} \/ AtOffset THEN position ELSE PositionOfLast(page)

PositionAfter(page) ==
    IF AtOffset THEN position + PageSize
    ELSE IF page = {} THEN position ELSE PositionOfLast(page)

\* The read knows that there is no more: the blacklist by the total that comes with
\* each page or a short page, users by a short page, members are told, the rest by
\* an empty page.
EndsWith(page) ==
    CASE reader = "blacklist" -> \/ Cardinality(page) < PageSize
                                 \/ position + PageSize >= Cardinality(Rows)
      [] reader = "users"     -> Cardinality(page) < PageSize
      [] reader = "members"   -> Behind \subseteq page
      [] OTHER                -> page = {}

\* callWithFallback: a name that has worked once is the only one that is tried.
Answered == reader = "members" => resolved \in {Unresolved, method}

ReadPage ==
    /\ status = "reading" /\ pages < MaxPages[reader]
    /\ Answered
    /\ \E page \in SUBSET Rows :
        /\ IsPage(page)
        /\ collected' = collected \cup page
        /\ position' = PositionAfter(page)
        /\ pages' = pages + 1
        /\ IF EndsWith(page) THEN status' = "complete" /\ errorsInRow' = 0
           ELSE UNCHANGED <<status, errorsInRow>>
    /\ resolved' = IF reader = "members" THEN method ELSE resolved
    /\ UNCHANGED <<tableVars, steady, shifts, requestErrors>>

\* The read throws, and nothing of it is used: the run ends in an error, and after
\* ErrorsBeforeCrash of them in a row the process is started again.  A worker whose
\* blacklist cannot be refreshed may go on with the list that it has.
Throws ==
    /\ status' = "idle" /\ collected' = {} /\ position' = Start /\ pages' = 0
    /\ \/ /\ errorsInRow + 1 < ErrorsBeforeCrash
          /\ errorsInRow' = errorsInRow + 1 /\ UNCHANGED resolved
       \/ /\ errorsInRow + 1 >= ErrorsBeforeCrash
          /\ errorsInRow' = 0 /\ resolved' = Unresolved
       \/ reader = "blacklist" /\ UNCHANGED <<errorsInRow, resolved>>

\* No page is asked for after the last: the blacklist's and the members' reads
\* throw, the others return what they have, with a warning.
OutOfPages ==
    /\ status = "reading" /\ pages = MaxPages[reader]
    /\ IF reader \in {"blacklist", "members"} THEN Throws
       ELSE status' = "capped" /\ errorsInRow' = 0
            /\ UNCHANGED <<collected, position, pages, resolved>>
    /\ UNCHANGED <<tableVars, steady, shifts, requestErrors>>

\* Mutant: a page that fails ends the read.
PageFailsQuietly ==
    /\ status = "reading" /\ pages < MaxPages[reader]
    /\ requestErrors < MaxRequestErrors /\ requestErrors' = requestErrors + 1
    /\ status' = "complete"
    /\ UNCHANGED <<tableVars, collected, position, pages, resolved, errorsInRow, steady, shifts>>

\* A request fails, all its retries included, or asks for a method that is gone.
PageFails ==
    /\ status = "reading" /\ pages < MaxPages[reader]
    /\ \/ requestErrors < MaxRequestErrors /\ requestErrors' = requestErrors + 1
       \/ ~Answered /\ UNCHANGED requestErrors
    /\ Throws
    /\ UNCHANGED <<tableVars, steady, shifts>>

-----------------------------------------------------------------------------
PagesStep == BeginRead \/ ReadPage \/ OutOfPages \/ (~Answered /\ PageFails)

PagesNext == PagesStep \/ PageFails \/ TableChanges

\* The workers read again and again, and requests are answered or time out.
PagesSpec == PagesInit /\ [][PagesNext]_pageVars /\ WF_pageVars(PagesStep)

-----------------------------------------------------------------------------
(* Properties. *)

\* Users that share a block have no order of their own (gnosisAppUserService.ts:46).
Tied(a) == \E b \in Rows \ {a} : place[b] = place[a]

\* A read that is complete has everyone who was listed all along, but for one row
\* for each that was removed meanwhile from a list that is read at offsets, or that
\* was renewed meanwhile in one that is read newest first
\* (blacklistingService.ts:50-66, circlesRpcService.ts:81).
NothingSteadyMissed ==
    status = "complete" => Cardinality({a \in steady \ collected : ~Tied(a)}) <= shifts

\* More than the pages hold.  A read that can tell its end only from the page that
\* comes after it needs a page more.
TooLong ==
    LET room == MaxPages[reader] * PageSize
    IN CASE reader \in {"blacklist", "members"} -> Cardinality(Rows) > room
         [] reader = "users"                    -> Cardinality(Rows) >= room
         [] OTHER                               -> Cardinality(Rows) > room - PageSize
=============================================================================
