----------------------------- MODULE EventRanges -----------------------------
(***************************************************************************)
(* How CirclesRpcService (src/src/services/circlesRpcService.ts) reads the *)
(* events of a range of blocks, for crc-backers.  The RPC answers with no  *)
(* more than a page; an answer that fills the page may be a part, and then *)
(* each half of the range is asked for, down to single blocks or to a      *)
(* depth.  fetchEventsRecursive is sequential: it always reads the first   *)
(* of the ranges that are left.                                            *)
(*                                                                         *)
(* External: the index behind the RPC, which may go on filling while it is *)
(* read, and which events it shows of those that do not fit a page.        *)
(***************************************************************************)
EXTENDS Integers, FiniteSets

CONSTANTS
    PageLimit,     \* CIRCLES_EVENTS_RESULT_LIMIT
    DepthCap,      \* MAX_EVENT_RECURSION_DEPTH
    LastBlock,     \* bound: the last block
    MaxEvents,     \* bound: events in the index
    MaxLate        \* bound: events that the index shows only while a read is on

ASSUME EventRangesAssumption ==
    /\ PageLimit \in Nat \ {0} /\ DepthCap \in Nat
    /\ {LastBlock, MaxEvents, MaxLate} \subseteq Nat

\* What 2^n means to a proof.
ASSUME PowersOfTwo ==
    2 ^ 0 = 1 /\ \A d \in 0 .. DepthCap : 2 ^ d \in Nat /\ 2 ^ (d + 1) = 2 * 2 ^ d

VARIABLES
    indexed,    \* the events that the index shows
    asked,      \* the range that the caller has asked for
    todo,       \* the ranges that are still to be read, with their depth
    found,      \* the events that are kept
    cut,        \* a range was given up at the depth cap, with a warning or within its cooldown
    atStart,    \* history: the events there were when the read began
    late        \* counter for the bound

rangeVars == <<indexed, asked, todo, found, cut, atStart, late>>

Blocks == 0 .. LastBlock
Event == [block : Blocks, index : Nat]
BlockRange == [from : Blocks, to : Blocks, depth : 0 .. DepthCap]
NotAsked == [from |-> 1, to |-> 0]

RangesTypeOK ==
    /\ {indexed, found, atStart} \subseteq SUBSET Event /\ IsFiniteSet(indexed)
    /\ asked \in [from : Blocks, to : Blocks] \cup {NotAsked}
    /\ todo \subseteq BlockRange
    /\ cut \in BOOLEAN /\ late \in Nat

Reading == asked # NotAsked

In(e, range) == e.block \in range.from .. range.to
OfBlock(b) == {e \in indexed : e.block = b}

\* Blocks of up to PageLimit events, one of them at most.
RangesInit ==
    /\ \E size \in [Blocks -> 0 .. PageLimit] :
        indexed = UNION {{[block |-> b, index |-> i] : i \in 1 .. size[b]} : b \in Blocks}
    /\ Cardinality(indexed) <= MaxEvents
    /\ asked = NotAsked /\ todo = {} /\ found = {} /\ cut = FALSE
    /\ atStart = {} /\ late = 0

-----------------------------------------------------------------------------
\* The index shows another event.
Shows == \E b \in Blocks :
    /\ Reading /\ todo # {} /\ late < MaxLate
    /\ late' = late + 1
    /\ indexed' = indexed \cup {[block |-> b, index |-> Cardinality(OfBlock(b)) + 1]}
    /\ UNCHANGED <<asked, todo, found, cut, atStart>>

\* fetchEvents: nothing is read of a range without blocks.
Ask == \E from, to \in Blocks :
    /\ todo = {}
    /\ from <= to
    /\ asked' = [from |-> from, to |-> to]
    /\ todo' = {[from |-> from, to |-> to, depth |-> 0]}
    /\ found' = {} /\ cut' = FALSE /\ atStart' = indexed
    /\ UNCHANGED <<indexed, late>>

\* An answer has all events of the range, or fills the page.
IsAnswer(page, range) ==
    LET events == {e \in indexed : In(e, range)}
    IN /\ page \subseteq events
       /\ \/ page = events /\ Cardinality(page) <= PageLimit
          \/ Cardinality(page) = PageLimit

\* Mutant: the midpoint is in neither half.
HalvesWithoutMiddle(range) ==
    LET middle == (range.from + range.to) \div 2
    IN {half \in {[from |-> range.from, to |-> middle - 1, depth |-> range.depth + 1],
                  [from |-> middle + 1, to |-> range.to, depth |-> range.depth + 1]} :
            half.from <= half.to}

\* The recursive calls: what the answer for the whole had is dropped.
Halves(range) ==
    LET middle == (range.from + range.to) \div 2
    IN {[from |-> range.from, to |-> middle, depth |-> range.depth + 1],
        [from |-> middle + 1, to |-> range.to, depth |-> range.depth + 1]}

\* fetchEventsRecursive: an answer is kept when it is not full, or when the
\* range cannot be split, or not any more.
ReadRange == \E range \in todo, page \in SUBSET indexed :
    /\ \A other \in todo : range.from <= other.from
    /\ IsAnswer(page, range)
    /\ LET full == Cardinality(page) >= PageLimit
           single == range.from >= range.to
       IN \/ /\ ~full \/ single
             /\ todo' = todo \ {range} /\ found' = found \cup page
             /\ UNCHANGED cut
          \/ /\ full /\ ~single /\ range.depth >= DepthCap
             /\ todo' = todo \ {range} /\ found' = found \cup page
             /\ cut' = TRUE
          \/ /\ full /\ ~single /\ range.depth < DepthCap
             /\ todo' = (todo \ {range}) \cup Halves(range)
             /\ UNCHANGED <<found, cut>>
    /\ UNCHANGED <<indexed, asked, atStart, late>>

\* A request fails or times out: so does the whole read.
RangeFails ==
    /\ todo # {}
    /\ asked' = NotAsked /\ todo' = {} /\ found' = {} /\ cut' = FALSE /\ atStart' = {}
    /\ UNCHANGED <<indexed, late>>

RangesNext == Shows \/ Ask \/ ReadRange \/ RangeFails

RangesSpec == RangesInit /\ [][RangesNext]_rangeVars

-----------------------------------------------------------------------------
(* Properties. *)

\* The block alone has as many events as a page.
Crowded(b) == Cardinality(OfBlock(b)) >= PageLimit

\* Every event that there was when the read began is found, or in a range that is
\* still to be read, whatever is indexed meanwhile.  One is left out only in a
\* crowded block (line 320), or when a range of more than 2^DepthCap blocks was asked
\* for and cut (line 323).
RangesAccounted ==
    \A e \in atStart : In(e, asked) =>
        \/ e \in found
        \/ \E range \in todo : In(e, range)
        \/ Crowded(e.block)
        \/ cut /\ asked.to - asked.from >= 2 ^ DepthCap
=============================================================================
