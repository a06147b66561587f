---------------------------- MODULE WorkStealing ----------------------------
(***************************************************************************)
(* The dynamic schedule of the OpenMP backend: every team sets its part of *)
(* the work (set_work_partition), the pool meets at a rendezvous, and each *)
(* team master then takes chunks from the front of its own range and, when *)
(* that is empty, from the back of the others' (get_work_stealing), until  *)
(* nothing is left.  Sources: Kokkos_HostThreadTeam.{hpp,cpp} and          *)
(* ParallelFor::execute of Kokkos_OpenMP_Parallel_For.hpp.                 *)
(*                                                                         *)
(* The threads are the team masters; the other members of a team follow    *)
(* their master (module TeamCollectives).  One action is one access to a   *)
(* shared work range.  The pool_rendezvous is the one module HostBarrier   *)
(* implements: nobody passes before everyone has arrived.                  *)
(***************************************************************************)
EXTENDS TeamLayout, FiniteSets

CONSTANTS
    Length,     \* number of work items, the length of the policy's range
    Chunk,      \* the policy's chunk size
    IntMax,     \* std::numeric_limits<int>::max()
    Regions     \* bound: number of parallel regions that follow one another

ASSUME LengthAssumption == Length \in Nat
ASSUME ChunkAssumption == Chunk \in Nat \ {0}
ASSUME IntMaxAssumption == IntMax \in Nat \ {0}
ASSUME RegionsAssumption == Regions \in Nat

VARIABLES
    pc,      \* where each master is
    first,   \* first[p], second[p]: m_work_range of p
    second,
    steal,   \* steal[p]: m_steal_rank
    w,       \* w[p]: the local pair w of get_work_stealing
    handed,  \* chunk numbers handed out in this region
    runs,    \* runs[x]: how often item x was executed in this region
    stray,   \* an item outside 0 .. Length - 1 was executed
    region   \* regions begun

vars == <<pc, first, second, steal, w, handed, runs, stray, region>>

Items == 0 .. Length - 1

\* set_work_partition: the granularity, the number of chunks, and their number
\* per team.
ChunkMin == (Length + IntMax) \div IntMax
WorkChunk == IF Chunk < ChunkMin THEN ChunkMin ELSE Chunk
Num == (Length + WorkChunk - 1) \div WorkChunk

Part == (Num + LeagueSize - 1) \div LeagueSize

\* The chunk counts above are ints and must fit; what this leaves out is a
\* range of about IntMax chunks.
ASSUME CountsFit == Num + LeagueSize - 1 <= IntMax

\* The items that get_work_partition (the static schedule) gives to p.
PartitionBegin(p) == first[p] * WorkChunk
PartitionEnd(p) ==
    IF second[p] * WorkChunk < Length THEN second[p] * WorkChunk ELSE Length

Invalid == <<-1, -1>>

Init ==
    /\ pc = [p \in Masters |-> "setfirst"]
    /\ first = [p \in Masters |-> -1]
    /\ second = [p \in Masters |-> -1]
    /\ steal = [p \in Masters |-> 0]
    /\ w = [p \in Masters |-> Invalid]
    /\ handed = {}
    /\ runs = [x \in Items |-> 0]
    /\ stray = FALSE
    /\ region = 1

\* set_work_partition writes the pair one member at a time.
SetFirst(p) ==
    /\ pc[p] = "setfirst"
    /\ first' = [first EXCEPT ![p] = Part * LeagueRank(p)]
    /\ pc' = [pc EXCEPT ![p] = "setsecond"]
    /\ UNCHANGED <<second, steal, w, handed, runs, stray, region>>

SetSecond(p) ==
    /\ pc[p] = "setsecond"
    /\ second' = [second EXCEPT ![p] = first[p] + Part]
    /\ steal' = [steal EXCEPT ![p] = NextSteal(p)]
    /\ pc' = [pc EXCEPT ![p] = "meet"]
    /\ UNCHANGED <<first, w, handed, runs, stray, region>>

MeetAlone(p) ==
    /\ pc[p] = "meet"
    /\ pc' = [pc EXCEPT ![p] = "begin"]
    /\ UNCHANGED <<first, second, steal, w, handed, runs, stray, region>>

\* pool_rendezvous: nobody passes before everyone has set its partition.
Meet(p) ==
    /\ pc[p] = "meet"
    /\ \A q \in Masters : pc[q] \notin {"setfirst", "setsecond"}
    /\ pc' = [pc EXCEPT ![p] = "begin"]
    /\ UNCHANGED <<first, second, steal, w, handed, runs, stray, region>>

\* Where the search goes when the own range has nothing: to the other teams,
\* unless a former search came back to p.
NoOwnWork(p) == IF steal[p] # p THEN "steal" ELSE "leave"

\* get_work_stealing starts: is anything left in the own range?
Begin(p) ==
    /\ pc[p] = "begin"
    /\ w' = [w EXCEPT ![p] = Invalid]
    /\ pc' = [pc EXCEPT ![p] = IF first[p] < second[p] THEN "own" ELSE NoOwnWork(p)]
    /\ UNCHANGED <<first, second, steal, handed, runs, stray, region>>

\* The compare-exchange of p on the range of q: write new if it is still w[p].
Cas(p, q, new) ==
    IF <<first[q], second[q]>> = w[p]
    THEN /\ first' = [first EXCEPT ![q] = new[1]]
         /\ second' = [second EXCEPT ![q] = new[2]]
    ELSE UNCHANGED <<first, second>>

\* atomic_compare_exchange on the own range, from the front.
TakeOwn(p) ==
    LET old == <<first[p], second[p]>>
        new == <<w[p][1] + 1, w[p][2]>>
    IN
    /\ pc[p] = "own"
    /\ Cas(p, p, new)
    /\ \/ /\ old[1] < old[2] /\ old = w[p]              \* taken
          /\ w' = [w EXCEPT ![p] = old]
          /\ pc' = [pc EXCEPT ![p] = "exec"]
          /\ handed' = handed \cup {old[1]}
       \/ /\ old[1] < old[2] /\ old # w[p]              \* try again
          /\ w' = [w EXCEPT ![p] = old]
          /\ UNCHANGED <<pc, handed>>
       \/ /\ old[1] >= old[2]                           \* not viable
          /\ w' = [w EXCEPT ![p] = Invalid]
          /\ pc' = [pc EXCEPT ![p] = NoOwnWork(p)]
          /\ UNCHANGED handed
    /\ UNCHANGED <<steal, runs, stray, region>>

StealIndexAtEnd(old) == old[2]

\* The chunk that a successful steal from the range old has removed.
StealIndex(old) == old[2] - 1

\* atomic_compare_exchange on the range of steal[p], from the back.
TakeOther(p) ==
    LET q == steal[p]
        old == <<first[q], second[q]>>
        new == <<w[p][1], w[p][2] - 1>>
    IN
    /\ pc[p] = "steal"
    /\ Cas(p, q, new)
    /\ \/ /\ old[1] < old[2] /\ old = w[p]              \* stolen
          /\ w' = [w EXCEPT ![p] = <<StealIndex(old), old[2]>>]
          /\ pc' = [pc EXCEPT ![p] = "exec"]
          /\ handed' = handed \cup {StealIndex(old)}
          /\ UNCHANGED steal
       \/ /\ old[1] < old[2] /\ old # w[p]              \* try again
          /\ w' = [w EXCEPT ![p] = old]
          /\ UNCHANGED <<pc, handed, steal>>
       \/ /\ old[1] >= old[2]                           \* move to the next team
          /\ w' = [w EXCEPT ![p] = Invalid]
          /\ steal' = [steal EXCEPT ![p] = NextSteal(q)]
          /\ pc' = [pc EXCEPT ![p] = IF NextSteal(q) # p THEN "steal" ELSE "leave"]
          /\ UNCHANGED handed
    /\ UNCHANGED <<runs, stray, region>>

\* get_work_stealing_chunk: the first item of chunk i.  The product of two ints
\* is an int: when it overflows the build may wrap it or compute it wider.
ChunkBegin(i) ==
    LET wide == WorkChunk * i
        width == 2 * (IntMax + 1)
    IN {wide, ((wide + IntMax + 1) % width) - (IntMax + 1)}

ChunkEnd(b) == IF b + WorkChunk < Length THEN b + WorkChunk ELSE Length

\* exec_range on the chunk.  The loop goes on while range.first is not negative.
Exec(p) ==
    /\ pc[p] = "exec"
    /\ \E b \in ChunkBegin(w[p][1]) :
        /\ runs' = [x \in Items |->
                     IF b <= x /\ x < ChunkEnd(b) THEN runs[x] + 1 ELSE runs[x]]
        /\ stray' = (stray \/ b < 0)
        /\ pc' = [pc EXCEPT ![p] = IF b >= 0 THEN "begin" ELSE "done"]
    /\ UNCHANGED <<first, second, steal, w, handed, region>>

\* get_work_stealing returned -1: the loop ends, and with it the region.
Leave(p) ==
    /\ pc[p] = "leave"
    /\ pc' = [pc EXCEPT ![p] = "done"]
    /\ UNCHANGED <<first, second, steal, w, handed, runs, stray, region>>

AllDone == \A p \in Masters : pc[p] = "done"

\* The next parallel region on the same pool: the ranges of this one are still
\* in the threads' data.
NextRegion ==
    /\ AllDone
    /\ region < Regions
    /\ region' = region + 1
    /\ pc' = [p \in Masters |-> "setfirst"]
    /\ handed' = {}
    /\ runs' = [x \in Items |-> 0]
    /\ UNCHANGED <<first, second, steal, w, stray>>

\* The last region is over.
Finished == AllDone /\ region = Regions /\ UNCHANGED vars

Step(p) ==
    \/ SetFirst(p) \/ SetSecond(p) \/ Meet(p) \/ Begin(p)
    \/ TakeOwn(p) \/ TakeOther(p) \/ Exec(p) \/ Leave(p)

Next == (\E p \in Masters : Step(p)) \/ NextRegion \/ Finished

Spec ==
    /\ Init /\ [][Next]_vars
    /\ \A p \in Masters : WF_vars(Step(p))
    /\ WF_vars(NextRegion)

-----------------------------------------------------------------------------
\* The states of the masters, their work ranges and the chunks handed out.
TypeOK ==
    /\ pc \in [Masters -> {"setfirst", "setsecond", "meet", "begin", "own",
                           "steal", "exec", "leave", "done"}]
    /\ first \in [Masters -> Int] /\ second \in [Masters -> Int]
    /\ steal \in [Masters -> Masters]
    /\ w \in [Masters -> Int \X Int]
    /\ handed \in SUBSET Int
    /\ runs \in [Items -> Nat]
    /\ stray \in BOOLEAN
    /\ region \in Nat

\* Everyone has set its partition in this region.
Ready == \A p \in Masters : pc[p] \notin {"setfirst", "setsecond"}

\* The chunk numbers that set_work_partition distributes.
AllChunks == 0 .. Part * LeagueSize - 1

\* p's range still offers chunk c.
Offers(p, c) == first[p] <= c /\ c < second[p]

\* No chunk is lost and none is there twice: once the partitions are set, each
\* chunk is in exactly one work range, or has been handed out and is in none,
\* however the compare-exchanges of owners and thieves interleave.
ChunksConserved ==
    Ready => \A c \in AllChunks :
        /\ c \in handed => \A p \in Masters : ~Offers(p, c)
        /\ c \notin handed => \E p \in Masters : Offers(p, c)
        /\ \A p, q \in Masters : Offers(p, c) /\ Offers(q, c) => p = q

\* get_work_stealing never returns a chunk that it returned before, to
\* whichever team.
HandsOutFreshChunks ==
    [][\A p \in Masters :
         (pc[p] # "exec" /\ pc'[p] = "exec") => handed' # handed]_vars

\* Every item of the policy's range is executed exactly once, and nothing else
\* is, when the parallel region ends; and the static schedule of the same
\* partition gives each item to one team.
EveryItemOnce ==
    /\ ~stray
    /\ \A x \in Items : runs[x] <= 1
    /\ AllDone => \A x \in Items : runs[x] = 1
    /\ (\A p \in Masters : pc[p] = "meet") =>
        \A x \in Items :
            Cardinality({p \in Masters : PartitionBegin(p) <= x /\ x < PartitionEnd(p)}) = 1
=============================================================================
