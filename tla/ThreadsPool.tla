---------------------------- MODULE ThreadsPool ----------------------------
(***************************************************************************)
(* The pool of the Threads backend (core/src/Threads): entry 0 is the      *)
(* process, the others are spawned workers, and rank counts the other way  *)
(* round.  Every synchronization goes through one word per thread, its     *)
(* m_pool_state, which each thread writes for itself and others write to   *)
(* wake it.  A dispatch stores the function, activates all entries, runs   *)
(* it on entry 0 too, and is over when entry 0 has seen its fan-in tree    *)
(* become inactive.                                                        *)
(*                                                                         *)
(* hwloc is not there: a worker takes the entry that it is told.           *)
(***************************************************************************)
EXTENDS Integers, Sequences, FiniteSetsExt

CONSTANTS
    PoolSize,    \* s_thread_pool_size[0], more than 1
    Launches,    \* what the program dispatches: records of the pattern's kind,
                 \* whether its schedule is dynamic, its length in items, or in
                 \* teams if team is not 0 but their size, its chunk, and need:
                 \* what it asks of resize_scratch
    Leftover     \* what an uninitialized m_work_range may hold

VARIABLES
    state,       \* m_pool_state of each entry
    function,    \* s_current_function with its argument
    size,        \* m_scratch_reduce_end and the rest of m_scratch_thread_end
    scratch,     \* the sizes that each entry allocated
    mem,         \* reduce_memory of each entry: the value, and scan's copy
    range,       \* m_work_range
    index,       \* m_team_work_index
    thread,      \* where each thread is, with its locals
    worked       \* how often the functor was called for each item

vars == <<state, function, size, scratch, mem, range, index, thread, worked>>

Entries == 0 .. PoolSize - 1
Workers == 1 .. PoolSize - 1
Rank(e) == PoolSize - (e + 1)

\* The other values of s_current_function, and the resize of finalize.
None == [kind |-> "none"]
Noop == [kind |-> "noop", need |-> [reduce |-> 1, shared |-> 1]]
Touch == [kind |-> "touch"]
Final == [kind |-> "final", need |-> [reduce |-> 0, shared |-> 0]]

UpTo(a, b) == IF a < b THEN a ELSE b
Ceil(a, b) == (a + b - 1) \div b
Empty(r) == r[1] >= r[2]

\* All empty ranges are alike: none is ever claimed from or filled again.
Left(r) == IF Empty(r) THEN <<0, 0>> ELSE r

Sum(items) == MapThenSumSet(LAMBDA k : 10^k, items)

-----------------------------------------------------------------------------
\* Partition of the work and of the threads.

\* RangePolicy::WorkRange: equal parts, rounded up to the chunk size.
WorkRange(l, rank) ==
    LET part == Ceil(Ceil(l.length, PoolSize), l.chunk) * l.chunk
    IN  <<UpTo(part * rank, l.length), UpTo(part * (rank + 1), l.length)>>

\* set_work_range: the chunks that begin in [first, last).
SetWorkRange(first, last, chunk) ==
    LET begin == Ceil(first, chunk)
    IN  <<begin, IF last > 0 THEN Ceil(last, chunk) ELSE begin>>

Part(l, e) == LET w == WorkRange(l, Rank(e)) IN w[1] .. w[2] - 1
ItemsOf(l, k) == k * l.chunk .. UpTo((k + 1) * l.chunk, l.length) - 1

\* team_alloc of the policy, and the number of teams in the pool.
Alloc(l) == PoolSize \div (PoolSize \div l.team)
Teams(l) == PoolSize \div Alloc(l)
TeamRev(l, e) == e % Alloc(l)
TeamBase(l, e) == (e \div Alloc(l)) * Alloc(l)

\* The entry is behind the last team: the member's constructor returns early.
Outside(l, e) == e \div Alloc(l) >= Teams(l)

\* m_invalid_thread.
Idle(l, e) ==
    \/ Outside(l, e)
    \/ IF Alloc(l) > l.team THEN TeamRev(l, e) >= l.team
                            ELSE PoolSize - Teams(l) * l.team > Rank(e)

\* m_league_rank and m_league_end of an entry's team.
LeaguePart(l, e) ==
    LET r == Teams(l) - (e \div Alloc(l) + 1)
    IN  <<(l.length * r) \div Teams(l), (l.length * (r + 1)) \div Teams(l)>>

\* Only parallel_for has a dynamic loop over the league.
Fetches(l) == l.dynamic /\ l.kind = "for"

-----------------------------------------------------------------------------
\* The fan-in trees.

\* fan_size, for the entry rev of a tree over size entries.
FanSize(rev, n) == Max({f \in 0 .. n : rev % 2^f = 0 /\ (f = 0 \/ rev + 2^(f - 1) < n)})

Fan(base, rev, n) == [i \in 1 .. FanSize(rev, n) |-> base + rev + 2^(i - 1)]

\* A synchronization is at the pool or ("next" and "read") at a team.
AtTeam(op) == op \in {"next", "read"}
Ops == {"fanin", "reduce", "barrier", "scan"}
Meets(op) == op \notin {"fanin", "reduce"}

\* The entries that e waits for.
Children(l, op, e) ==
    IF AtTeam(op) THEN Fan(TeamBase(l, e), TeamRev(l, e), l.team) ELSE Fan(0, e, PoolSize)

IsRoot(l, op, e) == IF AtTeam(op) THEN TeamRev(l, e) = 0 ELSE e = 0

ReleasesFromTheTop(l, op, e) ==
    CASE op = "barrier" -> IF e = 0 THEN [k \in 1 .. PoolSize |-> k - 1] ELSE <<>>
      [] ~Meets(op)     -> <<>>
      [] OTHER          -> Children(l, op, e)

\* The entries that e sets active again, in this order: the root of a barrier
\* all of them, by rank; in the others every parent its children.
Releases(l, op, e) ==
    CASE op = "barrier" -> IF e = 0 THEN [k \in 1 .. PoolSize |-> PoolSize - k] ELSE <<>>
      [] ~Meets(op)     -> <<>>
      [] OTHER          -> Children(l, op, e)

\* The function of a launch: what exec() of its pattern does, in order.
Plan(l) ==
    IF l.team = 0
    THEN CASE l.kind = "scan" -> <<"work", "scan", "final", "fanin">>
           [] l.dynamic -> <<"range", "barrier", "chunks", IF l.kind = "for" THEN "fanin" ELSE "reduce">>
           [] OTHER     -> <<"work", IF l.kind = "for" THEN "fanin" ELSE "reduce">>
    ELSE (IF l.dynamic THEN <<"member", "barrier">> ELSE <<"member">>)
         \o (IF l.kind = "for" THEN <<"teams", "barrier", "fanin">> ELSE <<"teams", "reduce">>)

-----------------------------------------------------------------------------
\* The steps of a function on one entry.

Gone == [pc |-> "gone"]

Called(l) ==
    [pc |-> "step", l |-> l, pos |-> 1, op |-> "none", i |-> 0, league |-> 0, end |-> 0,
     old |-> <<0, 0>>, target |-> 0, stealing |-> FALSE]

\* t goes to position p of its plan, or returns.
At(t, p) ==
    IF p > Len(Plan(t.l)) THEN [pc |-> "return"]
    ELSE [t EXCEPT !.pos = p, !.i = 0, !.op = Plan(t.l)[p],
                   !.pc = IF Plan(t.l)[p] \in Ops THEN "gather" ELSE "step"]

Doing(e, phase) == thread[e].pc = "step" /\ Plan(thread[e].l)[thread[e].pos] = phase

\* The functor is called for the items; a reduction adds them up.
Work(e, items) ==
    /\ worked' = [k \in DOMAIN worked |-> IF k \in items THEN worked[k] + 1 ELSE worked[k]]
    /\ mem' = [mem EXCEPT ![e].value = IF thread[e].l.kind = "for" THEN @ ELSE @ + Sum(items)]

\* driver: call s_current_function.
Call(e) ==
    /\ thread[e].pc = "run"
    /\ function # None
    /\ thread' = [thread EXCEPT ![e] = IF function \in {Noop, Touch} THEN [pc |-> "return"]
                                       ELSE At(Called(function), 1)]
    /\ scratch' = [scratch EXCEPT ![e] = IF function = Touch THEN size ELSE @]
    /\ mem' = [mem EXCEPT ![e].value = IF function \in {Noop, Touch} \/ function.kind = "for"
                                       THEN @ ELSE 0]
    /\ UNCHANGED <<state, function, size, range, index, worked>>

\* exec_range over the static part.
StaticWork(e) ==
    /\ Doing(e, "work")
    /\ Work(e, Part(thread[e].l, e))
    /\ thread' = [thread EXCEPT ![e] = At(@, @.pos + 1)]
    /\ UNCHANGED <<state, function, size, scratch, range, index>>

\* The second pass of a scan, on top of the prefix sum.
FinalPass(e) ==
    /\ Doing(e, "final")
    /\ mem' = [mem EXCEPT ![e].value = @ + Sum(Part(thread[e].l, e))]
    /\ thread' = [thread EXCEPT ![e] = At(@, @.pos + 1)]
    /\ UNCHANGED <<state, function, size, scratch, range, index, worked>>

\* set_work_range and reset_steal_target of a dynamic range.
SetRange(e) ==
    /\ Doing(e, "range")
    /\ LET t == thread[e]
           w == WorkRange(t.l, Rank(e)) IN
       /\ range' = [range EXCEPT ![e] = Left(SetWorkRange(w[1], w[2], t.l.chunk))]
       /\ thread' = [thread EXCEPT ![e] =
              At([t EXCEPT !.target = (Rank(e) + 1) % PoolSize, !.stealing = FALSE], t.pos + 1)]
    /\ UNCHANGED <<state, function, size, scratch, mem, index, worked>>

SkipsBarrier(t, e) == t.pos + (IF t.l.dynamic /\ Outside(t.l, e) THEN 2 ELSE 1)

\* The constructor of a team member; a thread outside the teams leaves it
\* before the barrier of the dynamic schedule.
MakeMember(e) ==
    /\ Doing(e, "member")
    /\ LET t == thread[e]
           w == LeaguePart(t.l, e)
           idle == Idle(t.l, e) IN
       /\ range' = [range EXCEPT ![e] = IF ~idle /\ TeamRev(t.l, e) = 0
                                        THEN Left(SetWorkRange(w[1], w[2], t.l.chunk)) ELSE @]
       /\ thread' = [thread EXCEPT ![e] =
              At([t EXCEPT !.league = IF idle \/ Fetches(t.l) THEN 0 ELSE w[1],
                           !.end = IF idle \/ Fetches(t.l) THEN 0 ELSE w[2],
                           !.target = IF e + t.l.team >= PoolSize THEN 0 ELSE e + t.l.team,
                           !.stealing = FALSE],
                 SkipsBarrier(t, e))]
    /\ UNCHANGED <<state, function, size, scratch, mem, index, worked>>

\* valid_static, valid_dynamic: work on the next league rank, fetch a chunk of
\* them (the team's root) or wait for it, or leave the loop.
NextLeagueRank(e) ==
    /\ Doing(e, "teams")
    /\ LET t == thread[e]
           sync(op) == [t EXCEPT !.pc = "gather", !.op = op, !.i = 0] IN
       IF t.league < t.end
       THEN /\ Work(e, {t.league})
            /\ thread' = [thread EXCEPT ![e] = sync("next")]
       ELSE /\ UNCHANGED <<worked, mem>>
            /\ thread' = [thread EXCEPT ![e] =
                   CASE Idle(t.l, e) \/ ~Fetches(t.l) -> At(t, t.pos + 1)
                     [] TeamRev(t.l, e) = 0 -> [t EXCEPT !.pc = "fetch"]
                     [] OTHER -> sync("read")]
    /\ UNCHANGED <<state, function, size, scratch, range, index>>

-----------------------------------------------------------------------------
\* get_work_index: from the front of the own range until it is empty, then
\* from the back of the others'.  The two ends of a range only approach each
\* other, so a torn load is like an old one and makes the exchange fail.

\* The entry where the round of a thief ends, and the one after v.
Stop(l, e) == IF l.team = 0 THEN Rank(e) ELSE e
Following(l, v) ==
    IF l.team = 0 THEN (v + 1) % PoolSize
    ELSE IF v + Alloc(l) < PoolSize THEN v + Alloc(l) ELSE 0

Fetching(e) == Doing(e, "chunks") \/ thread[e].pc = "fetch"

\* Work index k, or -1, is what get_work_index returns to e.  Locals that are
\* not used again are reset, to keep the states few.
Got(e, t, k) ==
    LET u == IF k = -1 THEN [t EXCEPT !.old = <<0, 0>>, !.target = 0, !.stealing = FALSE]
             ELSE [t EXCEPT !.old = <<0, 0>>] IN
    IF t.l.team = 0
    THEN /\ IF k = -1 THEN UNCHANGED <<worked, mem>> ELSE Work(e, ItemsOf(t.l, k))
         /\ thread' = [thread EXCEPT ![e] =
                           IF k = -1 THEN At(u, t.pos + 1) ELSE [u EXCEPT !.pc = "step"]]
         /\ UNCHANGED index
    ELSE /\ index' = [index EXCEPT ![e] = k]
         /\ thread' = [thread EXCEPT ![e] = [u EXCEPT !.pc = "gather", !.op = "read", !.i = 0]]
         /\ UNCHANGED <<worked, mem>>

\* Load the own range.
LoadOwn(e) ==
    /\ Fetching(e) /\ ~thread[e].stealing
    /\ thread' = [thread EXCEPT ![e] = IF Empty(range[e]) THEN [@ EXCEPT !.stealing = TRUE]
                                       ELSE [@ EXCEPT !.pc = "claim", !.old = range[e]]]
    /\ UNCHANGED <<state, function, size, scratch, mem, range, index, worked>>

\* get_steal_target, and the load of the range that it finds.
LoadTarget(e) ==
    /\ Fetching(e) /\ thread[e].stealing
    /\ LET t == thread[e]
           r == range[t.target] IN
       IF t.target = Stop(t.l, e) THEN Got(e, t, -1)
       ELSE /\ thread' = [thread EXCEPT ![e] =
                   IF Empty(r) THEN [t EXCEPT !.target = Following(t.l, t.target)]
                   ELSE [t EXCEPT !.pc = "claim", !.old = r]]
            /\ UNCHANGED <<worked, mem, index>>
    /\ UNCHANGED <<state, function, size, scratch, range>>

ClaimsBlindly(e) ==
    /\ thread[e].pc = "claim"
    /\ LET t == thread[e]
           v == IF t.stealing THEN t.target ELSE e IN
       /\ range' = [range EXCEPT ![v] = Left(IF t.stealing THEN <<t.old[1], t.old[2] - 1>>
                                             ELSE <<t.old[1] + 1, t.old[2]>>)]
       /\ Got(e, t, IF t.stealing THEN t.old[2] - 1 ELSE t.old[1])
    /\ UNCHANGED <<state, function, size, scratch>>

\* The compare-and-exchange of get_work_index_begin and get_work_index_end.
Claim(e) ==
    /\ thread[e].pc = "claim"
    /\ LET t == thread[e]
           v == IF t.stealing THEN t.target ELSE e
           again == IF t.l.team = 0 THEN "step" ELSE "fetch" IN
       IF range[v] = t.old
       THEN /\ range' = [range EXCEPT ![v] = Left(IF t.stealing THEN <<@[1], @[2] - 1>>
                                                  ELSE <<@[1] + 1, @[2]>>)]
            /\ Got(e, t, IF t.stealing THEN t.old[2] - 1 ELSE t.old[1])
       ELSE /\ thread' = [thread EXCEPT ![e] =
                   IF Empty(range[v])
                   THEN [t EXCEPT !.pc = again, !.stealing = TRUE, !.old = <<0, 0>>]
                   ELSE [t EXCEPT !.old = range[v]]]
            /\ UNCHANGED <<range, worked, mem, index>>
    /\ UNCHANGED <<state, function, size, scratch>>

-----------------------------------------------------------------------------
\* The synchronizations.

\* What e goes on with once it has set all those active that it releases.
Finished(t, e) ==
    IF t.i < Len(Releases(t.l, t.op, e)) THEN t
    ELSE IF t.op = "next" THEN [t EXCEPT !.pc = "step", !.league = @ + 1]
    ELSE IF t.op = "read"
    THEN LET k == index[TeamBase(t.l, e)] IN
         IF k = -1 THEN At(t, t.pos + 1)
         ELSE [t EXCEPT !.pc = "step", !.league = k * t.l.chunk,
                        !.end = UpTo((k + 1) * t.l.chunk, t.l.length)]
    ELSE At(t, t.pos + 1)

\* Spin until the next child is not active; a reduction joins its value.
Gather(e) ==
    /\ thread[e].pc = "gather"
    /\ LET t == thread[e]
           kids == Children(t.l, t.op, e) IN
       /\ t.i < Len(kids)
       /\ state[kids[t.i + 1]] # "Active"
       /\ thread' = [thread EXCEPT ![e].i = @ + 1]
       /\ mem' = [mem EXCEPT ![e].value = IF t.op = "reduce" THEN @ + mem[kids[t.i + 1]].value
                                          ELSE @]
    /\ UNCHANGED <<state, function, size, scratch, range, index, worked>>

\* All children have been seen; in scan_small, copy the value, and at the root
\* make it the sum of the ranks before, for every rank.  Then wait for the
\* release, or (the root) begin it, or go on if nobody waits in this one.
Arrive(e) ==
    /\ thread[e].pc = "gather"
    /\ LET t == thread[e]
           waits == Meets(t.op) /\ ~IsRoot(t.l, t.op, e)
           copied == [mem EXCEPT ![e].copy = mem[e].value]
           prefix(d) == MapThenSumSet(LAMBDA x : copied[x].copy,
                                      {x \in Entries : Rank(x) < Rank(d)}) IN
       /\ t.i = Len(Children(t.l, t.op, e))
       /\ state' = [state EXCEPT ![e] = IF waits THEN "Rendezvous" ELSE @]
       /\ thread' = [thread EXCEPT ![e] = IF waits THEN [t EXCEPT !.pc = "held"]
                                          ELSE Finished([t EXCEPT !.pc = "release", !.i = 0], e)]
       /\ mem' = IF t.op # "scan" THEN mem
                 ELSE IF waits THEN copied
                 ELSE [d \in Entries |-> [value |-> prefix(d), copy |-> prefix(d) + copied[d].copy]]
    /\ UNCHANGED <<function, size, scratch, range, index, worked>>

\* Spin until somebody has set this thread's state.
Held(e) ==
    /\ thread[e].pc = "held"
    /\ state[e] # "Rendezvous"
    /\ thread' = [thread EXCEPT ![e] = Finished([@ EXCEPT !.pc = "release", !.i = 0], e)]
    /\ UNCHANGED <<state, function, size, scratch, mem, range, index, worked>>

\* Set the next of those that wait active.
Release(e) ==
    /\ thread[e].pc = "release"
    /\ LET t == thread[e] IN
       /\ state' = [state EXCEPT ![Releases(t.l, t.op, e)[t.i + 1]] = "Active"]
       /\ thread' = [thread EXCEPT ![e] = Finished([t EXCEPT !.i = @ + 1], e)]
    /\ UNCHANGED <<function, size, scratch, mem, range, index, worked>>

-----------------------------------------------------------------------------
\* The workers: driver(), and the constructor and destructor of ThreadsExec.

\* The constructor makes the thread's state active and then tells the process.
Born(e) ==
    /\ thread[e].pc = "born"
    /\ state' = [state EXCEPT ![e] = "Active"]
    /\ \E garbage \in Leftover : range' = [range EXCEPT ![e] = garbage]
    /\ thread' = [thread EXCEPT ![e] = [pc |-> "announce"]]
    /\ UNCHANGED <<function, size, scratch, mem, index, worked>>

AnnouncesNothing(e) ==
    /\ thread[e].pc = "announce"
    /\ thread' = [thread EXCEPT ![e] = [pc |-> "run"]]
    /\ UNCHANGED <<state, function, size, scratch, mem, range, index, worked>>

Announce(e) ==
    /\ thread[e].pc = "announce"
    /\ state' = [state EXCEPT ![0] = "Active"]
    /\ thread' = [thread EXCEPT ![e] = [pc |-> "run"]]
    /\ UNCHANGED <<function, size, scratch, mem, range, index, worked>>

\* The function has returned: deactivate.  The process goes on to the fence.
Return(e) ==
    /\ thread[e].pc = "return"
    /\ state' = [state EXCEPT ![e] = "Inactive"]
    /\ thread' = [thread EXCEPT ![e] = [pc |-> IF e = 0 THEN "fence" ELSE "wait"]]
    /\ UNCHANGED <<function, size, scratch, mem, range, index, worked>>

\* Wait for reactivation; any other state ends the driver.
Wake(e) ==
    /\ thread[e].pc = "wait"
    /\ state[e] # "Inactive"
    /\ thread' = [thread EXCEPT ![e] = [pc |-> IF state[e] = "Active" THEN "run" ELSE "exit"]]
    /\ UNCHANGED <<state, function, size, scratch, mem, range, index, worked>>

\* The destructor frees the scratch memory and tells the process.
Exit(e) ==
    /\ thread[e].pc = "exit"
    /\ thread' = [thread EXCEPT ![e] = Gone]
    /\ state' = [state EXCEPT ![e] = "Terminating", ![0] = "Terminating"]
    /\ scratch' = [scratch EXCEPT ![e] = Final.need]
    /\ UNCHANGED <<function, size, mem, range, index, worked>>

-----------------------------------------------------------------------------
\* The process: initialize, execute() of the patterns, finalize.  Its locals
\* are the pc, a loop counter i and the launch l that it prepares.

Process(pc, i, l) == [thread EXCEPT ![0] = [pc |-> pc, i |-> i, l |-> l]]

\* Where the process goes after resize_scratch.
Resized(l) ==
    CASE l = Noop  -> Process("idle", 0, None)
      [] l = Final -> Process("terminate", PoolSize - 1, None)
      [] OTHER     -> Process("launch", 0, l)

Initialize ==
    /\ thread[0].pc = "off"
    /\ function' = Noop
    /\ thread' = Process("spawn", 1, None)
    /\ UNCHANGED <<state, size, scratch, mem, range, index, worked>>

Spawn ==
    /\ thread[0].pc = "spawn"
    /\ state' = [state EXCEPT ![0] = "Inactive"]
    /\ thread' = [thread EXCEPT ![0].pc = "spawned", ![thread[0].i] = [pc |-> "born"]]
    /\ UNCHANGED <<function, size, scratch, mem, range, index, worked>>

\* The worker has announced itself.
Spawned ==
    LET i == thread[0].i + 1 IN
    /\ thread[0].pc = "spawned"
    /\ state[0] # "Inactive"
    /\ thread' = IF i < PoolSize THEN Process("spawn", i, None) ELSE Process("settle", 1, None)
    /\ UNCHANGED <<state, function, size, scratch, mem, range, index, worked>>

\* Wait for all workers to deactivate before zeroing the function.
Settle ==
    LET i == thread[0].i IN
    /\ thread[0].pc = "settle"
    /\ state[i] # "Active"
    /\ IF i + 1 < PoolSize
       THEN /\ thread' = Process("settle", i + 1, None)
            /\ UNCHANGED <<state, function>>
       ELSE /\ thread' = Process("resize", 0, Noop)
            /\ state' = [state EXCEPT ![0] = "Inactive"]
            /\ function' = None
    /\ UNCHANGED <<size, scratch, mem, range, index, worked>>

\* execute() of a pattern; only parallel_for over a range needs no scratch.
Dispatch ==
    /\ thread[0].pc = "idle"
    /\ \E l \in Launches :
        thread' = Process(IF l.kind = "for" /\ l.team = 0 THEN "launch" ELSE "resize", 0, l)
    /\ UNCHANGED <<state, function, size, scratch, mem, range, index, worked>>

Grows(need) ==
    \/ size.reduce < need.reduce \/ size.shared < need.shared
    \/ need = Final.need /\ size # need

\* resize_scratch: free the workers' scratch memory and let every thread
\* allocate its own, one after the other.
ResizeScratch ==
    LET l == thread[0].l IN
    /\ thread[0].pc = "resize"
    /\ IF Grows(l.need)
       THEN /\ size' = l.need
            /\ scratch' = [e \in Entries |-> IF e = 0 THEN scratch[0] ELSE Final.need]
            /\ function' = Touch
            /\ thread' = Process("touch", PoolSize - 1, l)
       ELSE /\ thread' = Resized(l)
            /\ UNCHANGED <<size, scratch, function>>
    /\ UNCHANGED <<state, mem, range, index, worked>>

LetTouch ==
    /\ thread[0].pc = "touch"
    /\ state' = [state EXCEPT ![thread[0].i] = "Active"]
    /\ thread' = [thread EXCEPT ![0].pc = "touched"]
    /\ UNCHANGED <<function, size, scratch, mem, range, index, worked>>

Touched ==
    LET p == thread[0] IN
    /\ p.pc = "touched"
    /\ state[p.i] # "Active"
    /\ IF p.i > 1
       THEN /\ thread' = Process("touch", p.i - 1, p.l)
            /\ UNCHANGED <<scratch, function>>
       ELSE /\ thread' = Resized(p.l)
            /\ scratch' = [scratch EXCEPT ![0] = size]
            /\ function' = None
    /\ UNCHANGED <<state, size, mem, range, index, worked>>

\* start: store the function; it throws if one is stored already.
Start ==
    /\ thread[0].pc = "launch"
    /\ function = None
    /\ function' = thread[0].l
    /\ worked' = [k \in 0 .. thread[0].l.length - 1 |-> 0]
    /\ thread' = Process("activate", PoolSize - 1, None)
    /\ UNCHANGED <<state, size, scratch, mem, range, index>>

\* Activate the threads from the last entry down, then run the function.
Activate ==
    LET i == thread[0].i IN
    /\ thread[0].pc = "activate"
    /\ state' = [state EXCEPT ![i] = "Active"]
    /\ thread' = IF i > 0 THEN Process("activate", i - 1, None)
                 ELSE [thread EXCEPT ![0] = [pc |-> "run"]]
    /\ UNCHANGED <<function, size, scratch, mem, range, index, worked>>

\* fence: the root is inactive; clear the function.  Then execute() copies the
\* result and returns; the values in the scratch memory are not read again, as
\* every pattern that uses them initializes them first.
Fence ==
    /\ thread[0].pc = "fence"
    /\ state[0] # "Active"
    /\ function' = None
    /\ thread' = Process("idle", 0, None)
    /\ worked' = <<>>
    /\ mem' = [e \in Entries |-> [value |-> 0, copy |-> 0]]
    /\ UNCHANGED <<state, size, scratch, range, index>>

Finalize ==
    /\ thread[0].pc = "idle"
    /\ thread' = Process("resize", 0, Final)
    /\ UNCHANGED <<state, function, size, scratch, mem, range, index, worked>>

\* finalize ends the workers one after the other.
Terminate ==
    /\ thread[0].pc = "terminate"
    /\ state' = [state EXCEPT ![thread[0].i] = "Terminating"]
    /\ thread' = [thread EXCEPT ![0].pc = "terminating"]
    /\ UNCHANGED <<function, size, scratch, mem, range, index, worked>>

Terminated ==
    LET i == thread[0].i IN
    /\ thread[0].pc = "terminating"
    /\ state[0] # "Inactive"
    /\ state' = [state EXCEPT ![0] = "Inactive"]
    /\ thread' = IF i > 1 THEN Process("terminate", i - 1, None) ELSE Process("off", 0, None)
    /\ UNCHANGED <<function, size, scratch, mem, range, index, worked>>

-----------------------------------------------------------------------------
Init ==
    /\ state = [e \in Entries |-> IF e = 0 THEN "Inactive" ELSE "Terminating"]
    /\ function = None
    /\ size = Final.need
    /\ scratch = [e \in Entries |-> Final.need]
    /\ mem = [e \in Entries |-> [value |-> 0, copy |-> 0]]
    /\ range = [e \in Entries |-> <<0, 0>>]
    /\ index = [e \in Entries |-> 0]
    /\ thread = [e \in Entries |-> IF e = 0 THEN [pc |-> "off", i |-> 0, l |-> None] ELSE Gone]
    /\ worked = <<>>

\* e runs the current function.
Runs(e) ==
    \/ Call(e) \/ StaticWork(e) \/ FinalPass(e) \/ SetRange(e) \/ MakeMember(e)
    \/ NextLeagueRank(e) \/ LoadOwn(e) \/ LoadTarget(e) \/ Claim(e)
    \/ Gather(e) \/ Arrive(e) \/ Held(e) \/ Release(e) \/ Return(e)

Drives(e) == Runs(e) \/ Born(e) \/ Announce(e) \/ Wake(e) \/ Exit(e)

Executes ==
    \/ Runs(0)
    \/ Spawn \/ Spawned \/ Settle \/ ResizeScratch \/ LetTouch \/ Touched
    \/ Start \/ Activate \/ Fence \/ Terminate \/ Terminated

Next == Executes \/ Initialize \/ Dispatch \/ Finalize \/ \E e \in Workers : Drives(e)

\* Every thread goes on; nobody has to call initialize, a pattern or finalize.
Spec == Init /\ [][Next]_vars /\ WF_vars(Executes) /\ \A e \in Workers : WF_vars(Drives(e))

-----------------------------------------------------------------------------
\* Types of the shared words, and the places where the threads can be.
TypeOK ==
    /\ state \in [Entries -> {"Terminating", "Inactive", "Active", "Rendezvous"}]
    /\ function \in {None, Noop, Touch} \cup Launches
    /\ size \in [reduce : Nat, shared : Nat]
    /\ scratch \in [Entries -> [reduce : Nat, shared : Nat]]
    /\ \A e \in Entries :
        /\ mem[e] \in [value : Nat, copy : Nat]
        /\ range[e] \in Nat \X Nat
        /\ index[e] \in Int
    /\ \A e \in Workers :
        thread[e].pc \in {"gone", "born", "announce", "run", "step", "fetch", "claim", "gather",
                          "held", "release", "return", "wait", "exit"}

\* "This method does not return until all dispatched functors on this device
\* have completed" (Kokkos_Threads.hpp:84-86): when fence has returned every
\* worker waits for its next activation, and nobody is about to call a
\* function that was cleared.
FenceWaitsForAll ==
    /\ thread[0].pc = "idle" =>
        \A e \in Workers : thread[e].pc = "wait" /\ state[e] = "Inactive"
    /\ \A e \in Entries : thread[e].pc = "run" => function # None

\* At the end of a dispatch the functor was called once for every item, or once
\* by every member of a team for every league rank, and a reduction has added
\* them all; the second pass of a scan begins with the sum of what is before;
\* every thread had the scratch memory that the pattern asked for.
DispatchCorrect ==
    /\ thread[0].pc = "fence" =>
        LET l == function IN
        /\ \A k \in DOMAIN worked : worked[k] = (IF l.team = 0 THEN 1 ELSE l.team)
        /\ l.kind # "for" =>
            mem[0].value = Sum(DOMAIN worked) * (IF l.team = 0 THEN 1 ELSE l.team)
    /\ \A e \in Entries : thread[e].pc = "step" =>
        LET l == thread[e].l IN
        /\ Doing(e, "final") => mem[e].value = Sum(0 .. WorkRange(l, Rank(e))[1] - 1)
        /\ l.kind # "for" \/ l.team # 0 =>
            scratch[e].reduce >= l.need.reduce /\ scratch[e].shared >= l.need.shared

\* The process is in no call of the backend.
OutOfCalls == thread[0].pc \in {"off", "idle"}
=============================================================================
