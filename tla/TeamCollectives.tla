-------------------------- MODULE TeamCollectives ---------------------------
(***************************************************************************)
(* The collectives of HostThreadTeamMember                                 *)
(* (core/src/impl/Kokkos_HostThreadTeam.hpp): team_barrier, the two        *)
(* team_broadcast, team_reduce and team_scan.  They pass values through    *)
(* the threads' scratch memory, which the next collective reuses at once,  *)
(* and rely on one rendezvous each.  The rendezvous is the abstract one    *)
(* that HostBarrier implements.                                            *)
(*                                                                         *)
(* Every member runs the same program, a sequence of collectives; the      *)
(* functor chooses it, so a run starts with any program of Length calls.   *)
(***************************************************************************)
EXTENDS Rendezvous, Integers, Sequences, Functions

CONSTANTS
    TeamSize,   \* m_team_size, more than 1; Threads are 0 .. TeamSize - 1
    Length      \* bound: collectives in a program

\* The members are numbered, there are two at least, and they call something.
TeamParameters ==
    /\ TeamSize \in Nat /\ TeamSize > 1 /\ Threads = 0 .. TeamSize - 1
    /\ NoThread \notin Threads
    /\ Length \in Nat \ {0}

VARIABLES
    program,  \* the sequence of collectives every member calls
    k,        \* k[t]: the call t is in
    pc,       \* where t is in that call
    local,    \* local[t]: the two words at team_reduce_local() of t; the
              \* words of member 0 are also team_reduce()
    global,   \* the accumulator that team_scan may add to
    result    \* result[t]: what the finished calls returned to t

vars == <<in, leaving, master, program, k, pc, local, global, result>>

Calls ==
    [op : {"barrier", "reduce", "scan", "scan_global"}, source : {0}]
        \cup [op : {"broadcast", "broadcast_f"}, source : Threads]

\* What member t contributes to call n, different for every t and n.
Value(t, n) == 10 * n + t + 1

\* The closure of team_broadcast(f, value, source).
F(v) == 100 + v

Call(t) == program[k[t]]
MyValue(t) == Value(t, k[t])

Init ==
    /\ RInit
    /\ program \in [1 .. Length -> Calls]
    /\ k = [t \in Threads |-> 1]
    /\ pc = [t \in Threads |-> "deposit"]
    /\ local = [t \in Threads |-> <<0, 0>>]
    /\ global = 0
    /\ result = [t \in Threads |-> <<>>]

DepositNothing(t) ==
    /\ pc[t] = "deposit"
    /\ pc' = [pc EXCEPT ![t] = "arrive"]
    /\ UNCHANGED <<rvars, program, k, local, global, result>>

\* Non-root members copy their contribution to their own buffer.
Deposit(t) ==
    /\ pc[t] = "deposit"
    /\ local' = [local EXCEPT ![t] =
           CASE t # 0 /\ Call(t).op = "reduce" -> <<MyValue(t), @[2]>>
             [] t # 0 /\ Call(t).op \in {"scan", "scan_global"} -> <<@[1], MyValue(t)>>
             [] OTHER -> @]
    /\ pc' = [pc EXCEPT ![t] = "arrive"]
    /\ UNCHANGED <<rvars, program, k, global, result>>

\* split_arrive inside team_rendezvous.
Enter(t) ==
    /\ pc[t] = "arrive"
    /\ Arrive(t)
    /\ pc' = [pc EXCEPT ![t] = "wait"]
    /\ UNCHANGED <<program, k, local, global, result>>

\* team_rendezvous returns true to the source: everyone has arrived.
Rendezvoused(t) ==
    /\ pc[t] = "wait"
    /\ t = Call(t).source
    /\ Elect(t)
    /\ pc' = [pc EXCEPT ![t] = "combine"]
    /\ UNCHANGED <<program, k, local, global, result>>

\* team_reduce of the source: join the members' buffers into team_reduce().
Reduced(t) ==
    LET others == [u \in Threads \ {t} |-> local[u][1]]
    IN [local EXCEPT ![0][1] = MyValue(t) + SumFunction(others)]

\* team_scan of the root: local[u][1] becomes the sum of the values before u,
\* shifted by what the accumulator held.
Scanned(t, shift) ==
    LET value == [u \in Threads |-> IF u = t THEN MyValue(t) ELSE local[u][2]]
    IN [u \in Threads |->
            <<shift + SumFunctionOnSet(value, {v \in Threads : v < u}), value[u]>>]

\* The sum team_scan adds to the accumulator: the last member's two words.
ScanTotal(t) ==
    LET last == Scanned(t, 0)[TeamSize - 1] IN last[1] + last[2]

\* What the source does while it is alone.
Combine(t) ==
    LET op == Call(t).op IN
    /\ pc[t] = "combine"
    /\ local' = CASE op = "barrier" -> local
                  [] op = "broadcast" -> [local EXCEPT ![0][1] = MyValue(t)]
                  [] op = "broadcast_f" -> [local EXCEPT ![0][1] = F(MyValue(t))]
                  [] op = "reduce" -> Reduced(t)
                  [] op = "scan" -> Scanned(t, 0)
                  [] op = "scan_global" -> Scanned(t, global)
    /\ global' = IF op = "scan_global" THEN global + ScanTotal(t) ELSE global
    /\ pc' = [pc EXCEPT ![t] = "release"]
    /\ UNCHANGED <<rvars, program, k, result>>

\* team_rendezvous_release: the source goes on, the others may leave.
ReleaseTeam(t) ==
    /\ pc[t] = "release"
    /\ Release(t)
    /\ leaving' = Threads \ {t}
    /\ pc' = [pc EXCEPT ![t] = "return"]
    /\ UNCHANGED <<program, k, local, global, result>>

\* team_rendezvous returns false to the others.
Released(t) ==
    /\ pc[t] = "wait"
    /\ t # Call(t).source
    /\ Leave(t)
    /\ pc' = [pc EXCEPT ![t] = "return"]
    /\ UNCHANGED <<program, k, local, global, result>>

\* The end of the call: which word the member reads, and the next call.  The
\* source of a broadcast or a reduction keeps its own value.
Returned(t) ==
    LET op == Call(t).op IN
    CASE op = "barrier" -> 0
      [] op \in {"scan", "scan_global"} -> local[t][1]
      [] op = "broadcast" /\ t = Call(t).source -> MyValue(t)
      [] op = "broadcast_f" /\ t = Call(t).source -> F(MyValue(t))
      [] OTHER -> local[0][1]

Return(t) ==
    /\ pc[t] = "return"
    /\ result' = [result EXCEPT ![t] = Append(@, Returned(t))]
    /\ k' = [k EXCEPT ![t] = @ + 1]
    /\ pc' = [pc EXCEPT ![t] = IF k[t] = Length THEN "done" ELSE "deposit"]
    /\ UNCHANGED <<rvars, program, local, global>>

AllDone == \A t \in Threads : pc[t] = "done"

\* Every member has finished the functor.
Finished == AllDone /\ UNCHANGED vars

Step(t) ==
    \/ Deposit(t) \/ Enter(t) \/ Rendezvoused(t) \/ Combine(t)
    \/ ReleaseTeam(t) \/ Released(t) \/ Return(t)

Next == (\E t \in Threads : Step(t)) \/ Finished

Spec == Init /\ [][Next]_vars /\ \A t \in Threads : WF_vars(Step(t))

-----------------------------------------------------------------------------
\* The states of the members; each has one result per collective it has left.
TypeOK ==
    /\ in \subseteq Threads /\ leaving \subseteq Threads
    /\ master \in Threads \cup {NoThread}
    /\ program \in [1 .. Length -> Calls]
    /\ k \in [Threads -> 1 .. Length + 1]
    /\ pc \in [Threads -> {"deposit", "arrive", "wait", "combine", "release",
                           "return", "done"}]
    /\ local \in [Threads -> Nat \X Nat]
    /\ global \in Nat
    /\ \A t \in Threads : Len(result[t]) = k[t] - 1

\* The reference: what call n must return to member t, from the contributions
\* alone.
SumOf(n, members) == SumFunctionOnSet([u \in Threads |-> Value(u, n)], members)

AddedBefore(n) ==
    LET earlier == {m \in 1 .. n - 1 : program[m].op = "scan_global"}
    IN SumFunctionOnSet([m \in 1 .. Length |-> SumOf(m, Threads)], earlier)

Expected(t, n) ==
    LET op == program[n].op
        prefix == SumOf(n, {u \in Threads : u < t})
    IN CASE op = "barrier" -> 0
         [] op = "broadcast" -> Value(program[n].source, n)
         [] op = "broadcast_f" -> F(Value(program[n].source, n))
         [] op = "reduce" -> SumOf(n, Threads)
         [] op = "scan" -> prefix
         [] op = "scan_global" -> AddedBefore(n) + prefix

\* Whatever collectives follow one another in the same scratch memory, and
\* however far a fast member runs ahead, each call returns to each member the
\* broadcast value, the sum, or the exclusive prefix sum of that call
\* ("Don't overwrite shared memory until all threads arrive").
CollectivesCorrect ==
    \A t \in Threads : \A n \in 1 .. Len(result[t]) : result[t][n] = Expected(t, n)
=============================================================================
