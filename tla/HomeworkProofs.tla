--------------------------- MODULE HomeworkProofs ---------------------------
(***************************************************************************)
(* First, that the ring of homework 01 passes one token and prints the     *)
(* loops it has completed, for every number of processes and of rounds and *)
(* whatever the library buffers.                                           *)
(*                                                                         *)
(* The argument counts tokens: Got(r) is how many rank r has had, Sent(r)  *)
(* how many it has passed on.  Read in the order Got(0), Sent(0), Got(1),  *)
(* ... the numbers never increase, and the last is at most one less than   *)
(* the first, so they drop in one place: there the token is.               *)
(***************************************************************************)
EXTENDS MCHomework, WellFoundedInduction, TLAPS

Last == Size - 1

\* How often r has had the token; rank 0 starts with it.
Got(r) ==
    i[r] + (IF pc[r] \in {"isend", "waitsend"} \/ (r = 0 /\ pc[r] = "start") THEN 1 ELSE 0)

\* How often r has passed it on, or, on the last rank in the last round, kept it.
Sent(r) == i[r] + (IF pc[r] = "waitsend" THEN 1 ELSE 0)

\* The numbers drop by at most one, once round the ring.
Chain ==
    /\ \A r \in Ranks : Sent(r) <= Got(r)
    /\ \A r, s \in Ranks : r < s => Got(s) <= Sent(r)
    /\ Got(0) <= Sent(Last) + 1

\* The token is on its way from s to d.
InFlight(s, d) ==
    /\ d = Succ(s)
    /\ IF d = 0 THEN Got(d) <= Sent(s) /\ Sent(s) < N ELSE Got(d) < Sent(s)

\* The channels hold the token when it is on its way, and nothing else.
Channels ==
    \A s, d \in Ranks : chan[s][d] = IF InFlight(s, d) THEN <<Sent(s) - 1>> ELSE <<>>

\* What the position in main() says about the loop counter and the buffer.
Local(r) ==
    /\ pc[r] = "start" => i[r] = 0 /\ message[r] = 0
    /\ pc[r] \in {"isend", "waitsend", "recv"} => i[r] < N
    /\ pc[r] \in {"isend", "waitsend"} => SendsIn(r, i[r])
    /\ pc[r] = "isend" => message[r] = i[r]
    /\ pc[r] = "recv" /\ r = 0 => i[r] > 0
    /\ pc[r] \in {"finalize", "done"} => i[r] = N

\* Two or more processes: the token circulates.
Circulates == Chain /\ Channels /\ \A r \in Ranks : Local(r)

\* A single process sends nothing.
Alone ==
    /\ pc[0] \in {"start", "finalize", "done"}
    /\ chan[0][0] = <<>>

\* The inductive invariant.
RingInv ==
    /\ TypeOK
    /\ PrintsLoopCount
    /\ IF Size = 1 THEN Alone ELSE Circulates

-----------------------------------------------------------------------------
LEMMA RankFacts == 0 \in Ranks /\ Last \in Ranks /\ Ranks \subseteq Nat
  BY SizeAssumption DEF Ranks, Last

\* The neighbours without the modulus.
LEMMA Neighbours ==
  ASSUME NEW r \in Ranks
  PROVE  /\ Succ(r) \in Ranks /\ Pred(r) \in Ranks
         /\ Succ(r) = (IF r = Last THEN 0 ELSE r + 1)
         /\ Succ(Pred(r)) = r
         /\ \A s \in Ranks : Succ(s) = r => s = Pred(r)
  <1>1. \A s \in Ranks : Succ(s) = IF s = Last THEN 0 ELSE s + 1
    BY SizeAssumption DEF Succ, Ranks, Last
  <1> QED BY <1>1, SizeAssumption DEF Pred, Ranks, Last

LEMMA CountsAreNat ==
  ASSUME TypeOK, NEW r \in Ranks
  PROVE  i[r] \in Nat /\ Got(r) \in Nat /\ Sent(r) \in Nat
  <1>1. i[r] \in Nat
    BY NAssumption DEF TypeOK
  <1> QED BY <1>1 DEF Got, Sent

\* All the numbers lie in a window of two.
LEMMA Window ==
  ASSUME TypeOK, Chain, NEW r \in Ranks, NEW s \in Ranks
  PROVE  Got(r) <= Got(0) /\ Sent(Last) <= Sent(r) /\ Got(r) <= Sent(s) + 1
  <1>1. \A q \in Ranks : Got(q) \in Nat /\ Sent(q) \in Nat
    BY CountsAreNat
  <1>2. \A q \in Ranks : Got(q) <= Got(0)
    BY <1>1, RankFacts DEF Chain
  <1>3. \A q \in Ranks : Sent(Last) <= Sent(q)
    <2> SUFFICES ASSUME NEW q \in Ranks PROVE Sent(Last) <= Sent(q)
      OBVIOUS
    <2>1. q = Last \/ q < Last
      BY SizeAssumption DEF Ranks, Last
    <2>2. CASE q < Last
      BY <2>2, <1>1, RankFacts DEF Chain
    <2>3. CASE q = Last
      BY <2>3, <1>1
    <2> QED BY <2>1, <2>2, <2>3
  <1> QED BY <1>1, <1>2, <1>3, RankFacts DEF Chain

LEMMA InitRing == Init => RingInv
  <1> SUFFICES ASSUME Init PROVE RingInv
    OBVIOUS
  <1>1. TypeOK
    BY NAssumption DEF Init, TypeOK
  <1>2. PrintsLoopCount
    BY DEF Init, PrintsLoopCount
  <1>3. \A r \in Ranks : Sent(r) = 0 /\ Got(r) = IF r = 0 THEN 1 ELSE 0
    BY DEF Init, Sent, Got
  <1>4. Chain
    BY <1>3, RankFacts DEF Chain
  <1>5. Channels
    BY <1>3, RankFacts DEF Channels, InFlight, Init
  <1>6. \A r \in Ranks : Local(r)
    BY DEF Init, Local
  <1>7. Alone
    BY RankFacts DEF Alone, Init
  <1> QED BY <1>1, <1>2, <1>4, <1>5, <1>6, <1>7 DEF RingInv, Circulates

\* A step that moves no token.
LEMMA QuietStep ==
  ASSUME Chain, Channels, chan' = chan,
         \A r \in Ranks : Got(r)' = Got(r) /\ Sent(r)' = Sent(r)
  PROVE  Chain' /\ Channels'
  <1>1. Chain'
    BY RankFacts DEF Chain
  <1>2. \A s, d \in Ranks : InFlight(s, d)' = InFlight(s, d)
    BY DEF InFlight
  <1>3. Channels'
    BY <1>2 DEF Channels
  <1> QED BY <1>1, <1>3

\* A single process goes from start to done.
LEMMA StepAlone == Size = 1 /\ RingInv /\ [Next]_vars => RingInv'
  <1> SUFFICES ASSUME Size = 1, RingInv, [Next]_vars PROVE RingInv'
    OBVIOUS
  <1>0. Ranks = {0} /\ Pred(0) = 0
    BY DEF Ranks, Pred
  <1>1. TypeOK /\ PrintsLoopCount /\ Alone
    BY DEF RingInv
  <1>2. ASSUME NEW r \in Ranks, Step(r)
        PROVE  /\ pc' \in [Ranks -> {"start", "isend", "waitsend", "recv", "finalize", "done"}]
               /\ pc'[0] \in {"start", "finalize", "done"}
               /\ UNCHANGED <<i, message, chan, unmatched, printed>>
    BY <1>0, <1>1, <1>2 DEF Step, Start, Isend, WaitSend, Recv, Finalize, Alone, TypeOK
  <1>3. \/ /\ pc' \in [Ranks -> {"start", "isend", "waitsend", "recv", "finalize", "done"}]
           /\ pc'[0] \in {"start", "finalize", "done"}
           /\ UNCHANGED <<i, message, chan, unmatched, printed>>
        \/ UNCHANGED vars
    BY <1>2 DEF Next, Terminated
  <1>4. TypeOK'
    BY <1>1, <1>3 DEF TypeOK, vars
  <1>5. PrintsLoopCount'
    BY <1>1, <1>3 DEF PrintsLoopCount, vars
  <1>6. Alone'
    BY <1>1, <1>3 DEF Alone, vars
  <1> QED BY <1>4, <1>5, <1>6 DEF RingInv

\* Two or more processes pass the token on.
LEMMA StepRing == Size # 1 /\ RingInv /\ [Next]_vars => RingInv'
  <1> SUFFICES ASSUME Size # 1, RingInv, [Next]_vars PROVE RingInv'
    OBVIOUS
  <1>i. TypeOK /\ PrintsLoopCount /\ Chain /\ Channels /\ \A r \in Ranks : Local(r)
    BY DEF RingInv, Circulates
  <1> DEFINE PC == {"start", "isend", "waitsend", "recv", "finalize", "done"}
  <1>t. /\ pc \in [Ranks -> PC] /\ i \in [Ranks -> 0 .. N] /\ message \in [Ranks -> 0 .. N]
        /\ chan \in [Ranks -> [Ranks -> Seq(0 .. N)]] /\ unmatched \in [Ranks -> BOOLEAN]
        /\ printed \in [Ranks -> Seq(Nat \X Nat)]
    BY <1>i DEF TypeOK
  <1>n. \A r \in Ranks : i[r] \in Nat /\ Got(r) \in Nat /\ Sent(r) \in Nat
    BY <1>i, CountsAreNat
  <1>w. \A r, s \in Ranks : Got(r) <= Got(0) /\ Sent(Last) <= Sent(r) /\ Got(r) <= Sent(s) + 1
    BY <1>i, Window
  <1>s. Size > 1 /\ Last # 0 /\ Last > 0
    BY SizeAssumption DEF Last
  <1>1. ASSUME NEW r \in Ranks, Start(r) PROVE RingInv'
    <2>1. /\ pc[r] = "start" /\ pc' = [pc EXCEPT ![r] = LoopHead(r, 0)]
          /\ UNCHANGED <<i, message, chan, unmatched, printed>>
      BY <1>1 DEF Start
    <2>2. LoopHead(r, 0) = IF r = 0 THEN "isend" ELSE "recv"
      BY NAssumption DEF LoopHead
    <2>3. TypeOK'
      BY <2>1, <2>2, <1>t DEF TypeOK
    <2>4. PrintsLoopCount'
      BY <2>1, <1>i DEF PrintsLoopCount
    <2>5. \A s \in Ranks : Got(s)' = Got(s) /\ Sent(s)' = Sent(s)
      BY <2>1, <2>2, <1>t DEF Got, Sent
    <2>6. Chain' /\ Channels'
      BY <2>1, <2>5, <1>i, QuietStep
    <2>7. \A s \in Ranks : Local(s)'
      <3>1. i[r] = 0 /\ message[r] = 0
        BY <2>1, <1>i DEF Local
      <3>2. Local(r)'
        BY <2>1, <2>2, <3>1, <1>t, NAssumption, <1>s DEF Local, SendsIn, Last
      <3> QED BY <2>1, <3>2, <1>i, <1>t DEF Local
    <2> QED BY <2>3, <2>4, <2>6, <2>7 DEF RingInv, Circulates
  <1>2. ASSUME NEW r \in Ranks, Isend(r) PROVE RingInv'
    <2>d. PICK d \in Ranks : d = Succ(r)
      BY Neighbours
    <2>1. /\ pc[r] = "isend" /\ pc' = [pc EXCEPT ![r] = "waitsend"]
          /\ chan' = [chan EXCEPT ![r][d] = Append(@, message[r])]
          /\ unmatched' \in [Ranks -> BOOLEAN]
          /\ UNCHANGED <<i, message, printed>>
      BY <1>2, <1>t, <2>d DEF Isend
    <2>2. d = IF r = Last THEN 0 ELSE r + 1
      BY <2>d, Neighbours
    <2>3. message[r] = i[r] /\ i[r] < N /\ SendsIn(r, i[r])
      BY <2>1, <1>i DEF Local
    <2>4. /\ Got(r) = i[r] + 1 /\ Sent(r) = i[r]
          /\ Got(r)' = Got(r) /\ Sent(r)' = i[r] + 1
          /\ \A s \in Ranks : s # r => Got(s)' = Got(s) /\ Sent(s)' = Sent(s)
      BY <2>1, <1>t DEF Got, Sent
    <2>5. Chain'
      <3>1. \A s \in Ranks : s > r => Got(s) <= Sent(r)
        BY <1>i DEF Chain
      <3>2. \A s \in Ranks : Sent(s)' <= Got(s)'
        BY <2>4, <1>i, <1>n DEF Chain
      <3>3. \A s, q \in Ranks : s < q => Got(q)' <= Sent(s)'
        <4> SUFFICES ASSUME NEW s \in Ranks, NEW q \in Ranks, s < q PROVE Got(q)' <= Sent(s)'
          OBVIOUS
        <4>1. Got(q)' = Got(q) /\ Got(q) <= Sent(s) /\ Sent(s) <= Sent(s)'
          BY <2>4, <1>i, <1>n DEF Chain
        <4>2. Got(q) \in Nat /\ Sent(s) \in Nat /\ Sent(s)' \in Nat
          BY <2>4, <1>n
        <4> QED BY <4>1, <4>2
      <3>4. Got(0)' = Got(0) /\ Sent(Last) <= Sent(Last)' /\ Got(0) <= Sent(Last) + 1
            /\ Sent(Last)' \in Nat /\ Sent(Last) \in Nat /\ Got(0) \in Nat
        BY <2>4, <1>i, <1>n, RankFacts DEF Chain
      <3>5. Got(0)' <= Sent(Last)' + 1
        BY <3>4
      <3> QED BY <3>2, <3>3, <3>5 DEF Chain
    <2>6. ~InFlight(r, d) /\ InFlight(r, d)'
      <3>1. CASE r = Last
        <4>1. d = 0 /\ Got(0) >= i[r] + 1 /\ Got(0) <= i[r] + 1
          BY <3>1, <2>2, <2>4, <1>w, <1>n, RankFacts
        <4>2. i[r] + 1 < N
          BY <2>3, <3>1, <1>n, NAssumption DEF SendsIn, Last
        <4>3. Got(0)' = Got(0)
          BY <2>4, RankFacts
        <4> QED BY <4>1, <4>2, <4>3, <2>2, <2>4, <1>n, RankFacts, <2>d DEF InFlight
      <3>2. CASE r # Last
        <4>1. d = r + 1 /\ d # 0 /\ d # r /\ r < d /\ Got(d)' = Got(d)
          BY <3>2, <2>2, <2>4, RankFacts
        <4>2. Got(d) = i[r]
          <5>1. Got(d) <= Sent(r) /\ Got(r) <= Sent(d) + 1 /\ Sent(d) <= Got(d)
            BY <4>1, <1>i, <1>w DEF Chain
          <5> QED BY <5>1, <2>4, <1>n
        <4>3. ~(Got(d) < Sent(r)) /\ Got(d)' < Sent(r)'
          BY <4>1, <4>2, <2>4, <1>n
        <4> QED BY <4>1, <4>3, <2>d DEF InFlight
      <3> QED BY <3>1, <3>2
    <2>7. ASSUME NEW s \in Ranks, NEW e \in Ranks, s # r \/ e # d
          PROVE  InFlight(s, e)' = InFlight(s, e) /\ chan'[s][e] = chan[s][e]
                 /\ (InFlight(s, e) => Sent(s)' = Sent(s))
      <3>1. chan'[s][e] = chan[s][e]
        BY <2>1, <2>2, <2>7, <1>t
      <3>2. CASE s = r
        BY <3>1, <3>2, <2>7, <2>d DEF InFlight
      <3>3. CASE s # r
        <4>1. Sent(s)' = Sent(s) /\ Got(e)' = Got(e)
          BY <3>3, <2>4
        <4> QED BY <3>1, <4>1 DEF InFlight
      <3> QED BY <3>2, <3>3
    <2>8. chan'[r][d] = <<i[r]>>
      <3>1. chan[r][d] = <<>>
        BY <2>2, <2>6, <1>i DEF Channels
      <3>2. chan'[r][d] = Append(chan[r][d], message[r])
        BY <2>1, <2>2, <1>t
      <3> QED BY <3>1, <3>2, <2>3
    <2>9. Channels'
      <3> SUFFICES ASSUME NEW s \in Ranks, NEW e \in Ranks
                   PROVE  (chan[s][e] = IF InFlight(s, e) THEN <<Sent(s) - 1>> ELSE <<>>)'
        BY DEF Channels
      <3>1. CASE s = r /\ e = d
        <4>1. Sent(r)' - 1 = i[r]
          BY <2>4, <1>n
        <4> QED BY <3>1, <4>1, <2>6, <2>8
      <3>2. CASE s # r \/ e # d
        <4>1. chan[s][e] = IF InFlight(s, e) THEN <<Sent(s) - 1>> ELSE <<>>
          BY <1>i DEF Channels
        <4>2. InFlight(s, e)' = InFlight(s, e) /\ chan'[s][e] = chan[s][e]
              /\ (InFlight(s, e) => Sent(s)' = Sent(s))
          BY <3>2, <2>7
        <4>3. CASE InFlight(s, e)
          BY <4>1, <4>2, <4>3
        <4>4. CASE ~InFlight(s, e)
          BY <4>1, <4>2, <4>4
        <4> QED BY <4>3, <4>4
      <3> QED BY <3>1, <3>2
    <2>10. TypeOK'
      <3>1. message[r] \in 0 .. N /\ chan[r][d] \in Seq(0 .. N)
        BY <2>2, <1>t
      <3>2. Append(chan[r][d], message[r]) \in Seq(0 .. N)
        BY <3>1
      <3>3. chan' \in [Ranks -> [Ranks -> Seq(0 .. N)]]
        BY <2>1, <2>2, <3>2, <1>t
      <3> QED BY <2>1, <3>3, <1>t DEF TypeOK
    <2>11. PrintsLoopCount'
      BY <2>1, <1>i DEF PrintsLoopCount
    <2>12. \A s \in Ranks : Local(s)'
      BY <2>1, <2>3, <1>i, <1>t DEF Local
    <2> QED BY <2>5, <2>9, <2>10, <2>11, <2>12 DEF RingInv, Circulates
  <1>3. ASSUME NEW r \in Ranks, WaitSend(r) PROVE RingInv'
    <2>1. /\ pc[r] = "waitsend" /\ i' = [i EXCEPT ![r] = @ + 1]
          /\ pc' = [pc EXCEPT ![r] = LoopHead(r, i[r] + 1)]
          /\ UNCHANGED <<message, chan, unmatched, printed>>
      BY <1>3 DEF WaitSend
    <2>2. i[r] < N /\ i[r] + 1 \in 0 .. N
      BY <2>1, <1>i, <1>n, NAssumption DEF Local
    <2>3. /\ LoopHead(r, i[r] + 1) \in {"recv", "finalize"}
          /\ LoopHead(r, i[r] + 1) = "recv" => i[r] + 1 < N
          /\ LoopHead(r, i[r] + 1) = "finalize" => i[r] + 1 = N
      BY <2>2, <1>n, NAssumption DEF LoopHead
    <2>4. TypeOK'
      BY <2>1, <2>2, <2>3, <1>t DEF TypeOK
    <2>5. PrintsLoopCount'
      BY <2>1, <1>i DEF PrintsLoopCount
    <2>6. \A s \in Ranks : Got(s)' = Got(s) /\ Sent(s)' = Sent(s)
      BY <2>1, <2>3, <1>t, <1>n DEF Got, Sent
    <2>7. Chain' /\ Channels'
      BY <2>1, <2>6, <1>i, QuietStep
    <2>8. \A s \in Ranks : Local(s)'
      <3>1. Local(r)'
        BY <2>1, <2>3, <1>t, <1>n DEF Local
      <3> QED BY <2>1, <3>1, <1>i, <1>t DEF Local
    <2> QED BY <2>4, <2>5, <2>7, <2>8 DEF RingInv, Circulates
  <1>4. ASSUME NEW r \in Ranks, Recv(r) PROVE RingInv'
    <2>p. PICK p \in Ranks : p = Pred(r)
      BY Neighbours
    <2> DEFINE m == Head(chan[p][r])
    <2>1. /\ pc[r] = "recv" /\ chan[p][r] # <<>>
          /\ printed' = [printed EXCEPT ![r] = Append(@, <<i[r], m>>)]
          /\ message' = [message EXCEPT ![r] = IF r = 0 THEN m + 1 ELSE m]
          /\ chan' = [chan EXCEPT ![p][r] = Tail(@)]
          /\ unmatched' = [unmatched EXCEPT ![p] = FALSE]
          /\ IF SendsIn(r, i[r])
             THEN pc' = [pc EXCEPT ![r] = "isend"] /\ i' = i
             ELSE /\ i' = [i EXCEPT ![r] = @ + 1]
                  /\ pc' = [pc EXCEPT ![r] = LoopHead(r, i[r] + 1)]
      BY <1>4, <2>p DEF Recv, Counts
    <2>2. Succ(p) = r /\ p # r /\ (\A s \in Ranks : Succ(s) = r => s = p)
          /\ (r = 0 => p = Last) /\ (r # 0 => p < r)
      BY <2>p, Neighbours, SizeAssumption, <1>s DEF Pred, Ranks, Last
    <2>3. i[r] < N /\ (r = 0 => i[r] > 0) /\ Got(r) = i[r] /\ Sent(r) = i[r] /\ i[r] + 1 \in 0 .. N
      BY <2>1, <1>i, <1>n, NAssumption DEF Local, Got, Sent
    <2>4. InFlight(p, r) /\ chan[p][r] = <<Sent(p) - 1>>
      BY <2>1, <2>2, <1>i DEF Channels
    \* The token that comes is that of this round.
    <2>5. Sent(p) = IF r = 0 THEN i[r] ELSE i[r] + 1
      <3>1. CASE r = 0
        BY <3>1, <2>2, <2>3, <2>4, <1>w, <1>n, <1>i, RankFacts DEF InFlight, Chain
      <3>2. CASE r # 0
        <4>1. Sent(p) > i[r] /\ Sent(p) <= Got(p) /\ Got(p) <= Sent(r) + 1
          BY <3>2, <2>2, <2>3, <2>4, <1>w, <1>i DEF InFlight, Chain
        <4> QED BY <3>2, <4>1, <2>2, <2>3, <1>n
      <3> QED BY <3>1, <3>2
    <2>6. m = TokenIn(r, i[r]) /\ m \in 0 .. N /\ (IF r = 0 THEN m + 1 ELSE m) = i[r] /\ m \in Nat
      <3>1. m = Sent(p) - 1
        BY <2>4
      <3> QED BY <3>1, <2>3, <2>5, <1>n, NAssumption DEF TokenIn
    <2>7. chan'[p][r] = <<>> /\ chan' \in [Ranks -> [Ranks -> Seq(0 .. N)]]
      <3>1. Tail(chan[p][r]) = <<>>
        BY <2>4
      <3>2. <<>> \in Seq(0 .. N)
        OBVIOUS
      <3> QED BY <3>1, <3>2, <2>1, <2>2, <1>t
    <2>8. /\ Got(r)' = i[r] + 1
          /\ Sent(r)' = IF SendsIn(r, i[r]) THEN i[r] ELSE i[r] + 1
          /\ \A s \in Ranks : s # r => Got(s)' = Got(s) /\ Sent(s)' = Sent(s)
          /\ pc' \in [Ranks -> PC] /\ i' \in [Ranks -> 0 .. N]
          /\ \A s \in Ranks : s # r => pc'[s] = pc[s] /\ i'[s] = i[s] /\ message'[s] = message[s]
      <3>1. CASE SendsIn(r, i[r])
        BY <3>1, <2>1, <2>3, <1>t, <1>n DEF Got, Sent
      <3>2. CASE ~SendsIn(r, i[r])
        <4>1. i[r] + 1 = N
          BY <3>2, <1>n, NAssumption DEF SendsIn
        <4>2. LoopHead(r, i[r] + 1) = "finalize"
          BY <4>1, NAssumption DEF LoopHead
        <4>3. /\ i' = [i EXCEPT ![r] = @ + 1] /\ pc' = [pc EXCEPT ![r] = "finalize"]
              /\ message' = [message EXCEPT ![r] = IF r = 0 THEN m + 1 ELSE m]
          BY <3>2, <4>2, <2>1
        <4>4. i'[r] = i[r] + 1 /\ pc'[r] = "finalize"
          BY <4>3, <1>t
        <4>5. Got(r)' = i[r] + 1 /\ Sent(r)' = i[r] + 1
          BY <4>4, <1>n DEF Got, Sent
        <4> QED BY <3>2, <4>3, <4>5, <2>3, <1>t, <1>n DEF Got, Sent
      <3> QED BY <3>1, <3>2
    <2>9. ~SendsIn(r, i[r]) => r = Last /\ i[r] + 1 = N
      BY <1>n, NAssumption DEF SendsIn, Last
    <2>10. Chain'
      <3>1. \A s \in Ranks : Sent(s)' <= Got(s)'
        BY <2>3, <2>8, <1>i, <1>n DEF Chain
      <3>2. \A s, q \in Ranks : s < q => Got(q)' <= Sent(s)'
        <4> SUFFICES ASSUME NEW s \in Ranks, NEW q \in Ranks, s < q PROVE Got(q)' <= Sent(s)'
          OBVIOUS
        <4>0. Sent(s) \in Nat /\ Got(q) \in Nat /\ Got(q) <= Sent(s) /\ s # q
          BY <1>i, <1>n, RankFacts DEF Chain
        <4>1. CASE q = r
          <5>1. s <= p /\ r # 0
            BY <4>1, <2>p, SizeAssumption DEF Pred, Ranks
          <5>2. Sent(p) <= Sent(s)
            <6>1. s = p \/ s < p
              BY <5>1, RankFacts
            <6>2. s < p => Got(p) <= Sent(s) /\ Sent(p) <= Got(p)
              BY <2>2, <1>i DEF Chain
            <6> QED BY <6>1, <6>2, <4>0, <2>2, <1>n
          <5> QED BY <4>0, <4>1, <5>1, <5>2, <2>5, <2>8, <1>n
        <4>2. CASE q # r
          BY <4>0, <4>2, <2>3, <2>8, <1>n
        <4> QED BY <4>1, <4>2
      <3>3. Got(0)' <= Sent(Last)' + 1
        <4>0. Got(0) <= Sent(Last) + 1 /\ Got(0) \in Nat /\ Sent(Last) \in Nat
          BY <1>i, <1>n, RankFacts DEF Chain
        <4>1. CASE r = 0
          BY <4>1, <2>2, <2>3, <2>5, <2>8, <1>n, <1>s, RankFacts
        <4>2. CASE r # 0
          BY <4>0, <4>2, <2>3, <2>8, <1>n, RankFacts
        <4> QED BY <4>1, <4>2
      <3> QED BY <3>1, <3>2, <3>3 DEF Chain
    <2>11. Channels'
      <3> SUFFICES ASSUME NEW s \in Ranks, NEW e \in Ranks
                   PROVE  (chan[s][e] = IF InFlight(s, e) THEN <<Sent(s) - 1>> ELSE <<>>)'
        BY DEF Channels
      <3>1. CASE s = p /\ e = r
        <4>1. ~InFlight(p, r)'
          BY <2>2, <2>5, <2>8, <1>n DEF InFlight
        <4> QED BY <3>1, <4>1, <2>7
      <3>2. CASE s # p \/ e # r
        <4>1. chan'[s][e] = chan[s][e]
          BY <3>2, <2>1, <2>2, <1>t
        <4>2. CASE e = r
          <5>1. e # Succ(s)
            BY <3>2, <4>2, <2>2
          <5> QED BY <4>1, <5>1, <1>i DEF Channels, InFlight
        <4>3. CASE e # r /\ s # r
          <5>1. Got(e)' = Got(e) /\ Sent(s)' = Sent(s)
            BY <4>3, <2>8
          <5> QED BY <4>1, <5>1, <1>i DEF Channels, InFlight
        <4>4. CASE e # r /\ s = r /\ SendsIn(r, i[r])
          <5>1. Got(e)' = Got(e) /\ Sent(s)' = Sent(s)
            BY <4>4, <2>3, <2>8
          <5> QED BY <4>1, <5>1, <1>i DEF Channels, InFlight
        \* The last rank keeps the token: what it kept is not on its way.
        <4>5. CASE e # r /\ s = r /\ ~SendsIn(r, i[r])
          <5>1. r = Last /\ i[r] + 1 = N /\ r # 0 /\ Sent(r)' = N
            BY <4>5, <2>8, <2>9, <1>s
          <5>2. e = Succ(s) => e = 0
            BY <4>5, <5>1, Neighbours
          <5>3. Got(0) > i[r]
            <6>1. Got(0) >= Got(p) /\ Got(p) >= Sent(p) /\ Sent(p) = i[r] + 1
              BY <5>1, <2>2, <2>5, <1>w, <1>i DEF Chain
            <6> QED BY <6>1, <2>2, <1>n, RankFacts
          <5>4. ~InFlight(s, e)
            BY <4>5, <5>2, <5>3, <2>3, <1>n, RankFacts DEF InFlight
          <5>5. ~InFlight(s, e)'
            BY <4>5, <5>1, <5>2, NAssumption DEF InFlight
          <5> QED BY <4>1, <5>4, <5>5, <1>i DEF Channels
        <4> QED BY <4>2, <4>3, <4>4, <4>5
      <3> QED BY <3>1, <3>2
    <2>12. TypeOK'
      <3>1. message' \in [Ranks -> 0 .. N]
        BY <2>1, <2>3, <2>6, <1>t
      <3>2. Append(printed[r], <<i[r], m>>) \in Seq(Nat \X Nat)
        BY <2>6, <1>n, <1>t
      <3>3. printed' \in [Ranks -> Seq(Nat \X Nat)]
        BY <3>2, <2>1, <1>t
      <3>4. unmatched' \in [Ranks -> BOOLEAN]
        BY <2>1, <1>t
      <3> QED BY <3>1, <3>3, <3>4, <2>7, <2>8 DEF TypeOK
    <2>13. PrintsLoopCount'
      <3> SUFFICES ASSUME NEW s \in Ranks, NEW k \in 1 .. Len(printed'[s])
                   PROVE  printed'[s][k][2] = TokenIn(s, printed'[s][k][1])
        BY DEF PrintsLoopCount, TokenIn
      <3>1. CASE s # r
        BY <3>1, <2>1, <1>t, <1>i DEF PrintsLoopCount
      <3>2. CASE s = r
        <4>1. printed'[r] = Append(printed[r], <<i[r], m>>) /\ printed[r] \in Seq(Nat \X Nat)
          BY <2>1, <1>t
        <4>2. CASE k = Len(printed[r]) + 1
          <5>1. printed'[r][k] = <<i[r], m>>
            BY <4>1, <4>2
          <5> QED BY <3>2, <5>1, <2>6
        <4>3. CASE k # Len(printed[r]) + 1
          <5>1. k \in 1 .. Len(printed[r]) /\ printed'[r][k] = printed[r][k]
            BY <3>2, <4>1, <4>3
          <5> QED BY <3>2, <5>1, <1>i DEF PrintsLoopCount
        <4> QED BY <4>2, <4>3
      <3> QED BY <3>1, <3>2
    <2>14. \A s \in Ranks : Local(s)'
      <3>1. ASSUME NEW s \in Ranks, s # r PROVE Local(s)'
        BY <3>1, <2>8, <1>i DEF Local
      <3>2. Local(r)'
        <4>1. message'[r] = i[r]
          BY <2>1, <2>6, <1>t
        <4>2. CASE SendsIn(r, i[r])
          <5>1. pc'[r] = "isend" /\ i'[r] = i[r]
            BY <4>2, <2>1, <1>t
          <5> QED BY <4>1, <4>2, <5>1, <2>3 DEF Local
        <4>3. CASE ~SendsIn(r, i[r])
          <5>1. i'[r] = N /\ pc'[r] = "finalize"
            BY <4>3, <2>1, <2>9, <1>t, <1>n, NAssumption DEF LoopHead
          <5> QED BY <5>1 DEF Local
        <4> QED BY <4>2, <4>3
      <3> QED BY <3>1, <3>2
    <2> QED BY <2>10, <2>11, <2>12, <2>13, <2>14 DEF RingInv, Circulates
  <1>5. ASSUME NEW r \in Ranks, Finalize(r) PROVE RingInv'
    <2>1. /\ pc[r] = "finalize" /\ pc' = [pc EXCEPT ![r] = "done"]
          /\ UNCHANGED <<i, message, chan, unmatched, printed>>
      BY <1>5 DEF Finalize
    <2>2. TypeOK'
      BY <2>1, <1>t DEF TypeOK
    <2>3. PrintsLoopCount'
      BY <2>1, <1>i DEF PrintsLoopCount
    <2>4. \A s \in Ranks : Got(s)' = Got(s) /\ Sent(s)' = Sent(s)
      BY <2>1, <1>t DEF Got, Sent
    <2>5. Chain' /\ Channels'
      BY <2>1, <2>4, <1>i, QuietStep
    <2>6. \A s \in Ranks : Local(s)'
      BY <2>1, <1>i, <1>t DEF Local
    <2> QED BY <2>2, <2>3, <2>5, <2>6 DEF RingInv, Circulates
  <1>6. CASE Terminated \/ UNCHANGED vars
    <2>1. UNCHANGED <<pc, i, message, chan, unmatched, printed>>
      BY <1>6 DEF Terminated, vars
    <2>2. TypeOK' /\ PrintsLoopCount'
      BY <2>1, <1>i DEF TypeOK, PrintsLoopCount
    <2>3. \A s \in Ranks : Got(s)' = Got(s) /\ Sent(s)' = Sent(s) /\ Local(s)'
      BY <2>1, <1>i DEF Got, Sent, Local
    <2>4. Chain' /\ Channels'
      BY <2>1, <2>3, <1>i, QuietStep
    <2> QED BY <2>2, <2>3, <2>4 DEF RingInv, Circulates
  <1> QED BY <1>1, <1>2, <1>3, <1>4, <1>5, <1>6 DEF Next, Step

-----------------------------------------------------------------------------
\* The drop in the chain is in one place.
LEMMA InvOneToken == RingInv => OneToken
  <1> SUFFICES ASSUME RingInv PROVE OneToken
    OBVIOUS
  <1> DEFINE full == {c \in Ranks \X Ranks : chan[c[1]][c[2]] # <<>>}
  <1>1. CASE Size = 1
    <2>1. full = {}
      BY <1>1 DEF RingInv, Alone, Ranks
    <2> QED BY <2>1 DEF OneToken
  <1>2. CASE Size # 1
    <2>i. TypeOK /\ Chain /\ Channels /\ \A r \in Ranks : Local(r)
      BY <1>2 DEF RingInv, Circulates
    <2>n. \A r \in Ranks : i[r] \in Nat /\ Got(r) \in Nat /\ Sent(r) \in Nat
      BY <2>i, CountsAreNat
    <2>w. \A r, s \in Ranks : Got(r) <= Got(0) /\ Sent(Last) <= Sent(r) /\ Got(r) <= Sent(s) + 1
      BY <2>i, Window
    <2>s. Size > 1 /\ Last # 0 /\ Last > 0
      BY <1>2, SizeAssumption DEF Last
    <2>f. \A s, d \in Ranks : chan[s][d] # <<>> => InFlight(s, d) /\ Len(chan[s][d]) = 1
      <3> SUFFICES ASSUME NEW s \in Ranks, NEW d \in Ranks, chan[s][d] # <<>>
                   PROVE  InFlight(s, d) /\ Len(chan[s][d]) = 1
        OBVIOUS
      <3>1. InFlight(s, d) /\ chan[s][d] = <<Sent(s) - 1>>
        BY <2>i DEF Channels
      <3> QED BY <3>1
    <2>e. ASSUME NEW s \in Ranks, NEW d \in Ranks, InFlight(s, d)
          PROVE  /\ d = (IF s = Last THEN 0 ELSE s + 1)
                 /\ s = Last => Got(0) <= Sent(Last)
                 /\ s # Last => s < d /\ Got(d) < Sent(s)
      BY <2>e, Neighbours, RankFacts DEF InFlight
    \* The token is not on two edges.
    <2>1. ASSUME NEW s \in Ranks, NEW d \in Ranks, InFlight(s, d),
                 NEW t \in Ranks, NEW e \in Ranks, InFlight(t, e)
          PROVE  s = t /\ d = e
      <3>0. s = t => d = e
        BY <2>1, <2>e
      <3>1. ASSUME NEW x \in Ranks, NEW y \in Ranks, InFlight(x, y),
                   NEW u \in Ranks, NEW v \in Ranks, InFlight(u, v), x < u
            PROVE  FALSE
        <4>1. x # Last /\ Got(y) < Sent(x) /\ y <= u /\ Sent(x) <= Got(x) /\ Got(x) <= Got(0)
          BY <3>1, <2>e, <2>i, <2>w, SizeAssumption DEF Ranks, Last, Chain
        <4>2. Sent(u) <= Got(y)
          <5>1. y = u \/ y < u
            BY <4>1, RankFacts
          <5>2. y < u => Got(u) <= Sent(y) /\ Sent(y) <= Got(y)
            BY <2>i DEF Chain
          <5> QED BY <5>1, <5>2, <2>i, <2>n DEF Chain
        <4>3. CASE u = Last
          BY <4>1, <4>2, <4>3, <3>1, <2>e, <2>n, RankFacts
        <4>4. CASE u # Last
          <5>1. Got(v) < Sent(u) /\ Got(x) <= Sent(v) + 1 /\ Sent(v) <= Got(v)
            BY <4>4, <3>1, <2>e, <2>w, <2>i DEF Chain
          <5> QED BY <4>1, <4>2, <5>1, <2>n
        <4> QED BY <4>3, <4>4
      <3>2. s = t \/ s < t \/ t < s
        BY RankFacts
      <3> QED BY <3>0, <3>1, <3>2, <2>1
    \* Nor in a rank's buffer at the same time.
    <2>2. ASSUME NEW s \in Ranks, NEW d \in Ranks, InFlight(s, d), NEW r \in Ranks, pc[r] = "isend"
          PROVE  FALSE
      <3>1. Got(r) = i[r] + 1 /\ Sent(r) = i[r]
        BY <2>2, <2>n DEF Got, Sent
      <3>2. CASE s = Last
        <4>1. Got(0) <= Sent(Last) /\ Sent(Last) <= Sent(r) /\ Got(r) <= Got(0)
          BY <3>2, <2>2, <2>e, <2>w
        <4> QED BY <3>1, <4>1, <2>n, RankFacts
      <3>3. CASE s # Last
        <4>1. d = s + 1 /\ Got(d) < Sent(s)
          BY <3>3, <2>2, <2>e
        <4>2. r <= s \/ d <= r
          BY <4>1, RankFacts
        <4>3. CASE r <= s
          <5>1. Sent(s) <= Sent(r)
            <6>1. r = s \/ r < s
              BY <4>3, RankFacts
            <6>2. r < s => Got(s) <= Sent(r) /\ Sent(s) <= Got(s)
              BY <2>i DEF Chain
            <6> QED BY <6>1, <6>2, <2>n
          <5>2. Got(r) <= Sent(d) + 1 /\ Sent(d) <= Got(d)
            BY <2>w, <2>i DEF Chain
          <5> QED BY <3>1, <4>1, <5>1, <5>2, <2>n
        <4>4. CASE d <= r
          <5>1. Got(r) <= Got(d)
            <6>1. d = r \/ d < r
              BY <4>4, RankFacts
            <6>2. d < r => Got(r) <= Sent(d) /\ Sent(d) <= Got(d)
              BY <2>i DEF Chain
            <6> QED BY <6>1, <6>2, <2>n
          <5>2. Sent(s) <= Got(s) /\ Got(s) <= Sent(r) + 1
            BY <2>w, <2>i DEF Chain
          <5> QED BY <3>1, <4>1, <5>1, <5>2, <2>n
        <4> QED BY <4>2, <4>3, <4>4
      <3> QED BY <3>2, <3>3
    <2>3. AllDone => full = {}
      <3> SUFFICES ASSUME AllDone, NEW s \in Ranks, NEW d \in Ranks, InFlight(s, d) PROVE FALSE
        BY <2>f
      <3>1. \A r \in Ranks : Got(r) = N /\ Sent(r) = N
        BY <2>i, NAssumption DEF AllDone, Local, Got, Sent
      <3> QED BY <3>1, NAssumption DEF InFlight
    <2>4. \A c \in full : full = {c} /\ Len(chan[c[1]][c[2]]) = 1
      <3> SUFFICES ASSUME NEW c \in full PROVE full = {c} /\ Len(chan[c[1]][c[2]]) = 1
        OBVIOUS
      <3>1. c[1] \in Ranks /\ c[2] \in Ranks /\ c = <<c[1], c[2]>> /\ InFlight(c[1], c[2])
            /\ Len(chan[c[1]][c[2]]) = 1
        BY <2>f
      <3>2. ASSUME NEW e \in full PROVE e = c
        <4>1. e[1] \in Ranks /\ e[2] \in Ranks /\ e = <<e[1], e[2]>> /\ InFlight(e[1], e[2])
          BY <2>f
        <4> QED BY <3>1, <4>1, <2>1
      <3> QED BY <3>1, <3>2
    <2>5. full = {} \/ \A r \in Ranks : ~Holds(r)
      BY <2>f, <2>2 DEF Holds
    <2> QED BY <2>3, <2>4, <2>5 DEF OneToken
  <1> QED BY <1>1, <1>2

LEMMA RingInvariant == Spec => []RingInv
  <1>1. RingInv /\ [Next]_vars => RingInv'
    BY StepAlone, StepRing
  <1> QED BY InitRing, <1>1, PTL DEF Spec

\* The loop counters and the token stay within 0 .. N.
THEOREM RingTypes == Spec => []TypeOK
  <1>1. RingInv => TypeOK
    BY DEF RingInv
  <1> QED BY RingInvariant, <1>1, PTL

\* Every line shows the loops that the token had completed (init.cpp:38), for
\* every number of processes and rounds and whatever the library buffers.
THEOREM RingPrintsLoopCount == Spec => []PrintsLoopCount
  <1>1. RingInv => PrintsLoopCount
    BY DEF RingInv
  <1> QED BY RingInvariant, <1>1, PTL

\* There is one token, and no message is left behind when the ranks return
\* (the condition on the last send, init.cpp:46).
THEOREM RingOneToken == Spec => []OneToken
  BY RingInvariant, InvOneToken, PTL

-----------------------------------------------------------------------------
(***************************************************************************)
(* Second, that the game of life of homework 02 prints the boards of the   *)
(* serial program, for every number of processes, board, pattern and number *)
(* of iterations and whatever the library buffers.                         *)
(*                                                                         *)
(* The argument counts calls: at every moment, the rows that rank r has    *)
(* sent to a side are those that its neighbour there has received, but for *)
(* one under way or one awaited, so the oldest send meets the receive it is *)
(* meant for and carries a row of the same board.  The barriers keep a rank *)
(* from writing the next board before its rows were taken, and from running *)
(* more than one board ahead.                                              *)
(***************************************************************************)

\* A nonempty set of natural numbers has a least element.
LEMMA LeastNatural ==
  ASSUME NEW S \in SUBSET Nat, S # {}
  PROVE  \E m \in S : \A k \in S : m <= k
  <1>1. IsWellFoundedOn(OpToRel(<, Nat), Nat)
    BY NatLessThanWellFounded
  <1>2. PICK less : less = OpToRel(<, Nat)
    OBVIOUS
  <1>3. \A k, m \in Nat : k < m => <<k, m>> \in less
    BY <1>2 DEF OpToRel
  <1>4. IsWellFoundedOn(less, Nat)
    BY <1>1, <1>2
  <1>5. PICK m \in S : \A k \in S : ~(<<k, m>> \in less)
    BY <1>4, WFMin
  <1>6. ASSUME NEW k \in S PROVE m <= k
    <2>1. k \in Nat /\ m \in Nat
      OBVIOUS
    <2>2. ~(k < m)
      BY <2>1, <1>3, <1>5, Zenon
    <2> QED BY <2>1, <2>2
  <1> QED BY <1>6

\* Induction, with the set of the numbers that have the property.
LEMMA NatSetInduction ==
  ASSUME NEW S, 0 \in S, \A n \in Nat : n \in S => n + 1 \in S
  PROVE  \A n \in Nat : n \in S
  <1> DEFINE T == Nat \ S
  <1> SUFFICES ASSUME T # {} PROVE FALSE
    OBVIOUS
  <1>1. PICK m \in T : \A k \in T : m <= k
    BY LeastNatural
  <1>2. m \in Nat /\ m # 0 /\ m - 1 \in Nat
    BY <1>1
  <1>3. m - 1 \in S
    BY <1>1, <1>2
  <1> QED BY <1>1, <1>2, <1>3

-----------------------------------------------------------------------------
\* The rows of the ranks.

\* The blocks of the ranks lie one below the other.
LEMMA RowOf ==
  ASSUME NEW m \in Nat \ {0}, NEW p \in Nat \ {0}, NEW r \in 0 .. p - 1
  PROVE  /\ r * m \in Nat /\ r * m + m <= m * p
         /\ (r + 1) * m = r * m + m
         /\ (r - 1) * m + m = r * m
         /\ r = p - 1 => r * m + m = m * p
         /\ r # p - 1 => (r + 1) * m < m * p
  <1>1. r \in Nat /\ r + 1 <= p /\ r * m \in Nat
    OBVIOUS
  <1>2. (r + 1) * m = r * m + m /\ (r - 1) * m + m = r * m /\ m * p = p * m
    BY <1>1
  <1>3. (r + 1) * m <= p * m
    BY <1>1
  <1>4. r # p - 1 => (r + 2) * m <= p * m /\ (r + 2) * m = (r + 1) * m + m
    BY <1>1
  <1> QED BY <1>1, <1>2, <1>3, <1>4

\* Every row is in one block.
LEMMA RowSplit ==
  ASSUME NEW m \in Nat \ {0}, NEW p \in Nat \ {0}, NEW h \in 0 .. p * m - 1
  PROVE  /\ h \div m \in 0 .. p - 1 /\ h % m \in 0 .. m - 1
         /\ (h \div m) * m + (h % m) = h
  <1> DEFINE q == h \div m
  <1>1. h \in Nat /\ h < p * m
    OBVIOUS
  <1>2. q \in Nat /\ h % m \in 0 .. m - 1 /\ h = m * q + (h % m)
    BY <1>1
  <1> HIDE DEF q
  <1>3. q < p
    <2> SUFFICES ASSUME p <= q PROVE FALSE
      BY <1>2
    <2>1. p * m <= q * m
      BY <1>2
    <2> QED BY <2>1, <1>1, <1>2
  <1>4. m * q = q * m
    BY <1>2
  <1> QED BY <1>2, <1>3, <1>4 DEF q

\* One rank's update is its rows of the serial update: the ghost rows are the rows
\* around the block, and the opposite columns those that the serial program wraps to.
UpdatesRows(old, R, C, m, b) ==
  \A rows, north, south :
     /\ \A h \in 0 .. m - 1 : rows[h] = old[b + h]
     /\ north = old[(b - 1 + R) % R] /\ south = old[(b + m) % R]
     => \A h \in 0 .. m - 1 : Board!LocalUpdate(rows, north, south, m, C)[h] = Board!SerialUpdate(old, R, C)[b + h]

LEMMA UpdateOfRows ==
  ASSUME NEW old, NEW R \in Nat, NEW C \in Nat, NEW m \in Nat \ {0}, NEW b \in Nat, b + m <= R
  PROVE  UpdatesRows(old, R, C, m, b)
  <1>a. ASSUME NEW rows, NEW north, NEW south,
               \A h \in 0 .. m - 1 : rows[h] = old[b + h],
               north = old[(b - 1 + R) % R], south = old[(b + m) % R]
        PROVE  \A h \in 0 .. m - 1 : Board!LocalUpdate(rows, north, south, m, C)[h] = Board!SerialUpdate(old, R, C)[b + h]
    <2> DEFINE warped == Board!Warped(rows, north, south, m, C)
    <2>1. ASSUME NEW h \in 0 .. m - 1, NEW j \in 0 .. C - 1, NEW x \in -1 .. 1, NEW y \in -1 .. 1
          PROVE  warped[h + 1 + x][j + 1 + y] = old[(b + h + x + R) % R][(j + y + C) % C]
      <3>1. h + 1 + x \in 0 .. m + 1 /\ j + 1 + y \in 0 .. C + 1
        OBVIOUS
      <3> PICK u \in Int : u = h + 1 + x
        OBVIOUS
      <3>2. /\ u = 0 => warped[u][j + 1 + y] = old[(b - 1 + R) % R][(j + y + C) % C]
            /\ u = m + 1 => warped[u][j + 1 + y] = old[(b + m) % R][(j + y + C) % C]
            /\ u \in 1 .. m => warped[u][j + 1 + y] = rows[u - 1][(j + y + C) % C]
        <4> PICK v \in 0 .. C + 1 : v = j + 1 + y
          BY <3>1
        <4>1. v - 1 + C = j + y + C
          OBVIOUS
        <4>2. /\ u = 0 => warped[u][v] = north[(v - 1 + C) % C]
              /\ u = m + 1 => warped[u][v] = south[(v - 1 + C) % C]
              /\ u \in 1 .. m => warped[u][v] = rows[u - 1][(v - 1 + C) % C]
          BY <3>1 DEF Board!Warped
        <4> QED BY <4>1, <4>2, <1>a
      <3>3. b + h + x + R = b + u - 1 + R
        OBVIOUS
      <3>4. CASE u = 0
        <4>1. b + h + x + R = b - 1 + R
          BY <3>3, <3>4
        <4> QED BY <3>2, <3>4, <4>1
      <3>5. CASE u = m + 1
        <4>1. (b + m + R) % R = (b + m) % R
          <5>1. CASE b + m = R
            <6>1. (R + R) % R = 0 /\ R % R = 0
              BY <5>1
            <6> QED BY <5>1, <6>1
          <5>2. CASE b + m < R
            BY <5>2
          <5> QED BY <5>1, <5>2
        <4>2. b + h + x + R = b + m + R
          BY <3>3, <3>5
        <4>3. u # 0
          BY <3>5
        <4> QED BY <3>2, <3>5, <4>1, <4>2, <4>3
      <3>6. CASE u \in 1 .. m
        <4>1. rows[u - 1] = old[b + u - 1]
          <5>1. u - 1 \in 0 .. m - 1 /\ b + (u - 1) = b + u - 1
            BY <3>6
          <5> QED BY <5>1, <1>a
        <4>2. (b + u - 1 + R) % R = b + u - 1
          BY <3>6
        <4>3. (b + h + x + R) % R = b + u - 1
          BY <3>3, <4>2
        <4> QED BY <3>2, <3>6, <4>1, <4>3
      <3> QED BY <3>1, <3>4, <3>5, <3>6
    <2> HIDE DEF warped
    <2>2. ASSUME NEW h \in 0 .. m - 1, NEW j \in 0 .. C - 1
          PROVE  Board!LocalUpdate(rows, north, south, m, C)[h][j] = Board!SerialUpdate(old, R, C)[b + h][j]
      <3>1. warped[h + 1][j + 1] = old[b + h][j]
        <4>1. warped[h + 1 + 0][j + 1 + 0] = old[(b + h + 0 + R) % R][(j + 0 + C) % C]
          <5>1. 0 \in -1 .. 1
            OBVIOUS
          <5> QED BY <5>1, <2>1
        <4>2. (b + h + 0 + R) % R = b + h /\ (j + 0 + C) % C = j
          OBVIOUS
        <4> QED BY <4>1, <4>2
      <3>2. \A d \in Board!Deltas : warped[h + 1 + d[1]][j + 1 + d[2]] = old[(b + h + d[1] + R) % R][(j + d[2] + C) % C]
        <4>1. \A d \in Board!Deltas : d[1] \in -1 .. 1 /\ d[2] \in -1 .. 1
          BY DEF Board!Deltas
        <4> QED BY <2>1, <4>1
      <3>3. {d \in Board!Deltas : warped[h + 1 + d[1]][j + 1 + d[2]] = 1}
              = {d \in Board!Deltas : old[(b + h + d[1] + R) % R][(j + d[2] + C) % C] = 1}
        BY <3>2
      <3>4. Board!LocalUpdate(rows, north, south, m, C)[h][j]
              = Board!NewCell(warped[h + 1][j + 1], Board!Cardinality({d \in Board!Deltas : warped[h + 1 + d[1]][j + 1 + d[2]] = 1}))
        BY DEF Board!LocalUpdate, warped
      <3>5. Board!SerialUpdate(old, R, C)[b + h][j]
              = Board!NewCell(old[b + h][j], Board!Cardinality({d \in Board!Deltas : old[(b + h + d[1] + R) % R][(j + d[2] + C) % C] = 1}))
        <4>1. b + h \in 0 .. R - 1
          OBVIOUS
        <4> QED BY <4>1 DEF Board!SerialUpdate
      <3> QED BY <3>1, <3>3, <3>4, <3>5
    <2>3. ASSUME NEW h \in 0 .. m - 1
          PROVE  Board!LocalUpdate(rows, north, south, m, C)[h] = Board!SerialUpdate(old, R, C)[b + h]
      <3>0. b + h \in 0 .. R - 1
        OBVIOUS
      <3>1. Board!LocalUpdate(rows, north, south, m, C)[h] =
              [j \in 0 .. C - 1 |-> Board!LocalUpdate(rows, north, south, m, C)[h][j]]
        BY DEF Board!LocalUpdate
      <3>2. Board!SerialUpdate(old, R, C)[b + h] = [j \in 0 .. C - 1 |-> Board!SerialUpdate(old, R, C)[b + h][j]]
        BY <3>0 DEF Board!SerialUpdate
      <3> QED BY <2>2, <3>1, <3>2
    <2> QED BY <2>3
  <1> QED BY <1>a DEF UpdatesRows

-----------------------------------------------------------------------------
\* The boards that follow from the pattern that the ranks populate.
ParallelBoard[k \in 0 .. Board!Iterations] ==
  IF k = 0 THEN Board!Board(launch.parallel, Board!Rows, Board!Cols)
  ELSE Board!SerialUpdate(ParallelBoard[k - 1], Board!Rows, Board!Cols)

\* The rows of rank r on board k.
Block(r, k) == [h \in 0 .. Board!M - 1 |-> ParallelBoard[k][r * Board!M + h]]

Opposite(side) == IF side = "north" THEN "south" ELSE "north"

\* The places of the calls in Exchange.
SendOp(side) == IF side = "north" THEN 1 ELSE 3
RecvOp(side) == IF side = "south" THEN 2 ELSE 4

\* r has made call n of this iteration; how often it has made the call at all.
Past(r, n) ==
  /\ iter[r] # 0
  /\ at[r] \in {"waitall", "barrier", "barrier2", "gather"} \/ (at[r] = "exchange" /\ op[r] > n)
Before(r) == IF iter[r] = 0 THEN 0 ELSE iter[r] - 1
Times(r, n) == Before(r) + IF Past(r, n) THEN 1 ELSE 0

\* The barriers that r has left and entered.
Left(r) ==
  2 * Before(r) + (IF iter[r] = 0 THEN 0
                   ELSE IF at[r] = "barrier2" THEN 1 ELSE IF at[r] = "gather" THEN 2 ELSE 0)
Came(r) ==
  2 * Before(r) + (IF iter[r] = 0 THEN 0
                   ELSE IF at[r] = "barrier" THEN 1
                   ELSE IF at[r] \in {"barrier2", "gather"} THEN 2 ELSE 0)

Places == {"start", "gather", "exchange", "waitall", "barrier", "barrier2", "finalize", "done"}
Cells == [0 .. Board!Cols - 1 -> {0, 1}]

Located(r) ==
  /\ at[r] = "start" => iter[r] = 0 /\ even[r] = 0
  /\ at[r] = "gather" => iter[r] <= Board!Iterations
  /\ at[r] \in {"exchange", "waitall", "barrier", "barrier2"} => iter[r] \in 1 .. Board!Iterations
  /\ at[r] \in {"finalize", "done"} => iter[r] = Board!Iterations + 1
  /\ at[r] # "exchange" => op[r] = 1
  /\ entered[r] = Came(r)

Typed ==
  /\ at \in [Board!Ranks -> Places]
  /\ iter \in [Board!Ranks -> 0 .. Board!Iterations + 1]
  /\ even \in [Board!Ranks -> {0, 1}]
  /\ op \in [Board!Ranks -> 1 .. 4]
  /\ entered \in [Board!Ranks -> Nat]
  /\ buf \in [Board!Ranks -> [{0, 1} -> [0 .. Board!M - 1 -> Cells]]]
  /\ ghost \in [Board!Ranks -> [Board!Sides -> Cells]]

\* The domains hold the boards of the serial program.
Boards(r) ==
  /\ at[r] # "start" => buf[r][even[r]] = Block(r, Before(r))
  /\ at[r] \in {"barrier2", "gather"} /\ iter[r] # 0 => buf[r][1 - even[r]] = Block(r, iter[r])

\* What is on its way to rank 0 are the boards that it has not printed.
Output ==
  /\ boards \in Seq([0 .. Board!Rows - 1 -> Cells]) /\ Len(boards) = iter[0]
  /\ \A j \in 1 .. Len(boards) : boards[j] = ParallelBoard[j - 1]
  /\ gathered \in [Board!Ranks -> Seq([0 .. Board!M - 1 -> Cells])]
  /\ \A r \in Board!Ranks \ {0} :
        /\ Len(gathered[r]) = iter[r] - Len(boards)
        /\ \A j \in 1 .. Len(gathered[r]) : gathered[r][j] = Block(r, Len(boards) + j - 1)

\* A message whose row is still the edge row of the domain it was sent from.
Message(s, side) == [buf |-> even[s], side |-> side, row |-> Board!EdgeRow(buf[s][even[s]], side)]

\* The sequence of those of x and y that are there.
Pair(a, x, b, y) ==
  IF a THEN IF b THEN <<x, y>> ELSE <<x>> ELSE IF b THEN <<y>> ELSE <<>>

\* w[r] holds a side, and d is the rank there.
Towards(w, r, d, side) == d = Board!Peer(r, side) /\ side \in w[r]

Shaped(f) == f = [s \in Board!Ranks |-> [d \in Board!Ranks |-> f[s][d]]]

\* p[r]: the sides to which r has sent a row that is not matched yet; q[r]: those
\* from which it waits for one.
Queues(p, q) ==
  /\ Shaped(mail) /\ Shaped(posted)
  /\ \A s, d \in Board!Ranks :
       /\ mail[s][d] = Pair(Towards(p, s, d, "north"), Message(s, "north"),
                           Towards(p, s, d, "south"), Message(s, "south"))
       /\ posted[s][d] = Pair(Towards(q, s, d, "south"), "south",
                             Towards(q, s, d, "north"), "north")

Sending(p, r, side) ==
  side \in p[r] => at[r] \in {"exchange", "waitall", "barrier"} /\ Past(r, SendOp(side))

Awaiting(q, r, side) ==
  side \in q[r] => at[r] \in {"exchange", "waitall"} /\ Past(r, RecvOp(side))

\* As many rows were sent to that side as were received there.
Counted(p, q, r, side) ==
  Times(r, SendOp(side)) + (IF Opposite(side) \in q[Board!Peer(r, side)] THEN 1 ELSE 0)
    = Times(Board!Peer(r, side), RecvOp(Opposite(side))) + (IF side \in p[r] THEN 1 ELSE 0)

\* The ghost row is the edge row of the same board.
Received(q, r, side) ==
  at[r] \in {"exchange", "waitall", "barrier"} /\ Past(r, RecvOp(side)) /\ side \notin q[r] =>
     ghost[r][side] = Board!EdgeRow(Block(Board!Peer(r, side), Before(r)), Opposite(side))

Exchanging(p, q, r, side) ==
  /\ Sending(p, r, side) /\ Awaiting(q, r, side)
  /\ Counted(p, q, r, side) /\ Received(q, r, side)

Messages == \E p, q \in [Board!Ranks -> SUBSET Board!Sides] :
               Queues(p, q) /\ \A r \in Board!Ranks : \A side \in Board!Sides : Exchanging(p, q, r, side)

InStep == \A r, s \in Board!Ranks : Left(r) <= entered[s]

Accepted ==
  /\ Typed /\ Output /\ InStep /\ Messages
  /\ \A r \in Board!Ranks : Located(r) /\ Boards(r)

\* The arguments are refused: the ranks return at once.
Refused ==
  /\ at \in [Board!Ranks -> {"start", "done"}]
  /\ iter = [r \in Board!Ranks |-> 0] /\ even = [r \in Board!Ranks |-> 0] /\ op = [r \in Board!Ranks |-> 1]
  /\ buf = [r \in Board!Ranks |-> [b \in {0, 1} |-> Board!Zero(Board!M)]]
  /\ mail = [s \in Board!Ranks |-> [d \in Board!Ranks |-> <<>>]]
  /\ posted = [d \in Board!Ranks |-> [s \in Board!Ranks |-> <<>>]]
  /\ boards = <<>>

GameInv == launch \in Launches /\ IF Board!Accepts THEN Accepted ELSE Refused

-----------------------------------------------------------------------------
\* The launch.

\* The arguments, and the rows of a rank when they are accepted.
LEMMA Arguments ==
  ASSUME Board!LaunchParameters, launch \in Launches
  PROVE  /\ Board!Procs \in Nat \ {0} /\ Board!Rows \in Nat /\ Board!Cols \in Nat /\ Board!Iterations \in Nat
         /\ Board!M \in Nat
         /\ Board!Ranks = 0 .. Board!Procs - 1 /\ 0 \in Board!Ranks /\ Board!Ranks \subseteq Nat
         /\ Board!Accepts => Board!M # 0 /\ Board!Rows = Board!M * Board!Procs
  <1>1. Board!Procs \in Nat \ {0} /\ Board!Rows \in Nat /\ Board!Cols \in Nat /\ Board!Iterations \in Nat
    BY DEF Board!LaunchParameters, Board!Procs, Board!Rows, Board!Cols, Board!Iterations
  <1>2. Board!Rows = Board!Procs * (Board!Rows \div Board!Procs) + (Board!Rows % Board!Procs) /\ Board!Rows \div Board!Procs \in Nat
    BY <1>1
  <1>3. Board!M \in Nat
    BY <1>2 DEF Board!M
  <1>4. Board!Accepts => Board!M # 0 /\ Board!Rows = Board!M * Board!Procs
    <2> SUFFICES ASSUME Board!Accepts PROVE Board!M # 0 /\ Board!Rows = Board!M * Board!Procs
      OBVIOUS
    <2>1. Board!Rows = Board!Procs * Board!M /\ Board!Rows >= Board!Procs
      BY <1>1, <1>2 DEF Board!Accepts, Board!M
    <2>2. Board!Procs * Board!M = Board!M * Board!Procs
      BY <1>1, <1>3
    <2>3. Board!M # 0
      BY <1>1, <2>1
    <2> QED BY <2>1, <2>2, <2>3
  <1> QED BY <1>1, <1>3, <1>4 DEF Board!Ranks

\* No step changes the launch, nor what depends on it alone.
LEMMA Frame ==
  ASSUME launch' = launch
  PROVE  /\ Board!Procs' = Board!Procs /\ Board!Rows' = Board!Rows /\ Board!Cols' = Board!Cols /\ Board!Iterations' = Board!Iterations
         /\ Board!M' = Board!M /\ Board!Ranks' = Board!Ranks /\ Cells' = Cells /\ ParallelBoard' = ParallelBoard
         /\ Board!Accepts' = Board!Accepts
         /\ \A r, k : Block(r, k)' = Block(r, k)
         /\ \A r, side : Board!Peer(r, side)' = Board!Peer(r, side)
         /\ \A d, side : Board!EdgeRow(d, side)' = Board!EdgeRow(d, side)
  <1>1. Board!Procs' = Board!Procs /\ Board!Rows' = Board!Rows /\ Board!Cols' = Board!Cols /\ Board!Iterations' = Board!Iterations
    BY DEF Board!Procs, Board!Rows, Board!Cols, Board!Iterations
  <1>2. Board!M' = Board!M /\ Board!Ranks' = Board!Ranks /\ Cells' = Cells /\ Board!Accepts' = Board!Accepts
    BY <1>1 DEF Board!M, Board!Ranks, Cells, Board!Accepts
  <1>3. ParallelBoard' = ParallelBoard
    BY <1>1 DEF ParallelBoard
  <1>4. \A r, k : Block(r, k)' = Block(r, k)
    BY <1>2, <1>3 DEF Block
  <1>5. \A r, side : Board!Peer(r, side)' = Board!Peer(r, side)
    BY <1>1 DEF Board!Peer
  <1>6. \A d, side : Board!EdgeRow(d, side)' = Board!EdgeRow(d, side)
    BY <1>2 DEF Board!EdgeRow
  <1> QED BY <1>1, <1>2, <1>3, <1>4, <1>5, <1>6

-----------------------------------------------------------------------------
\* The boards that follow from the pattern.

\* The recursive definition has a solution.
LEMMA FollowingBoards ==
  ASSUME Board!LaunchParameters, launch \in Launches
  PROVE  ParallelBoard = [k \in 0 .. Board!Iterations |->
            IF k = 0 THEN Board!Board(launch.parallel, Board!Rows, Board!Cols)
            ELSE Board!SerialUpdate(ParallelBoard[k - 1], Board!Rows, Board!Cols)]
  <1> DEFINE Plays(f, n) == f = [k \in 0 .. n |->
                IF k = 0 THEN Board!Board(launch.parallel, Board!Rows, Board!Cols) ELSE Board!SerialUpdate(f[k - 1], Board!Rows, Board!Cols)]
             S == {n \in Nat : \E f : Plays(f, n)}
  <1>1. 0 \in S
    <2> DEFINE f == [k \in 0 .. 0 |-> Board!Board(launch.parallel, Board!Rows, Board!Cols)]
    <2>1. Plays(f, 0)
      OBVIOUS
    <2> HIDE DEF Plays
    <2> QED BY <2>1
  <1>2. ASSUME NEW n \in Nat, n \in S PROVE n + 1 \in S
    <2>1. PICK f : Plays(f, n)
      BY <1>2
    <2> DEFINE g == [k \in 0 .. n + 1 |-> IF k = n + 1 THEN Board!SerialUpdate(f[n], Board!Rows, Board!Cols) ELSE f[k]]
    <2>2. ASSUME NEW k \in 0 .. n + 1
          PROVE  g[k] = IF k = 0 THEN Board!Board(launch.parallel, Board!Rows, Board!Cols) ELSE Board!SerialUpdate(g[k - 1], Board!Rows, Board!Cols)
      <3>1. CASE k = n + 1
        <4>1. g[n] = f[n] /\ k # 0 /\ k - 1 = n
          BY <3>1
        <4> QED BY <4>1, <3>1
      <3>2. CASE k \in 0 .. n
        <4>1. g[k] = f[k] /\ (k # 0 => g[k - 1] = f[k - 1])
          BY <3>2
        <4>2. f[k] = IF k = 0 THEN Board!Board(launch.parallel, Board!Rows, Board!Cols) ELSE Board!SerialUpdate(f[k - 1], Board!Rows, Board!Cols)
          BY <2>1, <3>2
        <4> HIDE DEF g
        <4> QED BY <4>1, <4>2
      <3> QED BY <3>1, <3>2
    <2>3. Plays(g, n + 1)
      <3>1. g = [k \in 0 .. n + 1 |-> g[k]]
        OBVIOUS
      <3> HIDE DEF g
      <3> QED BY <3>1, <2>2
    <2> HIDE DEF Plays, g
    <2> QED BY <2>3
  <1> HIDE DEF S
  <1>3. Board!Iterations \in S
    BY <1>1, <1>2, NatSetInduction, Arguments
  <1>4. \E f : Plays(f, Board!Iterations)
    BY <1>3 DEF S
  <1>5. ParallelBoard = CHOOSE f : Plays(f, Board!Iterations)
    BY DEF ParallelBoard
  <1>6. Plays(ParallelBoard, Board!Iterations)
    <2> HIDE DEF Plays
    <2> QED BY <1>4, <1>5
  <1> QED BY <1>6

\* The boards one by one.
LEMMA BoardRows ==
  ASSUME Board!LaunchParameters, launch \in Launches
  PROVE  /\ ParallelBoard[0] = Board!Board(launch.parallel, Board!Rows, Board!Cols)
         /\ \A k \in 0 .. Board!Iterations :
               /\ ParallelBoard[k] \in [0 .. Board!Rows - 1 -> Cells]
               /\ k # Board!Iterations => ParallelBoard[k + 1] = Board!SerialUpdate(ParallelBoard[k], Board!Rows, Board!Cols)
  <1>1. ASSUME NEW live, NEW old
        PROVE  /\ Board!Board(live, Board!Rows, Board!Cols) \in [0 .. Board!Rows - 1 -> Cells]
               /\ Board!SerialUpdate(old, Board!Rows, Board!Cols) \in [0 .. Board!Rows - 1 -> Cells]
    <2>1. Board!Board(live, Board!Rows, Board!Cols) \in [0 .. Board!Rows - 1 -> Cells]
      BY DEF Board!Board, Cells
    <2>2. \A x, y : Board!NewCell(x, y) \in {0, 1}
      BY DEF Board!NewCell
    <2>3. Board!SerialUpdate(old, Board!Rows, Board!Cols) \in [0 .. Board!Rows - 1 -> Cells]
      BY <2>2 DEF Board!SerialUpdate, Cells
    <2> QED BY <2>1, <2>3
  <1>2. 0 \in 0 .. Board!Iterations /\ Board!Iterations \in Nat
    BY Arguments
  <1>3. ParallelBoard[0] = Board!Board(launch.parallel, Board!Rows, Board!Cols)
    BY <1>2, FollowingBoards
  <1>4. \A k \in 0 .. Board!Iterations : k # 0 => ParallelBoard[k] = Board!SerialUpdate(ParallelBoard[k - 1], Board!Rows, Board!Cols)
    BY FollowingBoards
  <1>5. ASSUME NEW k \in 0 .. Board!Iterations PROVE ParallelBoard[k] \in [0 .. Board!Rows - 1 -> Cells]
    BY <1>1, <1>3, <1>4
  <1>6. ASSUME NEW k \in 0 .. Board!Iterations, k # Board!Iterations
        PROVE  ParallelBoard[k + 1] = Board!SerialUpdate(ParallelBoard[k], Board!Rows, Board!Cols)
    <2>1. k + 1 \in 0 .. Board!Iterations /\ k + 1 # 0 /\ k + 1 - 1 = k
      BY <1>2, <1>6
    <2> QED BY <2>1, <1>4
  <1> QED BY <1>3, <1>5, <1>6

\* A rank's block has its rows.
LEMMA BlockRows ==
  ASSUME Board!LaunchParameters, launch \in Launches, Board!Accepts, NEW r \in Board!Ranks, NEW k \in 0 .. Board!Iterations
  PROVE  /\ Block(r, k) \in [0 .. Board!M - 1 -> Cells]
         /\ \A side \in Board!Sides : Board!EdgeRow(Block(r, k), side) \in Cells
         /\ Board!EdgeRow(Block(Board!Peer(r, "north"), k), "south") = ParallelBoard[k][(r * Board!M - 1 + Board!Rows) % Board!Rows]
         /\ Board!EdgeRow(Block(Board!Peer(r, "south"), k), "north") = ParallelBoard[k][(r * Board!M + Board!M) % Board!Rows]
  <1>0. /\ Board!Procs \in Nat \ {0} /\ Board!Rows \in Nat /\ Board!M \in Nat \ {0} /\ Board!Rows = Board!M * Board!Procs
        /\ Board!Ranks = 0 .. Board!Procs - 1
    BY Arguments
  <1>1. \A s \in Board!Ranks : s * Board!M \in Nat /\ s * Board!M + Board!M <= Board!Rows
    BY <1>0, RowOf
  <1>2. ParallelBoard[k] \in [0 .. Board!Rows - 1 -> Cells]
    BY BoardRows
  <1>3. ASSUME NEW s \in Board!Ranks PROVE Block(s, k) \in [0 .. Board!M - 1 -> Cells]
    <2>1. \A h \in 0 .. Board!M - 1 : s * Board!M + h \in 0 .. Board!Rows - 1
      BY <1>0, <1>1
    <2> QED BY <2>1, <1>2 DEF Block
  <1>4. ASSUME NEW s \in Board!Ranks
        PROVE  /\ Board!EdgeRow(Block(s, k), "north") = ParallelBoard[k][s * Board!M]
               /\ Board!EdgeRow(Block(s, k), "south") = ParallelBoard[k][s * Board!M + Board!M - 1]
    <2>1. 0 \in 0 .. Board!M - 1 /\ Board!M - 1 \in 0 .. Board!M - 1
      BY <1>0
    <2>2. s * Board!M + 0 = s * Board!M /\ s * Board!M + (Board!M - 1) = s * Board!M + Board!M - 1
      BY <1>0, <1>1
    <2>3. Block(s, k)[0] = ParallelBoard[k][s * Board!M + 0] /\ Block(s, k)[Board!M - 1] = ParallelBoard[k][s * Board!M + (Board!M - 1)]
      BY <2>1 DEF Block
    <2> QED BY <2>2, <2>3 DEF Board!EdgeRow
  <1>5. \A side \in Board!Sides : Board!EdgeRow(Block(r, k), side) \in Cells
    <2>1. 0 \in 0 .. Board!M - 1 /\ Board!M - 1 \in 0 .. Board!M - 1
      BY <1>0
    <2> QED BY <2>1, <1>3 DEF Board!EdgeRow
  <1>6. Board!EdgeRow(Block(Board!Peer(r, "north"), k), "south") = ParallelBoard[k][(r * Board!M - 1 + Board!Rows) % Board!Rows]
    <2>1. CASE r = 0
      <3>1. Board!Peer(r, "north") = Board!Procs - 1 /\ Board!Procs - 1 \in Board!Ranks
        BY <2>1, <1>0 DEF Board!Peer
      <3>2. (Board!Procs - 1) * Board!M + Board!M = Board!Rows
        BY <1>0, <3>1, RowOf
      <3>3. r * Board!M = 0 /\ (r * Board!M - 1 + Board!Rows) % Board!Rows = Board!Rows - 1
        BY <2>1, <1>0, <1>1
      <3>4. (Board!Procs - 1) * Board!M + Board!M - 1 = Board!Rows - 1
        <4> PICK c \in Nat : c = (Board!Procs - 1) * Board!M
          BY <3>1, <1>1
        <4> QED BY <3>2, <1>0
      <3> QED BY <3>1, <3>3, <3>4, <1>4
    <2>2. CASE r # 0
      <3>1. Board!Peer(r, "north") = r - 1 /\ r - 1 \in Board!Ranks
        BY <2>2, <1>0 DEF Board!Peer
      <3>2. (r - 1) * Board!M + Board!M = r * Board!M
        BY <1>0, RowOf
      <3>3. (r - 1) * Board!M + Board!M - 1 = r * Board!M - 1 /\ r * Board!M >= Board!M
        BY <3>1, <3>2, <1>0, <1>1
      <3>4. (r * Board!M - 1 + Board!Rows) % Board!Rows = r * Board!M - 1
        <4> PICK b \in Nat : b = r * Board!M
          BY <1>1
        <4>1. b >= 1 /\ b <= Board!Rows
          BY <3>3, <1>0, <1>1
        <4> QED BY <4>1, <1>0
      <3> QED BY <3>1, <3>3, <3>4, <1>4
    <2> QED BY <2>1, <2>2
  <1>7. Board!EdgeRow(Block(Board!Peer(r, "south"), k), "north") = ParallelBoard[k][(r * Board!M + Board!M) % Board!Rows]
    <2>1. CASE r = Board!Procs - 1
      <3>1. Board!Peer(r, "south") = 0 /\ 0 \in Board!Ranks
        BY <2>1, <1>0 DEF Board!Peer
      <3>2. r * Board!M + Board!M = Board!Rows /\ 0 * Board!M = 0
        BY <1>0, <2>1, RowOf
      <3>3. Board!Rows # 0
        BY <3>2, <1>0, <1>1
      <3>4. (r * Board!M + Board!M) % Board!Rows = 0
        BY <3>2, <3>3, <1>0
      <3> QED BY <3>1, <3>2, <3>4, <1>4
    <2>2. CASE r # Board!Procs - 1
      <3>1. Board!Peer(r, "south") = r + 1 /\ r + 1 \in Board!Ranks
        BY <2>2, <1>0 DEF Board!Peer
      <3>2. (r + 1) * Board!M = r * Board!M + Board!M /\ (r + 1) * Board!M < Board!Rows
        BY <1>0, <2>2, RowOf
      <3>3. (r * Board!M + Board!M) % Board!Rows = r * Board!M + Board!M
        <4> PICK b \in Nat : b = r * Board!M + Board!M
          BY <1>0, <1>1
        <4> QED BY <3>2, <1>0
      <3> QED BY <3>1, <3>2, <3>3, <1>4
    <2> QED BY <2>1, <2>2
  <1> QED BY <1>3, <1>5, <1>6, <1>7

\* A rank that has its ghost rows computes its block of the next board.
LEMMA BlockUpdate ==
  ASSUME Board!LaunchParameters, launch \in Launches, Board!Accepts, NEW r \in Board!Ranks,
         NEW k \in 0 .. Board!Iterations, k # Board!Iterations
  PROVE  Board!LocalUpdate(Block(r, k), Board!EdgeRow(Block(Board!Peer(r, "north"), k), "south"),
                     Board!EdgeRow(Block(Board!Peer(r, "south"), k), "north"), Board!M, Board!Cols) = Block(r, k + 1)
  <1>0. /\ Board!Procs \in Nat \ {0} /\ Board!Rows \in Nat /\ Board!M \in Nat \ {0} /\ Board!Rows = Board!M * Board!Procs /\ Board!Cols \in Nat
        /\ Board!Ranks = 0 .. Board!Procs - 1
    BY Arguments
  <1>b. PICK b \in Nat : b = r * Board!M /\ b + Board!M <= Board!Rows
    BY <1>0, RowOf
  <1>o. PICK old : old = ParallelBoard[k]
    OBVIOUS
  <1>1. ParallelBoard[k + 1] = Board!SerialUpdate(old, Board!Rows, Board!Cols)
    BY <1>o, BoardRows
  <1>2. Block(r, k) = [h \in 0 .. Board!M - 1 |-> old[b + h]]
    BY <1>b, <1>o DEF Block
  <1>3. Block(r, k + 1) = [h \in 0 .. Board!M - 1 |-> Board!SerialUpdate(old, Board!Rows, Board!Cols)[b + h]]
    BY <1>1, <1>b DEF Block
  <1>4. /\ Board!EdgeRow(Block(Board!Peer(r, "north"), k), "south") = old[(b - 1 + Board!Rows) % Board!Rows]
        /\ Board!EdgeRow(Block(Board!Peer(r, "south"), k), "north") = old[(b + Board!M) % Board!Rows]
    BY <1>b, <1>o, BlockRows
  <1> PICK rows, north, south :
        /\ rows = Block(r, k) /\ north = Board!EdgeRow(Block(Board!Peer(r, "north"), k), "south")
        /\ south = Board!EdgeRow(Block(Board!Peer(r, "south"), k), "north")
    OBVIOUS
  <1>5. \A h \in 0 .. Board!M - 1 : rows[h] = old[b + h]
    BY <1>2
  <1>6. \A h \in 0 .. Board!M - 1 : Board!LocalUpdate(rows, north, south, Board!M, Board!Cols)[h] = Board!SerialUpdate(old, Board!Rows, Board!Cols)[b + h]
    <2>1. Board!Rows \in Nat /\ Board!Cols \in Nat /\ Board!M \in Nat \ {0} /\ b + Board!M <= Board!Rows
      BY <1>0, <1>b
    <2>2. UpdatesRows(old, Board!Rows, Board!Cols, Board!M, b)
      BY <2>1, UpdateOfRows
    <2> QED BY <2>2, <1>4, <1>5, Zenon DEF UpdatesRows
  <1>7. Board!LocalUpdate(rows, north, south, Board!M, Board!Cols) = [h \in 0 .. Board!M - 1 |-> Board!LocalUpdate(rows, north, south, Board!M, Board!Cols)[h]]
    BY DEF Board!LocalUpdate
  <1> QED BY <1>3, <1>6, <1>7

-----------------------------------------------------------------------------
\* The ring of the ranks and the queues between them.

\* The neighbours, and the way back.
LEMMA Peers ==
  ASSUME Board!LaunchParameters, launch \in Launches, NEW r \in Board!Ranks, NEW side \in Board!Sides
  PROVE  /\ Board!Peer(r, side) \in Board!Ranks /\ Opposite(side) \in Board!Sides /\ Opposite(side) # side
         /\ Opposite(Opposite(side)) = side
         /\ Board!Peer(Board!Peer(r, side), Opposite(side)) = r
  <1>1. Board!Procs \in Nat \ {0} /\ Board!Ranks = 0 .. Board!Procs - 1
    BY Arguments
  <1>2. CASE side = "north"
    BY <1>1, <1>2 DEF Board!Peer, Opposite, Board!Sides
  <1>3. CASE side = "south"
    BY <1>1, <1>3 DEF Board!Peer, Opposite, Board!Sides
  <1> QED BY <1>2, <1>3 DEF Board!Sides

LEMMA SeqEqual ==
  ASSUME NEW S, NEW s \in Seq(S), NEW t \in Seq(S), Len(s) = 2, Len(t) = 2, s[1] = t[1], s[2] = t[2]
  PROVE  s = t
  <1>1. \A h \in 1 .. 2 : h = 1 \/ h = 2
    OBVIOUS
  <1>2. \A h \in 1 .. Len(s) : s[h] = t[h]
    BY <1>1
  <1>3. DOMAIN s = 1 .. Len(s) /\ DOMAIN t = 1 .. Len(t)
    OBVIOUS
  <1> QED BY <1>2, <1>3

LEMMA AppendTwo ==
  ASSUME NEW x, NEW y
  PROVE  Append(<<x>>, y) = <<x, y>>
  <1>1. <<x>> \in Seq({x, y}) /\ <<x, y>> \in Seq({x, y}) /\ x \in {x, y} /\ y \in {x, y}
    OBVIOUS
  <1>2. /\ Append(<<x>>, y) \in Seq({x, y}) /\ Len(Append(<<x>>, y)) = 2
        /\ Append(<<x>>, y)[1] = x /\ Append(<<x>>, y)[2] = y
    BY <1>1
  <1> QED BY <1>1, <1>2, SeqEqual

LEMMA PairLength ==
  ASSUME NEW a \in BOOLEAN, NEW b \in BOOLEAN, NEW x, NEW y
  PROVE  Len(Pair(a, x, b, y)) <= 2
  <1>1. CASE a /\ b
    BY <1>1 DEF Pair
  <1>2. CASE a /\ ~b
    BY <1>2 DEF Pair
  <1>3. CASE ~a /\ b
    BY <1>3 DEF Pair
  <1>4. CASE ~a /\ ~b
    BY <1>4 DEF Pair
  <1> QED BY <1>1, <1>2, <1>3, <1>4

LEMMA PairAppend ==
  \A x, y : /\ Append(Pair(FALSE, x, FALSE, y), x) = Pair(TRUE, x, FALSE, y)
            /\ \A a \in BOOLEAN : Append(Pair(a, x, FALSE, y), y) = Pair(a, x, TRUE, y)
  <1> SUFFICES ASSUME NEW x, NEW y
               PROVE  /\ Append(Pair(FALSE, x, FALSE, y), x) = Pair(TRUE, x, FALSE, y)
                      /\ \A a \in BOOLEAN : Append(Pair(a, x, FALSE, y), y) = Pair(a, x, TRUE, y)
    OBVIOUS
  <1>1. Append(Pair(FALSE, x, FALSE, y), x) = Pair(TRUE, x, FALSE, y)
    BY DEF Pair
  <1>2. ASSUME NEW a \in BOOLEAN PROVE Append(Pair(a, x, FALSE, y), y) = Pair(a, x, TRUE, y)
    <2>1. CASE a
      BY <2>1, AppendTwo DEF Pair
    <2>2. CASE ~a
      BY <2>2 DEF Pair
    <2> QED BY <2>1, <2>2
  <1> QED BY <1>1, <1>2

\* What a rank that is not involved keeps.
LEMMA Untouched ==
  ASSUME launch' = launch, NEW s \in Board!Ranks,
         at'[s] = at[s], iter'[s] = iter[s], op'[s] = op[s], even'[s] = even[s],
         entered'[s] = entered[s], buf'[s] = buf[s]
  PROVE  /\ Before(s)' = Before(s) /\ Left(s)' = Left(s)
         /\ \A n : (Past(s, n)' <=> Past(s, n)) /\ Times(s, n)' = Times(s, n)
         /\ \A side : Message(s, side)' = Message(s, side)
         /\ Located(s)' <=> Located(s)
         /\ Boards(s)' <=> Boards(s)
  <1>1. Before(s)' = Before(s)
    BY DEF Before
  <1>2. Left(s)' = Left(s) /\ Came(s)' = Came(s)
    BY <1>1 DEF Left, Came
  <1>3. \A n : Past(s, n)' <=> Past(s, n)
    BY DEF Past
  <1>4. \A n : Times(s, n)' = Times(s, n)
    BY <1>1, <1>3 DEF Times
  <1>5. \A side : Message(s, side)' = Message(s, side)
    BY Frame DEF Message
  <1>6. Located(s)' <=> Located(s)
    BY <1>2, Frame DEF Located
  <1>7. Boards(s)' <=> Boards(s)
    BY <1>1, Frame DEF Boards
  <1> QED BY <1>1, <1>2, <1>3, <1>4, <1>5, <1>6, <1>7

\* A step of rank r that leaves every other rank alone.
Only(r) ==
  /\ launch' = launch
  /\ \A s \in Board!Ranks \ {r} :
       /\ at'[s] = at[s] /\ iter'[s] = iter[s] /\ op'[s] = op[s] /\ even'[s] = even[s]
       /\ entered'[s] = entered[s] /\ buf'[s] = buf[s]

LEMMA LocalStep ==
  ASSUME NEW r \in Board!Ranks, Only(r), entered \in [Board!Ranks -> Nat], Left(r) \in Nat,
         InStep, \A s \in Board!Ranks : Located(s) /\ Boards(s),
         entered'[r] \in Nat, entered'[r] >= entered[r],
         \A s \in Board!Ranks : Left(r)' <= entered'[s],
         \A s \in Board!Ranks : Left(s) \in Nat,
         Located(r)', Boards(r)'
  PROVE  InStep' /\ (\A s \in Board!Ranks : Located(s) /\ Boards(s))'
  <1>0. launch' = launch
    BY DEF Only
  <1>1. Board!Ranks' = Board!Ranks
    BY <1>0, Frame
  <1>2. ASSUME NEW s \in Board!Ranks, s # r
        PROVE  Left(s)' = Left(s) /\ (Located(s)' <=> Located(s)) /\ (Boards(s)' <=> Boards(s))
    BY <1>2, <1>0, Untouched DEF Only
  <1>3. ASSUME NEW s \in Board!Ranks, NEW t \in Board!Ranks PROVE Left(s)' <= entered'[t]
    <2>1. entered'[t] >= entered[t] /\ entered'[t] \in Nat /\ entered[t] \in Nat
      BY DEF Only
    <2>2. CASE s = r
      BY <2>2
    <2>3. CASE s # r
      <3>1. Left(s) <= entered[t]
        BY DEF InStep
      <3> QED BY <2>1, <2>3, <3>1, <1>2
    <2> QED BY <2>2, <2>3
  <1>4. InStep'
    BY <1>1, <1>3 DEF InStep
  <1>5. (\A s \in Board!Ranks : Located(s) /\ Boards(s))'
    BY <1>1, <1>2
  <1> QED BY <1>4, <1>5

-----------------------------------------------------------------------------
\* A step of a rank that neither sends nor receives.
LEMMA SilentStep ==
  ASSUME Board!LaunchParameters, launch \in Launches, NEW r \in Board!Ranks, Only(r),
         mail' = mail, posted' = posted, ghost' = ghost,
         NEW p \in [Board!Ranks -> SUBSET Board!Sides], NEW q \in [Board!Ranks -> SUBSET Board!Sides], Queues(p, q),
         \A t \in Board!Ranks : \A side \in Board!Sides : Exchanging(p, q, t, side),
         \A n \in 1 .. 4 : Times(r, n)' = Times(r, n),
         \A side \in p[r] : Message(r, side)' = Message(r, side) /\ Sending(p, r, side)',
         \A side \in q[r] : Awaiting(q, r, side)',
         \A side \in Board!Sides :
            at'[r] \in {"exchange", "waitall", "barrier"} /\ Past(r, RecvOp(side))' =>
              /\ at[r] \in {"exchange", "waitall", "barrier"} /\ Past(r, RecvOp(side))
              /\ Before(r)' = Before(r)
  PROVE  Messages'
  <1>0. launch' = launch
    BY DEF Only
  <1>1. Board!Ranks' = Board!Ranks
    BY <1>0, Frame
  <1>2. ASSUME NEW s \in Board!Ranks, s # r
        PROVE  /\ at'[s] = at[s] /\ Before(s)' = Before(s)
               /\ \A n : (Past(s, n)' <=> Past(s, n)) /\ Times(s, n)' = Times(s, n)
               /\ \A side : Message(s, side)' = Message(s, side)
    BY <1>2, <1>0, Untouched DEF Only
  <1>3. Queues(p, q)'
    <2>1. ASSUME NEW s \in Board!Ranks, NEW d \in Board!Ranks
          PROVE  /\ mail'[s][d] = Pair(Towards(p, s, d, "north"), Message(s, "north")',
                                       Towards(p, s, d, "south"), Message(s, "south")')
      <3>1. \A side \in p[s] : Message(s, side)' = Message(s, side)
        BY <1>2
      <3>2. mail'[s][d] = Pair(Towards(p, s, d, "north"), Message(s, "north"),
                               Towards(p, s, d, "south"), Message(s, "south"))
        BY DEF Queues
      <3>3. \A side : Towards(p, s, d, side) => Message(s, side)' = Message(s, side)
        BY <3>1 DEF Towards
      <3> QED BY <3>2, <3>3 DEF Pair
    <2>2. \A s, d, side : (Towards(p, s, d, side)' <=> Towards(p, s, d, side))
                       /\ (Towards(q, s, d, side)' <=> Towards(q, s, d, side))
      BY <1>0, Frame DEF Towards
    <2>3. Shaped(mail)' /\ Shaped(posted)'
      BY <1>1 DEF Queues, Shaped
    <2>4. ASSUME NEW s \in Board!Ranks, NEW d \in Board!Ranks
          PROVE  posted'[s][d] = Pair(Towards(q, s, d, "south"), "south",
                                      Towards(q, s, d, "north"), "north")
      BY DEF Queues
    <2> QED BY <2>1, <2>2, <2>3, <2>4, <1>1 DEF Queues, Pair
  <1>4. ASSUME NEW s \in Board!Ranks, NEW side \in Board!Sides PROVE Exchanging(p, q, s, side)'
    <2>0. Exchanging(p, q, s, side)
      OBVIOUS
    <2>1. Sending(p, s, side)'
      <3>1. CASE s = r
        BY <3>1 DEF Sending
      <3>2. CASE s # r
        BY <2>0, <3>2, <1>2 DEF Sending, Exchanging
      <3> QED BY <3>1, <3>2
    <2>2. Awaiting(q, s, side)'
      <3>1. CASE s = r
        BY <3>1 DEF Awaiting
      <3>2. CASE s # r
        BY <2>0, <3>2, <1>2 DEF Awaiting, Exchanging
      <3> QED BY <3>1, <3>2
    <2>3. Counted(p, q, s, side)'
      <3>1. \A t \in Board!Ranks : \A n \in 1 .. 4 : Times(t, n)' = Times(t, n)
        BY <1>2
      <3>2. SendOp(side) \in 1 .. 4 /\ RecvOp(Opposite(side)) \in 1 .. 4 /\ Board!Peer(s, side) \in Board!Ranks
        BY Peers DEF SendOp, RecvOp
      <3>3. Board!Peer(s, side)' = Board!Peer(s, side)
        BY <1>0, Frame
      <3>4. Times(Board!Peer(s, side), RecvOp(Opposite(side)))' = Times(Board!Peer(s, side), RecvOp(Opposite(side)))
        <4> PICK d \in Board!Ranks : d = Board!Peer(s, side)
          BY <3>2
        <4>1. Times(d, RecvOp(Opposite(side)))' = Times(d, RecvOp(Opposite(side)))
          BY <3>1, <3>2
        <4> QED BY <4>1, <3>3 DEF Times, Past, Before
      <3>5. Times(s, SendOp(side))' = Times(s, SendOp(side))
        BY <3>1, <3>2
      <3> QED BY <3>3, <3>4, <3>5, <2>0 DEF Counted, Exchanging
    <2>4. Received(q, s, side)'
      <3>1. \A t : Board!EdgeRow(Block(t, Before(s)), Opposite(side))' = Board!EdgeRow(Block(t, Before(s)'), Opposite(side))
        BY <1>0, Frame
      <3>2. Board!Peer(s, side)' = Board!Peer(s, side)
        BY <1>0, Frame
      <3>3. CASE s = r
        BY <2>0, <3>1, <3>2, <3>3 DEF Received, Exchanging
      <3>4. CASE s # r
        BY <2>0, <3>1, <3>2, <3>4, <1>2 DEF Received, Exchanging
      <3> QED BY <3>3, <3>4
    <2> QED BY <2>1, <2>2, <2>3, <2>4 DEF Exchanging
  <1> QED BY <1>1, <1>3, <1>4 DEF Messages

-----------------------------------------------------------------------------
\* The steps of a rank.

\* The numbers of one rank.
LEMMA LocalFacts ==
  ASSUME Board!LaunchParameters, launch \in Launches, Accepted, NEW r \in Board!Ranks
  PROVE  /\ iter[r] \in 0 .. Board!Iterations + 1 /\ Board!Iterations \in Nat
         /\ Before(r) \in 0 .. Board!Iterations
         /\ Left(r) \in Nat /\ Came(r) \in Nat /\ entered[r] = Came(r)
         /\ \A n : Times(r, n) \in Nat
         /\ Located(r) /\ Boards(r)
  <1>1. iter[r] \in 0 .. Board!Iterations + 1 /\ Board!Iterations \in Nat /\ Located(r) /\ Boards(r)
    BY Arguments DEF Accepted, Typed
  <1>2. Before(r) \in 0 .. Board!Iterations
    BY <1>1 DEF Before
  <1>3. Left(r) \in Nat /\ Came(r) \in Nat
    BY <1>2 DEF Left, Came
  <1>4. \A n : Times(r, n) \in Nat
    BY <1>2 DEF Times
  <1> QED BY <1>1, <1>2, <1>3, <1>4 DEF Located

\* The parts of the invariant, put together after a step of rank r.
LEMMA Together ==
  ASSUME Board!LaunchParameters, launch \in Launches, Accepted, NEW r \in Board!Ranks, Only(r),
         Typed', Output', Messages', Located(r)', Boards(r)',
         entered'[r] >= entered[r],
         \A s \in Board!Ranks : Left(r)' <= entered'[s]
  PROVE  Accepted'
  <1>1. Board!Ranks' = Board!Ranks
    BY Frame DEF Only
  <1>2. entered \in [Board!Ranks -> Nat] /\ entered'[r] \in Nat
    BY <1>1 DEF Typed, Accepted
  <1>3. \A s \in Board!Ranks : Left(s) \in Nat
    BY LocalFacts
  <1>4. InStep /\ \A s \in Board!Ranks : Located(s) /\ Boards(s)
    BY DEF Accepted
  <1>5. InStep' /\ (\A s \in Board!Ranks : Located(s) /\ Boards(s))'
    BY <1>2, <1>3, <1>4, LocalStep
  <1> QED BY <1>5 DEF Accepted

\* The output is left alone.
LEMMA OutputKept ==
  ASSUME launch' = launch, Output, boards' = boards, gathered' = gathered, iter' = iter
  PROVE  Output'
  <1>1. /\ Board!Rows' = Board!Rows /\ Cells' = Cells /\ Board!M' = Board!M /\ Board!Ranks' = Board!Ranks /\ ParallelBoard' = ParallelBoard
        /\ \A r, k : Block(r, k)' = Block(r, k)
    BY Frame
  <1>2. /\ (boards \in Seq([0 .. Board!Rows - 1 -> Cells]) /\ Len(boards) = iter[0])'
        /\ (gathered \in [Board!Ranks -> Seq([0 .. Board!M - 1 -> Cells])])'
        /\ (\A j \in 1 .. Len(boards) : boards[j] = ParallelBoard[j - 1])'
    BY <1>1 DEF Output
  <1>3. ASSUME NEW r \in Board!Ranks \ {0}
        PROVE  /\ Len(gathered'[r]) = iter'[r] - Len(boards')
               /\ \A j \in 1 .. Len(gathered'[r]) : gathered'[r][j] = Block(r, Len(boards') + j - 1)
    BY DEF Output
  <1> QED BY <1>1, <1>2, <1>3 DEF Output

\* main() up to the first gather: the rows of the pattern.
LEMMA StartStep ==
  ASSUME Board!LaunchParameters, launch \in Launches, Board!Accepts, Accepted, NEW r \in Board!Ranks, Board!Start(r)
  PROVE  Accepted'
  <1>0. /\ launch' = launch /\ at[r] = "start" /\ buf' = [buf EXCEPT ![r][0] = Board!Populated(r)]
        /\ at' = [at EXCEPT ![r] = "gather"]
        /\ iter' = iter /\ even' = even /\ op' = op /\ mail' = mail /\ posted' = posted
        /\ ghost' = ghost /\ entered' = entered /\ gathered' = gathered /\ boards' = boards
    BY DEF Board!Start
  <1>1. Typed /\ Output /\ InStep /\ Messages /\ Located(r)
    BY DEF Accepted
  <1>2. Only(r)
    BY <1>0, <1>1 DEF Only, Typed
  <1>3. Board!Populated(r) = Block(r, 0) /\ Block(r, 0) \in [0 .. Board!M - 1 -> Cells]
    <2>1. 0 \in 0 .. Board!Iterations
      BY Arguments
    <2>2. ParallelBoard[0] = Board!Board(launch.parallel, Board!Rows, Board!Cols)
      BY BoardRows
    <2> QED BY <2>1, <2>2, BlockRows DEF Board!Populated, Block
  <1>4. Typed'
    <2>1. buf' \in [Board!Ranks -> [{0, 1} -> [0 .. Board!M - 1 -> Cells]]]
      BY <1>0, <1>1, <1>3 DEF Typed
    <2>2. at' \in [Board!Ranks -> Places]
      BY <1>0, <1>1 DEF Typed, Places
    <2> QED BY <2>1, <2>2, <1>0, <1>1, Frame DEF Typed
  <1>5. iter[r] = 0 /\ even[r] = 0 /\ op[r] = 1 /\ at'[r] = "gather"
    BY <1>0, <1>1 DEF Located, Typed
  <1>6. /\ \A n : ~Past(r, n) /\ ~Past(r, n)'
        /\ Before(r) = 0 /\ Before(r)' = 0
    BY <1>0, <1>5 DEF Past, Before
  <1>7. \A n \in 1 .. 4 : Times(r, n)' = Times(r, n)
    BY <1>6 DEF Times
  <1>8. Messages'
    <2>1. PICK p, q \in [Board!Ranks -> SUBSET Board!Sides] :
             Queues(p, q) /\ \A t \in Board!Ranks : \A side \in Board!Sides : Exchanging(p, q, t, side)
      BY <1>1 DEF Messages
    <2>2. p[r] = {} /\ q[r] = {}
      BY <2>1, <1>6 DEF Exchanging, Sending, Awaiting
    <2> QED BY <2>1, <2>2, <1>0, <1>2, <1>6, <1>7, SilentStep
  <1>9. Located(r)'
    <2>1. Came(r) = 0 /\ Came(r)' = 0
      BY <1>5, <1>6, <1>0 DEF Came
    <2>2. Board!Iterations \in Nat /\ Board!Iterations' = Board!Iterations
      BY <1>0, Frame, Arguments
    <2> QED BY <1>0, <1>5, <2>1, <2>2, <1>1 DEF Located
  <1>10. Boards(r)'
    <2>1. buf'[r][even'[r]] = Block(r, 0)
      BY <1>0, <1>1, <1>3, <1>5 DEF Typed
    <2>2. Block(r, 0)' = Block(r, 0)
      BY <1>0, Frame
    <2> QED BY <2>1, <2>2, <1>0, <1>5, <1>6 DEF Boards
  <1>11. Left(r)' = Left(r)
    BY <1>0, <1>5, <1>6 DEF Left
  <1>12. \A s \in Board!Ranks : Left(r)' <= entered'[s]
    BY <1>0, <1>1, <1>11 DEF InStep
  <1>13. entered'[r] >= entered[r]
    BY <1>0, <1>1 DEF Typed
  <1> QED BY <1>0, <1>1, <1>2, <1>4, <1>8, <1>9, <1>10, <1>12, <1>13, OutputKept, Together

\* MPI_Waitall: the receives are complete.
LEMMA WaitallStep ==
  ASSUME Board!LaunchParameters, launch \in Launches, Board!Accepts, Accepted, NEW r \in Board!Ranks, Board!Waitall(r)
  PROVE  Accepted'
  <1>0. /\ launch' = launch /\ at[r] = "waitall" /\ entered' = [entered EXCEPT ![r] = @ + 1]
        /\ at' = [at EXCEPT ![r] = "barrier"] /\ \A s \in Board!Ranks : posted[r][s] = <<>>
        /\ iter' = iter /\ even' = even /\ op' = op /\ mail' = mail /\ posted' = posted
        /\ ghost' = ghost /\ buf' = buf /\ gathered' = gathered /\ boards' = boards
    BY DEF Board!Waitall, Board!Complete
  <1>1. Typed /\ Output /\ InStep /\ Messages /\ Located(r) /\ Boards(r)
    BY DEF Accepted
  <1>2. Only(r)
    BY <1>0, <1>1 DEF Only, Typed
  <1>3. entered[r] \in Nat /\ entered'[r] = entered[r] + 1
    BY <1>0, <1>1 DEF Typed
  <1>4. Typed'
    <2>1. entered' \in [Board!Ranks -> Nat]
      BY <1>0, <1>1 DEF Typed
    <2>2. at' \in [Board!Ranks -> Places]
      BY <1>0, <1>1 DEF Typed, Places
    <2> QED BY <2>1, <2>2, <1>0, <1>1, Frame DEF Typed
  <1>5. /\ iter[r] \in 1 .. Board!Iterations /\ op[r] = 1 /\ at'[r] = "barrier" /\ iter'[r] = iter[r]
        /\ Board!Iterations \in Nat /\ Board!Iterations' = Board!Iterations
    BY <1>0, <1>1, Frame, Arguments DEF Located, Typed
  <1>6. /\ \A n : Past(r, n) /\ Past(r, n)'
        /\ Before(r)' = Before(r) /\ Before(r) \in Nat
    BY <1>0, <1>5 DEF Past, Before
  <1>7. \A n \in 1 .. 4 : Times(r, n)' = Times(r, n)
    BY <1>6 DEF Times
  <1>8. Messages'
    <2>1. PICK p, q \in [Board!Ranks -> SUBSET Board!Sides] :
             Queues(p, q) /\ \A t \in Board!Ranks : \A side \in Board!Sides : Exchanging(p, q, t, side)
      BY <1>1 DEF Messages
    <2>2. ASSUME NEW side \in Board!Sides, side \in q[r] PROVE FALSE
      <3>1. PICK d \in Board!Ranks : d = Board!Peer(r, side)
        BY Peers
      <3>2. Towards(q, r, d, side)
        BY <2>2, <3>1 DEF Towards
      <3>3. posted[r][d] = Pair(Towards(q, r, d, "south"), "south", Towards(q, r, d, "north"), "north")
        BY <2>1 DEF Queues
      <3>4. ~Towards(q, r, d, "south") /\ ~Towards(q, r, d, "north")
        BY <3>3, <1>0 DEF Pair
      <3> QED BY <3>2, <3>4 DEF Board!Sides
    <2>3. \A side \in p[r] : Message(r, side)' = Message(r, side) /\ Sending(p, r, side)'
      BY <1>0, <1>5, <1>6, Frame DEF Message, Sending
    <2>4. \A side \in Board!Sides : at[r] \in {"exchange", "waitall", "barrier"} /\ Past(r, RecvOp(side))
              /\ Before(r)' = Before(r)
      BY <1>0, <1>6
    <2>5. q[r] = {}
      BY <2>2
    <2> QED BY <2>1, <2>3, <2>4, <2>5, <1>0, <1>2, <1>7, SilentStep
  <1>9. Located(r)'
    <2>1. Came(r)' = Came(r) + 1 /\ Came(r) \in Nat
      BY <1>5, <1>6, <1>0 DEF Came
    <2> QED BY <1>0, <1>3, <1>5, <2>1, <1>1 DEF Located
  <1>10. Boards(r)'
    BY <1>0, <1>1, <1>5, <1>6, Frame DEF Boards
  <1>11. Left(r)' = Left(r) /\ Left(r) \in Nat
    BY <1>0, <1>5, <1>6 DEF Left
  <1>12. \A s \in Board!Ranks : Left(r)' <= entered'[s]
    <2>1. ASSUME NEW s \in Board!Ranks PROVE Left(r)' <= entered'[s]
      <3>1. Left(r) <= entered[s] /\ entered[s] \in Nat /\ entered'[s] \in {entered[s], entered[s] + 1}
        BY <1>0, <1>1 DEF InStep, Typed
      <3> QED BY <3>1, <1>11
    <2> QED BY <2>1
  <1>13. entered'[r] >= entered[r]
    BY <1>3
  <1> QED BY <1>0, <1>1, <1>2, <1>4, <1>8, <1>9, <1>10, <1>12, <1>13, OutputKept, Together

\* Every rank has received what r sent when the first barrier opens.
LEMMA AllMatched ==
  ASSUME Board!LaunchParameters, launch \in Launches, Accepted, NEW r \in Board!Ranks,
         at[r] = "barrier", Board!BarrierOpen(r),
         NEW p \in [Board!Ranks -> SUBSET Board!Sides], NEW q \in [Board!Ranks -> SUBSET Board!Sides],
         \A t \in Board!Ranks : \A side \in Board!Sides : Exchanging(p, q, t, side)
  PROVE  p[r] = {} /\ q[r] = {}
  <1>1. q[r] = {}
    BY DEF Exchanging, Awaiting
  <1>2. ASSUME NEW side \in Board!Sides, side \in p[r] PROVE FALSE
    <2>1. PICK d \in Board!Ranks : d = Board!Peer(r, side)
      BY Peers
    <2>2. PICK o \in Board!Sides : o = Opposite(side)
      BY Peers
    <2>3. /\ iter[r] \in 1 .. Board!Iterations /\ Board!Iterations \in Nat /\ Before(r) = iter[r] - 1
          /\ Past(r, SendOp(side)) /\ entered[r] = 2 * Before(r) + 1
          /\ Times(r, SendOp(side)) = Before(r) + 1
      <3>1. iter[r] \in 1 .. Board!Iterations /\ Board!Iterations \in Nat /\ entered[r] = Came(r)
        BY LocalFacts DEF Located
      <3> QED BY <3>1 DEF Before, Past, Came, Times
    <2>4. /\ entered[d] >= entered[r] /\ entered[d] = Came(d) /\ Left(d) <= entered[r]
          /\ Before(d) \in Nat /\ iter[d] \in Nat
      BY LocalFacts DEF Board!BarrierOpen, InStep, Accepted
    <2>5. Times(r, SendOp(side)) + (IF o \in q[d] THEN 1 ELSE 0) = Times(d, RecvOp(o)) + 1
      BY <1>2, <2>1, <2>2 DEF Exchanging, Counted
    <2>6. CASE Before(d) < Before(r)
      BY <2>3, <2>4, <2>6 DEF Came
    <2>7. CASE Before(d) > Before(r)
      BY <2>3, <2>4, <2>7 DEF Left
    <2>8. CASE Before(d) = Before(r)
      <3>1. iter[d] # 0 /\ at[d] \in {"barrier", "barrier2", "gather"}
        BY <2>3, <2>4, <2>8 DEF Came
      <3>2. o \notin q[d] /\ Times(d, RecvOp(o)) = Before(d) + 1
        BY <3>1 DEF Exchanging, Awaiting, Times, Past
      <3> QED BY <3>2, <2>3, <2>5, <2>8
    <2> QED BY <2>3, <2>4, <2>6, <2>7, <2>8
  <1> QED BY <1>1, <1>2

\* The new domain, out of the first barrier.
LEMMA ComputeStep ==
  ASSUME Board!LaunchParameters, launch \in Launches, Board!Accepts, Accepted, NEW r \in Board!Ranks, Board!Compute(r)
  PROVE  Accepted'
  <1>0. /\ launch' = launch /\ at[r] = "barrier" /\ entered' = [entered EXCEPT ![r] = @ + 1]
        /\ at' = [at EXCEPT ![r] = "barrier2"] /\ Board!BarrierOpen(r)
        /\ buf' = [buf EXCEPT ![r][1 - even[r]] =
              Board!LocalUpdate(buf[r][even[r]], ghost[r]["north"], ghost[r]["south"], Board!M, Board!Cols)]
        /\ iter' = iter /\ even' = even /\ op' = op /\ mail' = mail /\ posted' = posted
        /\ ghost' = ghost /\ gathered' = gathered /\ boards' = boards
    BY DEF Board!Compute
  <1>1. Typed /\ Output /\ InStep /\ Messages /\ Located(r) /\ Boards(r)
    BY DEF Accepted
  <1>2. Only(r)
    BY <1>0, <1>1 DEF Only, Typed
  <1>3. /\ entered[r] \in Nat /\ entered'[r] = entered[r] + 1
        /\ even[r] \in {0, 1} /\ 1 - even[r] \in {0, 1} /\ 1 - even[r] # even[r]
    BY <1>0, <1>1 DEF Typed
  <1>5. /\ iter[r] \in 1 .. Board!Iterations /\ op[r] = 1 /\ at'[r] = "barrier2" /\ iter'[r] = iter[r]
        /\ Board!Iterations \in Nat /\ Board!Iterations' = Board!Iterations
    BY <1>0, <1>1, Frame, Arguments DEF Located, Typed
  <1>6. /\ \A n : Past(r, n) /\ Past(r, n)'
        /\ Before(r)' = Before(r) /\ Before(r) = iter[r] - 1
        /\ Before(r) \in 0 .. Board!Iterations /\ Before(r) # Board!Iterations /\ Before(r) + 1 = iter[r]
    BY <1>0, <1>5 DEF Past, Before
  <1>7. \A n \in 1 .. 4 : Times(r, n)' = Times(r, n)
    BY <1>6 DEF Times
  <1>m. PICK p, q \in [Board!Ranks -> SUBSET Board!Sides] :
           Queues(p, q) /\ \A t \in Board!Ranks : \A side \in Board!Sides : Exchanging(p, q, t, side)
    BY <1>1 DEF Messages
  <1>n. p[r] = {} /\ q[r] = {}
    BY <1>0, <1>m, AllMatched
  <1>8. Messages'
    BY <1>m, <1>n, <1>0, <1>2, <1>5, <1>7, SilentStep
  <1>u. Board!LocalUpdate(buf[r][even[r]], ghost[r]["north"], ghost[r]["south"], Board!M, Board!Cols) = Block(r, iter[r])
    <2>1. buf[r][even[r]] = Block(r, Before(r))
      BY <1>0, <1>1 DEF Boards
    <2>2. ASSUME NEW side \in Board!Sides
          PROVE  ghost[r][side] = Board!EdgeRow(Block(Board!Peer(r, side), Before(r)), Opposite(side))
      BY <1>0, <1>m, <1>n, <1>6 DEF Exchanging, Received
    <2>3. /\ ghost[r]["north"] = Board!EdgeRow(Block(Board!Peer(r, "north"), Before(r)), "south")
          /\ ghost[r]["south"] = Board!EdgeRow(Block(Board!Peer(r, "south"), Before(r)), "north")
      BY <2>2 DEF Board!Sides, Opposite
    <2>4. Board!LocalUpdate(Block(r, Before(r)), Board!EdgeRow(Block(Board!Peer(r, "north"), Before(r)), "south"),
                      Board!EdgeRow(Block(Board!Peer(r, "south"), Before(r)), "north"), Board!M, Board!Cols) = Block(r, Before(r) + 1)
      <3> PICK k \in 0 .. Board!Iterations : k = Before(r)
        BY <1>6
      <3> QED BY <1>6, BlockUpdate
    <2> QED BY <2>1, <2>3, <2>4, <1>6
  <1>v. Block(r, iter[r]) \in [0 .. Board!M - 1 -> Cells]
    <2>1. iter[r] \in 0 .. Board!Iterations
      BY <1>5
    <2> QED BY <2>1, BlockRows
  <1>4. Typed'
    <2>1. entered' \in [Board!Ranks -> Nat]
      BY <1>0, <1>1 DEF Typed
    <2>2. at' \in [Board!Ranks -> Places]
      BY <1>0, <1>1 DEF Typed, Places
    <2>3. buf' \in [Board!Ranks -> [{0, 1} -> [0 .. Board!M - 1 -> Cells]]]
      BY <1>0, <1>1, <1>3, <1>u, <1>v DEF Typed
    <2> QED BY <2>1, <2>2, <2>3, <1>0, <1>1, Frame DEF Typed
  <1>9. Located(r)'
    <2>1. Came(r)' = Came(r) + 1 /\ Came(r) \in Nat
      BY <1>5, <1>6, <1>0 DEF Came
    <2> QED BY <1>0, <1>3, <1>5, <2>1, <1>1 DEF Located
  <1>10. Boards(r)'
    <2>1. buf'[r][even[r]] = buf[r][even[r]] /\ buf'[r][1 - even[r]] = Block(r, iter[r])
      BY <1>0, <1>1, <1>3, <1>u DEF Typed
    <2>2. \A k : Block(r, k)' = Block(r, k)
      BY <1>0, Frame
    <2> QED BY <2>1, <2>2, <1>0, <1>1, <1>5, <1>6 DEF Boards
  <1>11. Left(r)' = entered[r]
    <2>1. entered[r] = 2 * Before(r) + 1
      BY <1>0, <1>1, <1>5 DEF Located, Came
    <2> QED BY <2>1, <1>0, <1>5, <1>6 DEF Left
  <1>12. \A s \in Board!Ranks : Left(r)' <= entered'[s]
    <2>1. ASSUME NEW s \in Board!Ranks PROVE Left(r)' <= entered'[s]
      <3>1. entered[r] <= entered[s] /\ entered[s] \in Nat /\ entered'[s] \in {entered[s], entered[s] + 1}
        BY <1>0, <1>1 DEF Board!BarrierOpen, Typed
      <3> QED BY <3>1, <1>3, <1>11
    <2> QED BY <2>1
  <1>13. entered'[r] >= entered[r]
    BY <1>3
  <1> QED BY <1>0, <1>1, <1>2, <1>4, <1>8, <1>9, <1>10, <1>12, <1>13, OutputKept, Together

\* Out of the second barrier.
LEMMA Barrier2Step ==
  ASSUME Board!LaunchParameters, launch \in Launches, Board!Accepts, Accepted, NEW r \in Board!Ranks, Board!Barrier2(r)
  PROVE  Accepted'
  <1>0. /\ launch' = launch /\ at[r] = "barrier2" /\ entered' = entered
        /\ at' = [at EXCEPT ![r] = "gather"] /\ Board!BarrierOpen(r) /\ buf' = buf
        /\ iter' = iter /\ even' = even /\ op' = op /\ mail' = mail /\ posted' = posted
        /\ ghost' = ghost /\ gathered' = gathered /\ boards' = boards
    BY DEF Board!Barrier2
  <1>1. Typed /\ Output /\ InStep /\ Messages /\ Located(r) /\ Boards(r)
    BY DEF Accepted
  <1>2. Only(r)
    BY <1>0, <1>1 DEF Only, Typed
  <1>4. Typed'
    <2>2. at' \in [Board!Ranks -> Places]
      BY <1>0, <1>1 DEF Typed, Places
    <2> QED BY <2>2, <1>0, <1>1, Frame DEF Typed
  <1>5. /\ iter[r] \in 1 .. Board!Iterations /\ op[r] = 1 /\ at'[r] = "gather" /\ iter'[r] = iter[r]
        /\ Board!Iterations \in Nat /\ Board!Iterations' = Board!Iterations /\ entered[r] \in Nat
    BY <1>0, <1>1, Frame, Arguments DEF Located, Typed
  <1>6. /\ \A n : Past(r, n) /\ Past(r, n)'
        /\ Before(r)' = Before(r) /\ Before(r) \in Nat
    BY <1>0, <1>5 DEF Past, Before
  <1>7. \A n \in 1 .. 4 : Times(r, n)' = Times(r, n)
    BY <1>6 DEF Times
  <1>8. Messages'
    <2>1. PICK p, q \in [Board!Ranks -> SUBSET Board!Sides] :
             Queues(p, q) /\ \A t \in Board!Ranks : \A side \in Board!Sides : Exchanging(p, q, t, side)
      BY <1>1 DEF Messages
    <2>2. p[r] = {} /\ q[r] = {}
      BY <2>1, <1>0 DEF Exchanging, Sending, Awaiting
    <2> QED BY <2>1, <2>2, <1>0, <1>2, <1>5, <1>7, SilentStep
  <1>9. Located(r)'
    <2>1. Came(r)' = Came(r)
      BY <1>5, <1>6, <1>0 DEF Came
    <2> QED BY <1>0, <1>5, <2>1, <1>1 DEF Located
  <1>10. Boards(r)'
    BY <1>0, <1>1, <1>5, <1>6, Frame DEF Boards
  <1>11. Left(r)' = entered[r]
    <2>1. entered[r] = 2 * Before(r) + 2
      BY <1>0, <1>1, <1>5 DEF Located, Came
    <2> QED BY <2>1, <1>0, <1>5, <1>6 DEF Left
  <1>12. \A s \in Board!Ranks : Left(r)' <= entered'[s]
    BY <1>0, <1>1, <1>11 DEF Board!BarrierOpen, Typed
  <1>13. entered'[r] >= entered[r]
    BY <1>0, <1>5
  <1> QED BY <1>0, <1>1, <1>2, <1>4, <1>8, <1>9, <1>10, <1>12, <1>13, OutputKept, Together

\* The end.
LEMMA FinalizeStep ==
  ASSUME Board!LaunchParameters, launch \in Launches, Board!Accepts, Accepted, NEW r \in Board!Ranks, Board!Finalize(r)
  PROVE  Accepted'
  <1>0. /\ launch' = launch /\ at[r] = "finalize" /\ entered' = entered
        /\ at' = [at EXCEPT ![r] = "done"] /\ buf' = buf
        /\ iter' = iter /\ even' = even /\ op' = op /\ mail' = mail /\ posted' = posted
        /\ ghost' = ghost /\ gathered' = gathered /\ boards' = boards
    BY DEF Board!Finalize
  <1>1. Typed /\ Output /\ InStep /\ Messages /\ Located(r) /\ Boards(r)
    BY DEF Accepted
  <1>2. Only(r)
    BY <1>0, <1>1 DEF Only, Typed
  <1>4. Typed'
    <2>2. at' \in [Board!Ranks -> Places]
      BY <1>0, <1>1 DEF Typed, Places
    <2> QED BY <2>2, <1>0, <1>1, Frame DEF Typed
  <1>5. /\ iter[r] = Board!Iterations + 1 /\ op[r] = 1 /\ at'[r] = "done" /\ iter'[r] = iter[r]
        /\ Board!Iterations \in Nat /\ Board!Iterations' = Board!Iterations /\ entered[r] \in Nat
    BY <1>0, <1>1, Frame, Arguments DEF Located, Typed
  <1>6. /\ \A n : ~Past(r, n) /\ ~Past(r, n)'
        /\ Before(r)' = Before(r) /\ Before(r) \in Nat
    BY <1>0, <1>5 DEF Past, Before
  <1>7. \A n \in 1 .. 4 : Times(r, n)' = Times(r, n)
    BY <1>6 DEF Times
  <1>8. Messages'
    <2>1. PICK p, q \in [Board!Ranks -> SUBSET Board!Sides] :
             Queues(p, q) /\ \A t \in Board!Ranks : \A side \in Board!Sides : Exchanging(p, q, t, side)
      BY <1>1 DEF Messages
    <2>2. p[r] = {} /\ q[r] = {}
      BY <2>1, <1>0 DEF Exchanging, Sending, Awaiting
    <2> QED BY <2>1, <2>2, <1>0, <1>2, <1>5, <1>7, SilentStep
  <1>9. Located(r)'
    <2>1. Came(r)' = Came(r)
      BY <1>5, <1>6, <1>0 DEF Came
    <2> QED BY <1>0, <1>5, <2>1, <1>1 DEF Located
  <1>10. Boards(r)'
    BY <1>0, <1>1, <1>5, <1>6, Frame DEF Boards
  <1>11. Left(r)' = Left(r)
    BY <1>0, <1>5, <1>6 DEF Left
  <1>12. \A s \in Board!Ranks : Left(r)' <= entered'[s]
    BY <1>0, <1>1, <1>11 DEF InStep
  <1>13. entered'[r] >= entered[r]
    BY <1>0, <1>5
  <1> QED BY <1>0, <1>1, <1>2, <1>4, <1>8, <1>9, <1>10, <1>12, <1>13, OutputKept, Together

\* A rank contributes the board it has computed, and goes round.
LEMMA Advance ==
  ASSUME Board!LaunchParameters, launch \in Launches, Board!Accepts, Accepted, NEW r \in Board!Ranks,
         at[r] = "gather", Board!NextIteration(r),
         launch' = launch, buf' = buf, op' = op, mail' = mail, posted' = posted,
         ghost' = ghost, entered' = entered
  PROVE  /\ Only(r) /\ Typed' /\ Messages' /\ Located(r)' /\ Boards(r)'
         /\ entered'[r] >= entered[r] /\ \A s \in Board!Ranks : Left(r)' <= entered'[s]
         /\ iter[r] \in 0 .. Board!Iterations /\ iter' = [iter EXCEPT ![r] = @ + 1]
         /\ Board!Contribution(r) = Block(r, iter[r])
  <1>0. /\ even' = [even EXCEPT ![r] = IF iter[r] = 0 THEN @ ELSE 1 - @]
        /\ iter' = [iter EXCEPT ![r] = @ + 1]
        /\ at' = [at EXCEPT ![r] = IF iter[r] < Board!Iterations THEN "exchange" ELSE "finalize"]
    BY DEF Board!NextIteration
  <1>1. Typed /\ InStep /\ Messages /\ Located(r) /\ Boards(r)
    BY DEF Accepted
  <1>2. Only(r)
    BY <1>0, <1>1 DEF Only, Typed
  <1>3. /\ iter[r] \in 0 .. Board!Iterations /\ op[r] = 1 /\ iter'[r] = iter[r] + 1 /\ iter'[r] # 0
        /\ iter'[r] <= Board!Iterations + 1
        /\ Board!Iterations \in Nat /\ Board!Iterations' = Board!Iterations /\ entered[r] \in Nat
        /\ at'[r] = IF iter[r] < Board!Iterations THEN "exchange" ELSE "finalize"
        /\ even[r] \in {0, 1} /\ 1 - even[r] \in {0, 1}
        /\ even'[r] = IF iter[r] = 0 THEN even[r] ELSE 1 - even[r]
    <2>1. Board!Iterations \in Nat /\ Board!Iterations' = Board!Iterations
      BY Frame, Arguments
    <2>2. iter[r] \in 0 .. Board!Iterations /\ op[r] = 1
      BY <1>1, <2>1 DEF Typed, Located
    <2> QED BY <1>0, <1>1, <2>1, <2>2 DEF Typed
  <1>4. Typed'
    <2>1. at' \in [Board!Ranks -> Places]
      BY <1>0, <1>1 DEF Typed, Places
    <2>2. iter' \in [Board!Ranks -> 0 .. Board!Iterations + 1]
      BY <1>0, <1>1, <1>3 DEF Typed
    <2>3. even' \in [Board!Ranks -> {0, 1}]
      BY <1>0, <1>1, <1>3 DEF Typed
    <2> QED BY <2>1, <2>2, <2>3, <1>0, <1>1, Frame DEF Typed
  <1>6. Before(r)' = iter[r]
    BY <1>3 DEF Before
  <1>7. \A n \in 1 .. 4 : ~Past(r, n)' /\ Times(r, n)' = iter[r] /\ Times(r, n) = iter[r]
    <2>1. \A n \in 1 .. 4 : ~Past(r, n)'
      BY <1>3 DEF Past
    <2>2. \A n \in 1 .. 4 : Times(r, n)' = iter[r]
      BY <2>1, <1>3, <1>6 DEF Times
    <2>3. \A n \in 1 .. 4 : Times(r, n) = iter[r]
      BY <1>3 DEF Times, Past, Before
    <2> QED BY <2>1, <2>2, <2>3
  <1>8. Messages'
    <2>1. PICK p, q \in [Board!Ranks -> SUBSET Board!Sides] :
             Queues(p, q) /\ \A t \in Board!Ranks : \A side \in Board!Sides : Exchanging(p, q, t, side)
      BY <1>1 DEF Messages
    <2>2. p[r] = {} /\ q[r] = {}
      BY <2>1 DEF Exchanging, Sending, Awaiting
    <2>3. \A side \in Board!Sides : ~Past(r, RecvOp(side))'
      <3>1. \A side \in Board!Sides : RecvOp(side) \in 1 .. 4
        BY DEF RecvOp
      <3> QED BY <3>1, <1>7
    <2>4. \A n \in 1 .. 4 : Times(r, n)' = Times(r, n)
      BY <1>7
    <2> QED BY <2>1, <2>2, <2>3, <2>4, <1>2, SilentStep
  <1>9. Located(r)'
    <2>1. Came(r)' = 2 * iter[r] /\ Came(r) = 2 * iter[r]
      BY <1>3, <1>6 DEF Came, Before
    <2> QED BY <1>3, <2>1, <1>1 DEF Located
  <1>10. Board!Contribution(r) = Block(r, iter[r]) /\ buf'[r][even'[r]] = Block(r, iter[r])
    BY <1>1, <1>3 DEF Board!Contribution, Boards, Before
  <1>11. Boards(r)'
    <2>1. \A k : Block(r, k)' = Block(r, k)
      BY Frame
    <2> QED BY <2>1, <1>10, <1>3, <1>6 DEF Boards
  <1>12. Left(r)' = Left(r)
    BY <1>3, <1>6 DEF Left, Before
  <1>13. \A s \in Board!Ranks : Left(r)' <= entered'[s]
    BY <1>1, <1>12 DEF InStep
  <1>14. entered'[r] >= entered[r]
    BY <1>3
  <1> QED BY <1>0, <1>2, <1>3, <1>4, <1>8, <1>9, <1>10, <1>11, <1>13, <1>14

\* A rank other than 0 contributes its rows.
LEMMA GatherStep ==
  ASSUME Board!LaunchParameters, launch \in Launches, Board!Accepts, Accepted, NEW r \in Board!Ranks, Board!Gather(r)
  PROVE  Accepted'
  <1>0. /\ at[r] = "gather" /\ r # 0 /\ Board!NextIteration(r) /\ launch' = launch /\ buf' = buf /\ op' = op
        /\ mail' = mail /\ posted' = posted /\ ghost' = ghost /\ entered' = entered
        /\ gathered' = [gathered EXCEPT ![r] = Append(@, Board!Contribution(r))] /\ boards' = boards
    BY DEF Board!Gather
  <1>1. Output /\ Typed
    BY DEF Accepted
  <1>2. /\ Only(r) /\ Typed' /\ Messages' /\ Located(r)' /\ Boards(r)'
        /\ entered'[r] >= entered[r] /\ \A s \in Board!Ranks : Left(r)' <= entered'[s]
        /\ iter[r] \in 0 .. Board!Iterations /\ iter' = [iter EXCEPT ![r] = @ + 1]
        /\ Board!Contribution(r) = Block(r, iter[r])
    BY <1>0, Advance
  <1>3. /\ Board!Rows' = Board!Rows /\ Cells' = Cells /\ Board!M' = Board!M /\ Board!Ranks' = Board!Ranks /\ ParallelBoard' = ParallelBoard
        /\ \A s, k : Block(s, k)' = Block(s, k)
    BY <1>0, Frame
  <1>4. Block(r, iter[r]) \in [0 .. Board!M - 1 -> Cells]
    BY <1>2, BlockRows
  <1>5. /\ boards' \in Seq([0 .. Board!Rows - 1 -> Cells])
        /\ \A j \in 1 .. Len(boards') : boards'[j] = ParallelBoard[j - 1]
    BY <1>0, <1>1 DEF Output
  <1>6. Len(boards') = iter'[0]
    BY <1>0, <1>1, <1>2, Arguments DEF Output, Typed
  <1>7. gathered' \in [Board!Ranks -> Seq([0 .. Board!M - 1 -> Cells])]
    BY <1>0, <1>1, <1>2, <1>4 DEF Output
  <1>8. ASSUME NEW s \in Board!Ranks \ {0}
        PROVE  /\ Len(gathered'[s]) = iter'[s] - Len(boards')
               /\ \A j \in 1 .. Len(gathered'[s]) : gathered'[s][j] = Block(s, Len(boards') + j - 1)
    <2>1. /\ Len(gathered[s]) = iter[s] - Len(boards) /\ gathered[s] \in Seq([0 .. Board!M - 1 -> Cells])
          /\ \A j \in 1 .. Len(gathered[s]) : gathered[s][j] = Block(s, Len(boards) + j - 1)
          /\ Len(boards) \in Nat /\ iter[s] \in Int
      <3>1. iter[s] \in Int
        BY <1>1, Arguments DEF Typed
      <3> QED BY <1>1, <3>1 DEF Output
    <2>2. CASE s # r
      BY <2>1, <2>2, <1>0, <1>1, <1>2 DEF Output, Typed
    <2>3. CASE s = r
      <3>1. gathered'[s] = Append(gathered[s], Block(s, iter[s])) /\ iter'[s] = iter[s] + 1
        BY <2>3, <1>0, <1>1, <1>2 DEF Output, Typed
      <3>2. Len(gathered'[s]) = Len(gathered[s]) + 1
        BY <3>1, <2>1, <2>3, <1>4
      <3>3. ASSUME NEW j \in 1 .. Len(gathered'[s]) PROVE gathered'[s][j] = Block(s, Len(boards) + j - 1)
        <4>1. CASE j = Len(gathered[s]) + 1
          <5>1. Len(boards) + j - 1 = iter[s]
            BY <4>1, <2>1
          <5> QED BY <5>1, <4>1, <3>1, <2>1, <2>3, <1>4
        <4>2. CASE j \in 1 .. Len(gathered[s])
          BY <4>2, <3>1, <2>1, <2>3, <1>4
        <4> QED BY <4>1, <4>2, <3>2, <2>1
      <3> QED BY <3>1, <3>2, <3>3, <2>1, <1>0
    <2> QED BY <2>2, <2>3
  <1>9. Output'
    BY <1>3, <1>5, <1>6, <1>7, <1>8 DEF Output
  <1> QED BY <1>2, <1>9, Together

\* The blocks of a board, one below the other, are the board.
LEMMA BoardOfBlocks ==
  ASSUME Board!LaunchParameters, launch \in Launches, Board!Accepts, NEW k \in 0 .. Board!Iterations
  PROVE  [h \in 0 .. Board!Procs * Board!M - 1 |-> Block(h \div Board!M, k)[h % Board!M]] = ParallelBoard[k]
  <1>1. /\ Board!Procs \in Nat \ {0} /\ Board!M \in Nat \ {0} /\ Board!Rows = Board!M * Board!Procs /\ Board!Rows \in Nat
        /\ Board!M * Board!Procs = Board!Procs * Board!M
    BY Arguments
  <1>2. ParallelBoard[k] \in [0 .. Board!Rows - 1 -> Cells]
    BY BoardRows
  <1>3. ASSUME NEW h \in 0 .. Board!Procs * Board!M - 1
        PROVE  Block(h \div Board!M, k)[h % Board!M] = ParallelBoard[k][h]
    <2>1. h % Board!M \in 0 .. Board!M - 1 /\ (h \div Board!M) * Board!M + (h % Board!M) = h
      BY <1>1, RowSplit
    <2> QED BY <2>1 DEF Block
  <1> QED BY <1>1, <1>2, <1>3

\* Rank 0 takes the rows of all ranks and prints.
LEMMA GatherRootStep ==
  ASSUME Board!LaunchParameters, launch \in Launches, Board!Accepts, Accepted, Board!GatherRoot
  PROVE  Accepted'
  <1> DEFINE part == [s \in Board!Ranks |-> IF s = 0 THEN Board!Contribution(0) ELSE Head(gathered[s])]
             board == [h \in 0 .. Board!Procs * Board!M - 1 |-> part[h \div Board!M][h % Board!M]]
  <1>0. /\ at[0] = "gather" /\ Board!NextIteration(0) /\ launch' = launch /\ buf' = buf /\ op' = op
        /\ mail' = mail /\ posted' = posted /\ ghost' = ghost /\ entered' = entered
        /\ boards' = Append(boards, board) /\ \A s \in Board!Ranks \ {0} : gathered[s] # <<>>
        /\ gathered' = [s \in Board!Ranks |-> IF s = 0 THEN <<>> ELSE Tail(gathered[s])]
    BY DEF Board!GatherRoot
  <1>1. Output /\ Typed
    BY DEF Accepted
  <1>z. 0 \in Board!Ranks /\ Board!Iterations \in Nat
    BY Arguments
  <1>2. /\ Only(0) /\ Typed' /\ Messages' /\ Located(0)' /\ Boards(0)'
        /\ entered'[0] >= entered[0] /\ \A s \in Board!Ranks : Left(0)' <= entered'[s]
        /\ iter[0] \in 0 .. Board!Iterations /\ iter' = [iter EXCEPT ![0] = @ + 1]
        /\ Board!Contribution(0) = Block(0, iter[0])
    BY <1>z, <1>0, Advance
  <1>3. /\ Board!Rows' = Board!Rows /\ Cells' = Cells /\ Board!M' = Board!M /\ Board!Ranks' = Board!Ranks /\ ParallelBoard' = ParallelBoard
        /\ \A s, k : Block(s, k)' = Block(s, k)
    BY <1>0, Frame
  <1>4. PICK k \in 0 .. Board!Iterations : k = iter[0] /\ k = Len(boards)
    BY <1>1, <1>2 DEF Output
  <1>g. ASSUME NEW s \in Board!Ranks \ {0}
        PROVE  /\ gathered[s] \in Seq([0 .. Board!M - 1 -> Cells]) /\ Len(gathered[s]) = iter[s] - k
               /\ Len(gathered[s]) \in Nat \ {0} /\ Head(gathered[s]) = gathered[s][1]
               /\ \A j \in 1 .. Len(gathered[s]) : gathered[s][j] = Block(s, k + j - 1)
    <2>1. /\ gathered[s] \in Seq([0 .. Board!M - 1 -> Cells]) /\ Len(gathered[s]) = iter[s] - k
          /\ \A j \in 1 .. Len(gathered[s]) : gathered[s][j] = Block(s, k + j - 1)
      BY <1>1, <1>4 DEF Output
    <2>2. gathered[s] # <<>>
      BY <1>0
    <2> QED BY <2>1, <2>2
  <1>5. \A s \in Board!Ranks : part[s] = Block(s, k)
    <2>1. ASSUME NEW s \in Board!Ranks, s # 0 PROVE Head(gathered[s]) = Block(s, k)
      <3>1. 1 \in 1 .. Len(gathered[s]) /\ k + 1 - 1 = k
        BY <1>g, <2>1
      <3> QED BY <3>1, <1>g, <2>1
    <2> QED BY <2>1, <1>2, <1>4
  <1>6. board = ParallelBoard[k]
    <2>1. ASSUME NEW h \in 0 .. Board!Procs * Board!M - 1 PROVE h \div Board!M \in Board!Ranks
      <3>1. Board!Procs \in Nat \ {0} /\ Board!M \in Nat \ {0} /\ Board!Ranks = 0 .. Board!Procs - 1
        BY Arguments
      <3> QED BY <3>1, RowSplit
    <2>2. board = [h \in 0 .. Board!Procs * Board!M - 1 |-> Block(h \div Board!M, k)[h % Board!M]]
      <3> HIDE DEF part
      <3> QED BY <2>1, <1>5
    <2> HIDE DEF board
    <2> QED BY <2>2, BoardOfBlocks
  <1>7. ParallelBoard[k] \in [0 .. Board!Rows - 1 -> Cells]
    BY BoardRows
  <1> HIDE DEF part, board
  <1>8. boards' = Append(boards, ParallelBoard[k]) /\ boards \in Seq([0 .. Board!Rows - 1 -> Cells])
    BY <1>0, <1>1, <1>6 DEF Output
  <1>9. boards' \in Seq([0 .. Board!Rows - 1 -> Cells]) /\ Len(boards') = k + 1
    BY <1>8, <1>7, <1>4
  <1>10. \A j \in 1 .. Len(boards') : boards'[j] = ParallelBoard[j - 1]
    <2>1. ASSUME NEW j \in 1 .. Len(boards') PROVE boards'[j] = ParallelBoard[j - 1]
      <3>1. CASE j = k + 1
        <4>1. j - 1 = k
          BY <3>1
        <4> QED BY <4>1, <3>1, <1>8, <1>4, <1>7
      <3>2. CASE j \in 1 .. k
        <4>1. boards'[j] = boards[j]
          BY <3>2, <1>8, <1>4, <1>7
        <4> QED BY <4>1, <3>2, <1>1, <1>4 DEF Output
      <3> QED BY <3>1, <3>2, <1>9
    <2> QED BY <2>1
  <1>11. Len(boards') = iter'[0]
    BY <1>9, <1>4, <1>2, <1>1, <1>z DEF Typed
  <1>12. gathered' \in [Board!Ranks -> Seq([0 .. Board!M - 1 -> Cells])]
    <2>1. \A s \in Board!Ranks : gathered'[s] \in Seq([0 .. Board!M - 1 -> Cells])
      BY <1>0, <1>g
    <2> QED BY <2>1, <1>0
  <1>13. ASSUME NEW s \in Board!Ranks \ {0}
         PROVE  /\ Len(gathered'[s]) = iter'[s] - Len(boards')
                /\ \A j \in 1 .. Len(gathered'[s]) : gathered'[s][j] = Block(s, Len(boards') + j - 1)
    <2>1. gathered'[s] = Tail(gathered[s]) /\ iter'[s] = iter[s] /\ iter[s] \in Int
      BY <1>0, <1>1, <1>2, <1>z DEF Typed
    <2>2. Len(gathered'[s]) = Len(gathered[s]) - 1
      BY <2>1, <1>g
    <2>3. ASSUME NEW j \in 1 .. Len(gathered'[s]) PROVE gathered'[s][j] = Block(s, Len(boards') + j - 1)
      <3>1. gathered'[s][j] = gathered[s][j + 1] /\ j + 1 \in 1 .. Len(gathered[s])
        BY <2>1, <2>2, <1>g
      <3>2. k + (j + 1) - 1 = Len(boards') + j - 1
        BY <1>9
      <3> QED BY <3>1, <3>2, <1>g
    <2>4. Len(gathered'[s]) = iter'[s] - Len(boards')
      BY <2>1, <2>2, <1>9, <1>g
    <2> QED BY <2>3, <2>4
  <1>14. Output'
    BY <1>3, <1>9, <1>10, <1>11, <1>12, <1>13 DEF Output
  <1> QED BY <1>2, <1>14, <1>z, Together

-----------------------------------------------------------------------------
\* The exchange.

\* The four calls in their order.
LEMMA ExchangeCalls ==
  ASSUME NEW n \in 1 .. 4
  PROVE  /\ Len(Board!Exchange) = 4 /\ Board!Exchange[n].side \in Board!Sides
         /\ Board!Exchange[n].call = "isend" => n = SendOp(Board!Exchange[n].side) /\ n \in {1, 3}
         /\ Board!Exchange[n].call # "isend" => n = RecvOp(Board!Exchange[n].side) /\ n \in {2, 4}
  <1>1. n = 1 \/ n = 2 \/ n = 3 \/ n = 4
    OBVIOUS
  <1> QED BY <1>1 DEF Board!Exchange, Board!Sides, SendOp, RecvOp

\* The count after a step, from the numbers after it.
LEMMA NextCounted ==
  ASSUME launch' = launch, NEW s, NEW side, NEW d, d = Board!Peer(s, side), NEW p, NEW q,
         Times(s, SendOp(side))' + (IF Opposite(side) \in q[d] THEN 1 ELSE 0)
           = Times(d, RecvOp(Opposite(side)))' + (IF side \in p[s] THEN 1 ELSE 0)
  PROVE  Counted(p, q, s, side)'
  <1>1. Board!Peer(s, side)' = d
    BY Frame
  <1>2. Times(Board!Peer(s, side), RecvOp(Opposite(side)))' = Times(d, RecvOp(Opposite(side)))'
    BY <1>1 DEF Times, Past, Before
  <1> QED BY <1>1, <1>2 DEF Counted

\* What every call of the exchange does.
LEMMA PostFacts ==
  ASSUME Board!LaunchParameters, launch \in Launches, Board!Accepts, Accepted, NEW r \in Board!Ranks, Board!Post(r)
  PROVE  /\ Only(r) /\ Typed' /\ Output' /\ Located(r)' /\ Boards(r)'
         /\ entered'[r] >= entered[r] /\ \A s \in Board!Ranks : Left(r)' <= entered'[s]
         /\ op[r] \in 1 .. 4 /\ at[r] = "exchange" /\ at'[r] \in {"exchange", "waitall"}
         /\ Before(r)' = Before(r)
         /\ \A m \in 1 .. 4 : (Past(r, m) <=> m < op[r]) /\ (Past(r, m)' <=> m <= op[r])
         /\ \A t \in Board!Ranks : \A m \in 1 .. 4 :
               Times(t, m)' = Times(t, m) + IF t = r /\ m = op[r] THEN 1 ELSE 0
         /\ \A t \in Board!Ranks \ {r} : \A m : Past(t, m)' <=> Past(t, m)
         /\ \A t \in Board!Ranks : Before(t)' = Before(t) /\ \A side : Message(t, side)' = Message(t, side)
  <1>0. /\ at[r] = "exchange" /\ launch' = launch /\ op' = [op EXCEPT ![r] = (@ % Len(Board!Exchange)) + 1]
        /\ at' = [at EXCEPT ![r] = IF op[r] = Len(Board!Exchange) THEN "waitall" ELSE "exchange"]
        /\ iter' = iter /\ buf' = buf /\ even' = even /\ ghost' = ghost /\ entered' = entered
        /\ gathered' = gathered /\ boards' = boards
    BY DEF Board!Post
  <1>1. Typed /\ Output /\ InStep /\ Located(r) /\ Boards(r)
    BY DEF Accepted
  <1>2. Only(r)
    BY <1>0, <1>1 DEF Only, Typed
  <1>3. /\ op[r] \in 1 .. 4 /\ Len(Board!Exchange) = 4 /\ iter[r] \in 1 .. Board!Iterations /\ Board!Iterations \in Nat
        /\ Board!Iterations' = Board!Iterations
    BY <1>0, <1>1, ExchangeCalls, Arguments, Frame DEF Typed, Located
  <1>4. \/ op[r] = 4 /\ op'[r] = 1 /\ at'[r] = "waitall"
        \/ op[r] \in 1 .. 3 /\ op'[r] = op[r] + 1 /\ at'[r] = "exchange"
    <2>1. op'[r] = (op[r] % 4) + 1
      BY <1>0, <1>1, <1>3 DEF Typed
    <2>2. at'[r] = IF op[r] = 4 THEN "waitall" ELSE "exchange"
      BY <1>0, <1>1, <1>3 DEF Typed
    <2>3. op[r] = 1 \/ op[r] = 2 \/ op[r] = 3 \/ op[r] = 4
      BY <1>3
    <2> QED BY <2>1, <2>2, <2>3
  <1>5. Typed'
    <2>1. at' \in [Board!Ranks -> Places]
      BY <1>0, <1>1 DEF Typed, Places
    <2>2. op' \in [Board!Ranks -> 1 .. 4]
      BY <1>0, <1>1, <1>4 DEF Typed
    <2> QED BY <2>1, <2>2, <1>0, <1>1, Frame DEF Typed
  <1>6. Output'
    BY <1>0, <1>1, OutputKept
  <1>7. Before(r)' = Before(r) /\ Before(r) \in Nat
    BY <1>0, <1>3 DEF Before
  <1>8. \A m \in 1 .. 4 : (Past(r, m) <=> m < op[r]) /\ (Past(r, m)' <=> m <= op[r])
    BY <1>0, <1>3, <1>4 DEF Past
  <1>9. Located(r)'
    <2>1. Came(r)' = Came(r)
      BY <1>0, <1>4, <1>7 DEF Came
    <2> QED BY <2>1, <1>0, <1>1, <1>3, <1>4 DEF Located
  <1>10. Boards(r)'
    BY <1>0, <1>1, <1>4, <1>7, Frame DEF Boards
  <1>11. Left(r)' = Left(r)
    BY <1>0, <1>4, <1>7 DEF Left
  <1>12. /\ \A s \in Board!Ranks : Left(r)' <= entered'[s]
         /\ entered'[r] >= entered[r]
    BY <1>0, <1>1, <1>11 DEF InStep, Typed
  <1>13. ASSUME NEW t \in Board!Ranks, t # r
         PROVE  /\ Before(t)' = Before(t) /\ \A side : Message(t, side)' = Message(t, side)
                /\ \A m : Times(t, m)' = Times(t, m) /\ (Past(t, m)' <=> Past(t, m))
    BY <1>0, <1>2, <1>13, Untouched DEF Only
  <1>14. \A side : Message(r, side)' = Message(r, side)
    BY <1>0, Frame DEF Message
  <1>15. \A m \in 1 .. 4 : Times(r, m)' = Times(r, m) + IF m = op[r] THEN 1 ELSE 0
    BY <1>3, <1>7, <1>8 DEF Times
  <1>16. ASSUME NEW t \in Board!Ranks, NEW m \in 1 .. 4
         PROVE  Times(t, m)' = Times(t, m) + IF t = r /\ m = op[r] THEN 1 ELSE 0
    <2>1. Times(t, m) \in Nat
      BY LocalFacts
    <2> QED BY <2>1, <1>13, <1>15
  <1>17. at'[r] \in {"exchange", "waitall"}
    BY <1>4
  <1> QED BY <1>0, <1>2, <1>3, <1>5, <1>6, <1>7, <1>8, <1>9, <1>10, <1>12, <1>13, <1>14, <1>16, <1>17

\* MPI_Isend.
LEMMA SendStep ==
  ASSUME Board!LaunchParameters, launch \in Launches, Board!Accepts, Accepted, NEW r \in Board!Ranks, Board!Post(r),
         Board!Exchange[op[r]].call = "isend"
  PROVE  Messages'
  <1>1. /\ Only(r) /\ op[r] \in 1 .. 4 /\ at[r] = "exchange" /\ at'[r] \in {"exchange", "waitall"}
        /\ \A m \in 1 .. 4 : (Past(r, m) <=> m < op[r]) /\ (Past(r, m)' <=> m <= op[r])
        /\ \A t \in Board!Ranks : \A m \in 1 .. 4 :
              Times(t, m)' = Times(t, m) + IF t = r /\ m = op[r] THEN 1 ELSE 0
        /\ \A t \in Board!Ranks \ {r} : \A m : Past(t, m)' <=> Past(t, m)
        /\ \A t \in Board!Ranks : Before(t)' = Before(t) /\ \A side : Message(t, side)' = Message(t, side)
    BY PostFacts
  <1>2. PICK side \in Board!Sides : side = Board!Exchange[op[r]].side
    BY <1>1, ExchangeCalls
  <1>3. PICK peer \in Board!Ranks : peer = Board!Peer(r, side)
    BY Peers
  <1>4. op[r] = SendOp(side) /\ op[r] \in {1, 3}
    BY <1>1, <1>2, ExchangeCalls
  <1>5. /\ launch' = launch /\ posted' = posted /\ ghost' = ghost
        /\ mail' = [mail EXCEPT ![r][peer] = Append(@, Message(r, side))]
    BY <1>2, <1>3 DEF Board!Post, Message
  <1>6. Board!Ranks' = Board!Ranks
    BY <1>5, Frame
  <1>7. PICK p, q \in [Board!Ranks -> SUBSET Board!Sides] :
           Queues(p, q) /\ \A t \in Board!Ranks : \A o \in Board!Sides : Exchanging(p, q, t, o)
    BY DEF Accepted, Messages
  <1>8. \A o \in Board!Sides : SendOp(o) \in 1 .. 4 /\ RecvOp(o) \in 1 .. 4 /\ RecvOp(o) # op[r]
    BY <1>4 DEF SendOp, RecvOp
  <1>9. \A o \in Board!Sides : SendOp(o) >= op[r] => o \notin p[r]
    BY <1>1, <1>7, <1>8 DEF Exchanging, Sending
  <1> DEFINE p2 == [p EXCEPT ![r] = @ \cup {side}]
  <1>10. /\ p2 \in [Board!Ranks -> SUBSET Board!Sides] /\ p2[r] = p[r] \cup {side}
         /\ \A t \in Board!Ranks \ {r} : p2[t] = p[t]
    BY <1>7
  <1> HIDE DEF p2
  <1>11. Queues(p2, q)'
    <2>1. mail' = [mail EXCEPT ![r][peer] = Append(mail[r][peer], Message(r, side))]
      BY <1>5
    <2>2. /\ Shaped(mail') /\ Shaped(posted')
          /\ \A s, d \in Board!Ranks : mail'[s][d] =
                IF s = r /\ d = peer THEN Append(mail[r][peer], Message(r, side)) ELSE mail[s][d]
      <3>1. Shaped(mail) /\ Shaped(posted)
        BY <1>7 DEF Queues
      <3>2. PICK v : v = Append(mail[r][peer], Message(r, side))
        OBVIOUS
      <3>3. mail' = [mail EXCEPT ![r][peer] = v]
        BY <2>1, <3>2
      <3>4. /\ Shaped(mail')
            /\ \A t, e \in Board!Ranks : mail'[t][e] = IF t = r /\ e = peer THEN v ELSE mail[t][e]
        BY <3>1, <3>3 DEF Shaped
      <3> QED BY <3>1, <3>2, <3>4, <1>5
    <2>3. ASSUME NEW s \in Board!Ranks, NEW d \in Board!Ranks
          PROVE  mail'[s][d] = Pair(Towards(p2, s, d, "north"), Message(s, "north"),
                                    Towards(p2, s, d, "south"), Message(s, "south"))
      <3>1. mail[s][d] = Pair(Towards(p, s, d, "north"), Message(s, "north"),
                              Towards(p, s, d, "south"), Message(s, "south"))
        BY <1>7 DEF Queues
      <3>2. CASE s # r \/ d # peer
        <4>1. \A o \in Board!Sides : Towards(p2, s, d, o) <=> Towards(p, s, d, o)
          BY <3>2, <1>3, <1>10 DEF Towards
        <4> QED BY <4>1, <3>1, <3>2, <2>2 DEF Board!Sides, Pair
      <3>3. CASE s = r /\ d = peer
        <4>0. mail'[s][d] = Append(mail[s][d], Message(s, side))
          BY <3>3, <2>2
        <4>1. CASE side = "north"
          <5>1. ~Towards(p, s, d, "north") /\ ~Towards(p, s, d, "south")
            BY <4>1, <3>3, <1>4, <1>9 DEF Towards, SendOp, Board!Sides
          <5>2. Towards(p2, s, d, "north") /\ ~Towards(p2, s, d, "south")
            BY <4>1, <5>1, <3>3, <1>3, <1>10 DEF Towards
          <5>3. mail[s][d] = Pair(FALSE, Message(s, "north"), FALSE, Message(s, "south"))
            BY <3>1, <5>1 DEF Pair
          <5>4. mail'[s][d] = Pair(TRUE, Message(s, "north"), FALSE, Message(s, "south"))
            BY <5>3, <4>0, <4>1, PairAppend
          <5> QED BY <5>2, <5>4 DEF Pair
        <4>2. CASE side = "south"
          <5>1. ~Towards(p, s, d, "south") /\ Towards(p2, s, d, "south")
                /\ (Towards(p2, s, d, "north") <=> Towards(p, s, d, "north"))
            BY <4>2, <3>3, <1>3, <1>4, <1>9, <1>10 DEF Towards, SendOp, Board!Sides
          <5>2. PICK a \in BOOLEAN : a <=> Towards(p, s, d, "north")
            OBVIOUS
          <5>3. mail[s][d] = Pair(a, Message(s, "north"), FALSE, Message(s, "south"))
            BY <3>1, <5>1, <5>2 DEF Pair
          <5>4. mail'[s][d] = Pair(a, Message(s, "north"), TRUE, Message(s, "south"))
            BY <5>3, <4>0, <4>2, PairAppend
          <5> QED BY <5>1, <5>2, <5>4 DEF Pair
        <4> QED BY <4>1, <4>2 DEF Board!Sides
      <3> QED BY <3>2, <3>3
    <2>4. \A s, d \in Board!Ranks : posted'[s][d] = Pair(Towards(q, s, d, "south"), "south",
                                                   Towards(q, s, d, "north"), "north")
      BY <1>5, <1>7 DEF Queues
    <2>5. \A s, d, o : (Towards(p2, s, d, o)' <=> Towards(p2, s, d, o))
                    /\ (Towards(q, s, d, o)' <=> Towards(q, s, d, o))
      BY <1>5, Frame DEF Towards, p2
    <2>6. Shaped(mail)' /\ Shaped(posted)'
      BY <2>2, <1>6 DEF Shaped
    <2>7. ASSUME NEW s \in Board!Ranks, NEW d \in Board!Ranks
          PROVE  /\ (mail[s][d] = Pair(Towards(p2, s, d, "north"), Message(s, "north"),
                                      Towards(p2, s, d, "south"), Message(s, "south")))'
                 /\ (posted[s][d] = Pair(Towards(q, s, d, "south"), "south",
                                        Towards(q, s, d, "north"), "north"))'
      <3>1. Message(s, "north")' = Message(s, "north") /\ Message(s, "south")' = Message(s, "south")
        BY <1>1
      <3>2. (mail[s][d] = Pair(Towards(p2, s, d, "north"), Message(s, "north"),
                               Towards(p2, s, d, "south"), Message(s, "south")))'
        BY <2>3, <2>5, <3>1 DEF Pair
      <3>3. (posted[s][d] = Pair(Towards(q, s, d, "south"), "south",
                                 Towards(q, s, d, "north"), "north"))'
        BY <2>4, <2>5 DEF Pair
      <3> QED BY <3>2, <3>3
    <2> QED BY <2>6, <2>7, <1>6 DEF Queues
  <1>12. ASSUME NEW s \in Board!Ranks, NEW o \in Board!Sides PROVE Exchanging(p2, q, s, o)'
    <2>0. Sending(p, s, o) /\ Awaiting(q, s, o) /\ Counted(p, q, s, o) /\ Received(q, s, o)
      BY <1>7 DEF Exchanging
    <2>p. s # r => at'[s] = at[s]
      BY <1>1 DEF Only
    <2>1. Sending(p2, s, o)'
      <3>1. CASE s # r
        BY <3>1, <2>p, <2>0, <1>1, <1>10 DEF Sending
      <3>2. CASE s = r
        BY <3>2, <2>0, <1>1, <1>4, <1>8, <1>10 DEF Sending
      <3> QED BY <3>1, <3>2
    <2>2. Awaiting(q, s, o)'
      <3>1. CASE s # r
        BY <3>1, <2>p, <2>0, <1>1 DEF Awaiting
      <3>2. CASE s = r
        BY <3>2, <2>0, <1>1, <1>8 DEF Awaiting
      <3> QED BY <3>1, <3>2
    <2>3. Counted(p2, q, s, o)'
      <3>1. PICK d \in Board!Ranks : d = Board!Peer(s, o)
        BY Peers
      <3>2. PICK w \in Board!Sides : w = Opposite(o)
        BY Peers
      <3>3. Times(s, SendOp(o)) + (IF w \in q[d] THEN 1 ELSE 0)
              = Times(d, RecvOp(w)) + (IF o \in p[s] THEN 1 ELSE 0)
        BY <3>1, <3>2, <2>0 DEF Counted
      <3>4. Times(d, RecvOp(w))' = Times(d, RecvOp(w)) /\ Times(d, RecvOp(w)) \in Nat
        BY <1>1, <1>8, LocalFacts
      <3>5. Times(s, SendOp(o))' = Times(s, SendOp(o)) + IF s = r /\ o = side THEN 1 ELSE 0
        BY <1>1, <1>4, <1>8 DEF SendOp, Board!Sides
      <3>6. Times(s, SendOp(o)) \in Nat
        BY LocalFacts
      <3>7. o \in p2[s] <=> o \in p[s] \/ (s = r /\ o = side)
        BY <1>10
      <3>8. s = r /\ o = side => o \notin p[s]
        BY <1>4, <1>8, <1>9
      <3>9. Times(s, SendOp(o))' + (IF w \in q[d] THEN 1 ELSE 0)
              = Times(d, RecvOp(w))' + (IF o \in p2[s] THEN 1 ELSE 0)
        BY <3>3, <3>4, <3>5, <3>6, <3>7, <3>8
      <3> QED BY <3>1, <3>2, <3>9, <1>5, NextCounted
    <2>4. Received(q, s, o)'
      <3>1. \A t : Board!EdgeRow(Block(t, Before(s)), Opposite(o))' = Board!EdgeRow(Block(t, Before(s)), Opposite(o))
        BY <1>1, <1>5, Frame
      <3>2. Board!Peer(s, o)' = Board!Peer(s, o)
        BY <1>5, Frame
      <3>3. /\ at'[s] \in {"exchange", "waitall", "barrier"} => at[s] \in {"exchange", "waitall", "barrier"}
            /\ Past(s, RecvOp(o))' <=> Past(s, RecvOp(o))
        BY <2>p, <1>1, <1>8
      <3> QED BY <2>0, <3>1, <3>2, <3>3, <1>5 DEF Received
    <2> QED BY <2>1, <2>2, <2>3, <2>4 DEF Exchanging
  <1> QED BY <1>6, <1>7, <1>10, <1>11, <1>12 DEF Messages

\* MPI_Irecv.
LEMMA ReceiveStep ==
  ASSUME Board!LaunchParameters, launch \in Launches, Board!Accepts, Accepted, NEW r \in Board!Ranks, Board!Post(r),
         Board!Exchange[op[r]].call # "isend"
  PROVE  Messages'
  <1>1. /\ Only(r) /\ op[r] \in 1 .. 4 /\ at[r] = "exchange" /\ at'[r] \in {"exchange", "waitall"}
        /\ \A m \in 1 .. 4 : (Past(r, m) <=> m < op[r]) /\ (Past(r, m)' <=> m <= op[r])
        /\ \A t \in Board!Ranks : \A m \in 1 .. 4 :
              Times(t, m)' = Times(t, m) + IF t = r /\ m = op[r] THEN 1 ELSE 0
        /\ \A t \in Board!Ranks \ {r} : \A m : Past(t, m)' <=> Past(t, m)
        /\ \A t \in Board!Ranks : Before(t)' = Before(t) /\ \A side : Message(t, side)' = Message(t, side)
    BY PostFacts
  <1>2. PICK side \in Board!Sides : side = Board!Exchange[op[r]].side
    BY <1>1, ExchangeCalls
  <1>3. PICK peer \in Board!Ranks : peer = Board!Peer(r, side)
    BY Peers
  <1>4. op[r] = RecvOp(side) /\ op[r] \in {2, 4}
    BY <1>1, <1>2, ExchangeCalls
  <1>5. /\ launch' = launch /\ mail' = mail /\ ghost' = ghost
        /\ posted' = [posted EXCEPT ![r][peer] = Append(@, side)]
    BY <1>2, <1>3 DEF Board!Post
  <1>6. Board!Ranks' = Board!Ranks
    BY <1>5, Frame
  <1>7. PICK p, q \in [Board!Ranks -> SUBSET Board!Sides] :
           Queues(p, q) /\ \A t \in Board!Ranks : \A o \in Board!Sides : Exchanging(p, q, t, o)
    BY DEF Accepted, Messages
  <1>8. \A o \in Board!Sides : SendOp(o) \in 1 .. 4 /\ RecvOp(o) \in 1 .. 4 /\ SendOp(o) # op[r]
    BY <1>4 DEF SendOp, RecvOp
  <1>9. \A o \in Board!Sides : RecvOp(o) >= op[r] => o \notin q[r]
    BY <1>1, <1>7, <1>8 DEF Exchanging, Awaiting
  <1> DEFINE q2 == [q EXCEPT ![r] = @ \cup {side}]
  <1>10. /\ q2 \in [Board!Ranks -> SUBSET Board!Sides] /\ q2[r] = q[r] \cup {side}
         /\ \A t \in Board!Ranks \ {r} : q2[t] = q[t]
    BY <1>7
  <1> HIDE DEF q2
  <1>11. Queues(p, q2)'
    <2>2. /\ Shaped(mail') /\ Shaped(posted')
          /\ \A s, d \in Board!Ranks : posted'[s][d] =
                IF s = r /\ d = peer THEN Append(posted[r][peer], side) ELSE posted[s][d]
      <3>1. Shaped(mail) /\ Shaped(posted)
        BY <1>7 DEF Queues
      <3>2. PICK v : v = Append(posted[r][peer], side)
        OBVIOUS
      <3>3. posted' = [posted EXCEPT ![r][peer] = v]
        BY <1>5, <3>2
      <3>4. /\ Shaped(posted')
            /\ \A t, e \in Board!Ranks : posted'[t][e] = IF t = r /\ e = peer THEN v ELSE posted[t][e]
        BY <3>1, <3>3 DEF Shaped
      <3> QED BY <3>1, <3>2, <3>4, <1>5
    <2>3. ASSUME NEW s \in Board!Ranks, NEW d \in Board!Ranks
          PROVE  posted'[s][d] = Pair(Towards(q2, s, d, "south"), "south",
                                      Towards(q2, s, d, "north"), "north")
      <3>1. posted[s][d] = Pair(Towards(q, s, d, "south"), "south", Towards(q, s, d, "north"), "north")
        BY <1>7 DEF Queues
      <3>2. CASE s # r \/ d # peer
        <4>1. \A o \in Board!Sides : Towards(q2, s, d, o) <=> Towards(q, s, d, o)
          BY <3>2, <1>3, <1>10 DEF Towards
        <4> QED BY <4>1, <3>1, <3>2, <2>2 DEF Board!Sides, Pair
      <3>3. CASE s = r /\ d = peer
        <4>0. posted'[s][d] = Append(posted[s][d], side)
          BY <3>3, <2>2
        <4>1. CASE side = "south"
          <5>1. ~Towards(q, s, d, "north") /\ ~Towards(q, s, d, "south")
            BY <4>1, <3>3, <1>4, <1>9 DEF Towards, RecvOp, Board!Sides
          <5>2. Towards(q2, s, d, "south") /\ ~Towards(q2, s, d, "north")
            BY <4>1, <5>1, <3>3, <1>3, <1>10 DEF Towards
          <5>3. posted[s][d] = Pair(FALSE, "south", FALSE, "north")
            BY <3>1, <5>1 DEF Pair
          <5>4. posted'[s][d] = Pair(TRUE, "south", FALSE, "north")
            BY <5>3, <4>0, <4>1, PairAppend
          <5> QED BY <5>2, <5>4 DEF Pair
        <4>2. CASE side = "north"
          <5>1. ~Towards(q, s, d, "north") /\ Towards(q2, s, d, "north")
                /\ (Towards(q2, s, d, "south") <=> Towards(q, s, d, "south"))
            BY <4>2, <3>3, <1>3, <1>4, <1>9, <1>10 DEF Towards, RecvOp, Board!Sides
          <5>2. PICK a \in BOOLEAN : a <=> Towards(q, s, d, "south")
            OBVIOUS
          <5>3. posted[s][d] = Pair(a, "south", FALSE, "north")
            BY <3>1, <5>1, <5>2 DEF Pair
          <5>4. posted'[s][d] = Pair(a, "south", TRUE, "north")
            BY <5>3, <4>0, <4>2, PairAppend
          <5> QED BY <5>1, <5>2, <5>4 DEF Pair
        <4> QED BY <4>1, <4>2 DEF Board!Sides
      <3> QED BY <3>2, <3>3
    <2>4. \A s, d \in Board!Ranks : mail'[s][d] = Pair(Towards(p, s, d, "north"), Message(s, "north"),
                                                 Towards(p, s, d, "south"), Message(s, "south"))
      BY <1>5, <1>7 DEF Queues
    <2>5. \A s, d, o : (Towards(p, s, d, o)' <=> Towards(p, s, d, o))
                    /\ (Towards(q2, s, d, o)' <=> Towards(q2, s, d, o))
      BY <1>5, Frame DEF Towards, q2
    <2>6. Shaped(mail)' /\ Shaped(posted)'
      BY <2>2, <1>6 DEF Shaped
    <2>7. ASSUME NEW s \in Board!Ranks, NEW d \in Board!Ranks
          PROVE  /\ (mail[s][d] = Pair(Towards(p, s, d, "north"), Message(s, "north"),
                                      Towards(p, s, d, "south"), Message(s, "south")))'
                 /\ (posted[s][d] = Pair(Towards(q2, s, d, "south"), "south",
                                        Towards(q2, s, d, "north"), "north"))'
      <3>1. Message(s, "north")' = Message(s, "north") /\ Message(s, "south")' = Message(s, "south")
        BY <1>1
      <3>2. (mail[s][d] = Pair(Towards(p, s, d, "north"), Message(s, "north"),
                               Towards(p, s, d, "south"), Message(s, "south")))'
        BY <2>4, <2>5, <3>1 DEF Pair
      <3>3. (posted[s][d] = Pair(Towards(q2, s, d, "south"), "south",
                                 Towards(q2, s, d, "north"), "north"))'
        BY <2>3, <2>5 DEF Pair
      <3> QED BY <3>2, <3>3
    <2> QED BY <2>6, <2>7, <1>6 DEF Queues
  <1>12. ASSUME NEW s \in Board!Ranks, NEW o \in Board!Sides PROVE Exchanging(p, q2, s, o)'
    <2>0. Sending(p, s, o) /\ Awaiting(q, s, o) /\ Counted(p, q, s, o) /\ Received(q, s, o)
      BY <1>7 DEF Exchanging
    <2>p. s # r => at'[s] = at[s]
      BY <1>1 DEF Only
    <2>1. Sending(p, s, o)'
      <3>1. CASE s # r
        BY <3>1, <2>p, <2>0, <1>1 DEF Sending
      <3>2. CASE s = r
        BY <3>2, <2>0, <1>1, <1>8 DEF Sending
      <3> QED BY <3>1, <3>2
    <2>2. Awaiting(q2, s, o)'
      <3>1. CASE s # r
        BY <3>1, <2>p, <2>0, <1>1, <1>10 DEF Awaiting
      <3>2. CASE s = r
        BY <3>2, <2>0, <1>1, <1>4, <1>8, <1>10 DEF Awaiting
      <3> QED BY <3>1, <3>2
    <2>3. Counted(p, q2, s, o)'
      <3>1. PICK d \in Board!Ranks : d = Board!Peer(s, o)
        BY Peers
      <3>2. PICK w \in Board!Sides : w = Opposite(o)
        BY Peers
      <3>3. Times(s, SendOp(o)) + (IF w \in q[d] THEN 1 ELSE 0)
              = Times(d, RecvOp(w)) + (IF o \in p[s] THEN 1 ELSE 0)
        BY <3>1, <3>2, <2>0 DEF Counted
      <3>4. Times(d, RecvOp(w))' = Times(d, RecvOp(w)) + IF d = r /\ w = side THEN 1 ELSE 0
        BY <1>1, <1>4, <1>8 DEF RecvOp, Board!Sides
      <3>5. Times(s, SendOp(o))' = Times(s, SendOp(o)) /\ Times(s, SendOp(o)) \in Nat
        BY <1>1, <1>8, LocalFacts
      <3>6. Times(d, RecvOp(w)) \in Nat
        BY LocalFacts
      <3>7. w \in q2[d] <=> w \in q[d] \/ (d = r /\ w = side)
        BY <1>10
      <3>8. d = r /\ w = side => w \notin q[d]
        BY <1>4, <1>8, <1>9
      <3>9. Times(s, SendOp(o))' + (IF w \in q2[d] THEN 1 ELSE 0)
              = Times(d, RecvOp(w))' + (IF o \in p[s] THEN 1 ELSE 0)
        BY <3>3, <3>4, <3>5, <3>6, <3>7, <3>8
      <3> QED BY <3>1, <3>2, <3>9, <1>5, NextCounted
    <2>4. Received(q2, s, o)'
      <3>1. \A t : Board!EdgeRow(Block(t, Before(s)), Opposite(o))' = Board!EdgeRow(Block(t, Before(s)), Opposite(o))
        BY <1>1, <1>5, Frame
      <3>2. Board!Peer(s, o)' = Board!Peer(s, o)
        BY <1>5, Frame
      <3>3. CASE s # r
        BY <3>1, <3>2, <3>3, <2>p, <2>0, <1>1, <1>5, <1>10 DEF Received
      <3>4. CASE s = r
        <4>1. o # side => (Past(s, RecvOp(o))' <=> Past(s, RecvOp(o)))
          BY <3>4, <1>1, <1>4, <1>8 DEF RecvOp, Board!Sides
        <4> QED BY <4>1, <3>1, <3>2, <3>4, <2>0, <1>1, <1>5, <1>10 DEF Received
      <3> QED BY <3>3, <3>4
    <2> QED BY <2>1, <2>2, <2>3, <2>4 DEF Exchanging
  <1> QED BY <1>6, <1>7, <1>10, <1>11, <1>12 DEF Messages

\* One call of the exchange.
LEMMA PostStep ==
  ASSUME Board!LaunchParameters, launch \in Launches, Board!Accepts, Accepted, NEW r \in Board!Ranks, Board!Post(r)
  PROVE  Accepted'
  <1>1. Messages'
    BY SendStep, ReceiveStep
  <1>2. /\ Only(r) /\ Typed' /\ Output' /\ Located(r)' /\ Boards(r)'
        /\ entered'[r] >= entered[r] /\ \A s \in Board!Ranks : Left(r)' <= entered'[s]
    BY PostFacts
  <1> QED BY <1>1, <1>2, Together

\* The oldest send and the oldest receive between two ranks belong together, also
\* when both neighbours of a rank are one rank.
LEMMA Corresponding ==
  ASSUME Board!LaunchParameters, launch \in Launches, Board!Accepts, Accepted, NEW s \in Board!Ranks, NEW d \in Board!Ranks,
         NEW p \in [Board!Ranks -> SUBSET Board!Sides], NEW q \in [Board!Ranks -> SUBSET Board!Sides], Queues(p, q),
         \A t \in Board!Ranks : \A o \in Board!Sides : Exchanging(p, q, t, o),
         mail[s][d] # <<>>, posted[d][s] # <<>>
  PROVE  \E side \in Board!Sides :
           /\ d = Board!Peer(s, side) /\ side \in p[s] /\ Opposite(side) \in q[d]
           /\ s = Board!Peer(d, Opposite(side))
           /\ side = "south" => ~Towards(p, s, d, "north") /\ ~Towards(q, d, s, "south")
           /\ Before(s) = Before(d)
  <1>1. /\ Towards(p, s, d, "north") \/ Towards(p, s, d, "south")
        /\ Towards(q, d, s, "north") \/ Towards(q, d, s, "south")
    BY DEF Queues, Pair
  <1>2. "north" \in Board!Sides /\ "south" \in Board!Sides /\ Opposite("north") = "south" /\ Opposite("south") = "north"
    BY DEF Board!Sides, Opposite
  <1>3. /\ d = Board!Peer(s, "north") <=> s = Board!Peer(d, "south")
        /\ d = Board!Peer(s, "south") <=> s = Board!Peer(d, "north")
    BY <1>2, Peers
  <1>4. /\ Before(s) \in Nat /\ Before(d) \in Nat
        /\ op[s] \in 1 .. 4 /\ op[d] \in 1 .. 4
    BY LocalFacts DEF Accepted, Typed
  <1>5. ASSUME NEW t \in Board!Ranks
        PROVE  /\ "north" \in p[t] => Past(t, 1)
               /\ "south" \in p[t] => Past(t, 1) /\ Past(t, 3)
               /\ "south" \in q[t] => Past(t, 2)
               /\ "north" \in q[t] => Past(t, 2) /\ Past(t, 4)
    <2>1. /\ "north" \in p[t] => Past(t, SendOp("north"))
          /\ "south" \in p[t] => Past(t, SendOp("south"))
          /\ "south" \in q[t] => Past(t, RecvOp("south"))
          /\ "north" \in q[t] => Past(t, RecvOp("north"))
      BY <1>2 DEF Exchanging, Sending, Awaiting
    <2>2. op[t] \in 1 .. 4
      BY DEF Accepted, Typed
    <2>3. (Past(t, 3) => Past(t, 1)) /\ (Past(t, 4) => Past(t, 2))
      BY <2>2 DEF Past
    <2> QED BY <2>1, <2>3 DEF SendOp, RecvOp
  <1>6. d = Board!Peer(s, "north") =>
          Times(s, 1) + (IF "south" \in q[d] THEN 1 ELSE 0) = Times(d, 2) + (IF "north" \in p[s] THEN 1 ELSE 0)
    <2>1. Counted(p, q, s, "north")
      BY <1>2 DEF Exchanging
    <2> QED BY <2>1, <1>2 DEF Counted, SendOp, RecvOp
  <1>7. d = Board!Peer(s, "south") =>
          Times(s, 3) + (IF "north" \in q[d] THEN 1 ELSE 0) = Times(d, 4) + (IF "south" \in p[s] THEN 1 ELSE 0)
    <2>1. Counted(p, q, s, "south")
      BY <1>2 DEF Exchanging
    <2> QED BY <2>1, <1>2 DEF Counted, SendOp, RecvOp
  <1>8. \A t \in Board!Ranks : \A n : Times(t, n) = Before(t) + (IF Past(t, n) THEN 1 ELSE 0)
    BY DEF Times
  <1>9. CASE Towards(p, s, d, "north") /\ Towards(q, d, s, "south")
    <2>1. d = Board!Peer(s, "north") /\ "north" \in p[s] /\ "south" \in q[d]
      BY <1>9 DEF Towards
    <2>2. Before(s) = Before(d)
      BY <2>1, <1>4, <1>5, <1>6, <1>8
    <2> QED BY <2>1, <2>2, <1>2, <1>3
  <1>10. CASE Towards(p, s, d, "north") /\ ~Towards(q, d, s, "south")
    <2>1. /\ d = Board!Peer(s, "north") /\ "north" \in p[s] /\ "south" \notin q[d]
          /\ d = Board!Peer(s, "south") /\ "north" \in q[d]
      BY <1>1, <1>3, <1>10 DEF Towards
    <2>2. Before(s) = Before(d) + 1
      BY <2>1, <1>4, <1>5, <1>6, <1>8
    <2>3. Times(s, 3) = Before(d) + (IF "south" \in p[s] THEN 1 ELSE 0)
      BY <2>1, <1>4, <1>5, <1>7, <1>8
    <2> QED BY <2>2, <2>3, <1>4, <1>5, <1>8
  <1>11. CASE ~Towards(p, s, d, "north") /\ Towards(q, d, s, "south")
    <2>1. /\ d = Board!Peer(s, "south") /\ "south" \in p[s] /\ "north" \notin p[s]
          /\ d = Board!Peer(s, "north") /\ "south" \in q[d]
      BY <1>1, <1>3, <1>11 DEF Towards
    <2>2. Before(s) + 1 = Before(d)
      BY <2>1, <1>4, <1>5, <1>6, <1>8
    <2>3. Before(s) + 1 + (IF "north" \in q[d] THEN 1 ELSE 0) = Times(d, 4) + 1
      BY <2>1, <1>4, <1>5, <1>7, <1>8
    <2> QED BY <2>2, <2>3, <1>4, <1>5, <1>8
  <1>12. CASE ~Towards(p, s, d, "north") /\ ~Towards(q, d, s, "south")
    <2>1. d = Board!Peer(s, "south") /\ "south" \in p[s] /\ "north" \in q[d]
      BY <1>1, <1>12 DEF Towards
    <2>2. Before(s) = Before(d)
      BY <2>1, <1>4, <1>5, <1>7, <1>8
    <2> QED BY <2>1, <2>2, <1>2, <1>3, <1>12
  <1> QED BY <1>9, <1>10, <1>11, <1>12

LEMMA PairTail ==
  \A x, y : \A b \in BOOLEAN :
     /\ Head(Pair(TRUE, x, b, y)) = x /\ Tail(Pair(TRUE, x, b, y)) = Pair(FALSE, x, b, y)
     /\ Head(Pair(FALSE, x, TRUE, y)) = y /\ Tail(Pair(FALSE, x, TRUE, y)) = Pair(FALSE, x, FALSE, y)
  <1> SUFFICES ASSUME NEW x, NEW y, NEW b \in BOOLEAN
               PROVE  /\ Head(Pair(TRUE, x, b, y)) = x /\ Tail(Pair(TRUE, x, b, y)) = Pair(FALSE, x, b, y)
                      /\ Head(Pair(FALSE, x, TRUE, y)) = y
                      /\ Tail(Pair(FALSE, x, TRUE, y)) = Pair(FALSE, x, FALSE, y)
    OBVIOUS
  <1>1. CASE b
    BY <1>1 DEF Pair
  <1>2. CASE ~b
    BY <1>2 DEF Pair
  <1> QED BY <1>1, <1>2

\* The queues after the oldest send and the oldest receive are matched.
Matched(p, q, s, d, side) ==
  /\ Head(mail[s][d]) = Message(s, side) /\ Head(posted[d][s]) = Opposite(side)
  /\ \A w \in [Board!Ranks -> SUBSET Board!Sides] : w[s] = p[s] \ {side} =>
        Tail(mail[s][d]) = Pair(Towards(w, s, d, "north"), Message(s, "north"),
                                Towards(w, s, d, "south"), Message(s, "south"))
  /\ \A w \in [Board!Ranks -> SUBSET Board!Sides] : w[d] = q[d] \ {Opposite(side)} =>
        Tail(posted[d][s]) = Pair(Towards(w, d, s, "south"), "south", Towards(w, d, s, "north"), "north")
  
LEMMA MatchedQueues ==
  ASSUME Board!LaunchParameters, launch \in Launches, NEW s \in Board!Ranks, NEW d \in Board!Ranks, NEW side \in Board!Sides,
         NEW p \in [Board!Ranks -> SUBSET Board!Sides], NEW q \in [Board!Ranks -> SUBSET Board!Sides], Queues(p, q),
         d = Board!Peer(s, side), side \in p[s], Opposite(side) \in q[d], s = Board!Peer(d, Opposite(side)),
         side = "south" => ~Towards(p, s, d, "north") /\ ~Towards(q, d, s, "south")
  PROVE  Matched(p, q, s, d, side)
  <1>1. /\ mail[s][d] = Pair(Towards(p, s, d, "north"), Message(s, "north"),
                             Towards(p, s, d, "south"), Message(s, "south"))
        /\ posted[d][s] = Pair(Towards(q, d, s, "south"), "south", Towards(q, d, s, "north"), "north")
    BY DEF Queues
  <1>2. CASE side = "north"
    <2>0. Opposite(side) = "south"
      BY <1>2 DEF Opposite
    <2>1. Towards(p, s, d, "north") /\ Towards(q, d, s, "south")
      BY <1>2, <2>0 DEF Towards
    <2>2. PICK b, c \in BOOLEAN : (b <=> Towards(p, s, d, "south")) /\ (c <=> Towards(q, d, s, "north"))
      OBVIOUS
    <2>3. /\ mail[s][d] = Pair(TRUE, Message(s, "north"), b, Message(s, "south"))
          /\ posted[d][s] = Pair(TRUE, "south", c, "north")
      BY <1>1, <2>1, <2>2 DEF Pair
    <2>4. /\ Head(mail[s][d]) = Message(s, "north") /\ Head(posted[d][s]) = "south"
          /\ Tail(mail[s][d]) = Pair(FALSE, Message(s, "north"), b, Message(s, "south"))
          /\ Tail(posted[d][s]) = Pair(FALSE, "south", c, "north")
      <3>1. PICK x, y : x = Message(s, "north") /\ y = Message(s, "south")
        OBVIOUS
      <3>2. /\ Head(Pair(TRUE, x, b, y)) = x /\ Tail(Pair(TRUE, x, b, y)) = Pair(FALSE, x, b, y)
        BY PairTail
      <3>3. /\ Head(Pair(TRUE, "south", c, "north")) = "south"
            /\ Tail(Pair(TRUE, "south", c, "north")) = Pair(FALSE, "south", c, "north")
        BY PairTail
      <3> QED BY <2>3, <3>1, <3>2, <3>3
    <2>5. ASSUME NEW w \in [Board!Ranks -> SUBSET Board!Sides], w[s] = p[s] \ {side}
          PROVE  ~Towards(w, s, d, "north") /\ (b <=> Towards(w, s, d, "south"))
      BY <2>2, <2>5, <1>2 DEF Towards
    <2>6. ASSUME NEW w \in [Board!Ranks -> SUBSET Board!Sides], w[d] = q[d] \ {Opposite(side)}
          PROVE  ~Towards(w, d, s, "south") /\ (c <=> Towards(w, d, s, "north"))
      BY <2>2, <2>6, <2>0 DEF Towards
    <2>7. ASSUME NEW w \in [Board!Ranks -> SUBSET Board!Sides], w[s] = p[s] \ {side}
          PROVE  Tail(mail[s][d]) = Pair(Towards(w, s, d, "north"), Message(s, "north"),
                                         Towards(w, s, d, "south"), Message(s, "south"))
      BY <2>4, <2>5, <2>7 DEF Pair
    <2>8. ASSUME NEW w \in [Board!Ranks -> SUBSET Board!Sides], w[d] = q[d] \ {Opposite(side)}
          PROVE  Tail(posted[d][s]) = Pair(Towards(w, d, s, "south"), "south", Towards(w, d, s, "north"), "north")
      BY <2>4, <2>6, <2>8 DEF Pair
    <2> QED BY <2>0, <2>4, <2>7, <2>8, <1>2 DEF Matched
  <1>3. CASE side = "south"
    <2>0. Opposite(side) = "north"
      BY <1>3 DEF Opposite
    <2>1. /\ ~Towards(p, s, d, "north") /\ ~Towards(q, d, s, "south")
          /\ Towards(p, s, d, "south") /\ Towards(q, d, s, "north")
      BY <1>3, <2>0 DEF Towards
    <2>3. /\ mail[s][d] = Pair(FALSE, Message(s, "north"), TRUE, Message(s, "south"))
          /\ posted[d][s] = Pair(FALSE, "south", TRUE, "north")
      BY <1>1, <2>1 DEF Pair
    <2>4. /\ Head(mail[s][d]) = Message(s, "south") /\ Head(posted[d][s]) = "north"
          /\ Tail(mail[s][d]) = Pair(FALSE, Message(s, "north"), FALSE, Message(s, "south"))
          /\ Tail(posted[d][s]) = Pair(FALSE, "south", FALSE, "north")
      <3>1. PICK x, y : x = Message(s, "north") /\ y = Message(s, "south")
        OBVIOUS
      <3>2. /\ Head(Pair(FALSE, x, TRUE, y)) = y /\ Tail(Pair(FALSE, x, TRUE, y)) = Pair(FALSE, x, FALSE, y)
        BY PairTail
      <3>3. /\ Head(Pair(FALSE, "south", TRUE, "north")) = "north"
            /\ Tail(Pair(FALSE, "south", TRUE, "north")) = Pair(FALSE, "south", FALSE, "north")
        BY PairTail
      <3> QED BY <2>3, <3>1, <3>2, <3>3
    <2>5. ASSUME NEW w \in [Board!Ranks -> SUBSET Board!Sides], w[s] = p[s] \ {side}
          PROVE  ~Towards(w, s, d, "north") /\ ~Towards(w, s, d, "south")
      BY <2>1, <2>5, <1>3 DEF Towards
    <2>6. ASSUME NEW w \in [Board!Ranks -> SUBSET Board!Sides], w[d] = q[d] \ {Opposite(side)}
          PROVE  ~Towards(w, d, s, "south") /\ ~Towards(w, d, s, "north")
      BY <2>1, <2>6, <2>0 DEF Towards
    <2>7. ASSUME NEW w \in [Board!Ranks -> SUBSET Board!Sides], w[s] = p[s] \ {side}
          PROVE  Tail(mail[s][d]) = Pair(Towards(w, s, d, "north"), Message(s, "north"),
                                         Towards(w, s, d, "south"), Message(s, "south"))
      BY <2>4, <2>5, <2>7 DEF Pair
    <2>8. ASSUME NEW w \in [Board!Ranks -> SUBSET Board!Sides], w[d] = q[d] \ {Opposite(side)}
          PROVE  Tail(posted[d][s]) = Pair(Towards(w, d, s, "south"), "south", Towards(w, d, s, "north"), "north")
      BY <2>4, <2>6, <2>8 DEF Pair
    <2> QED BY <2>0, <2>4, <2>7, <2>8, <1>3 DEF Matched
  <1> QED BY <1>2, <1>3 DEF Board!Sides

\* The library delivers a row.
LEMMA MatchStep ==
  ASSUME Board!LaunchParameters, launch \in Launches, Board!Accepts, Accepted, NEW s \in Board!Ranks, NEW d \in Board!Ranks,
         Board!Match(s, d)
  PROVE  Accepted'
  <1>0. /\ launch' = launch /\ at' = at /\ iter' = iter /\ buf' = buf /\ even' = even /\ op' = op
        /\ entered' = entered /\ gathered' = gathered /\ boards' = boards
        /\ mail[s][d] # <<>> /\ posted[d][s] # <<>>
        /\ mail' = [mail EXCEPT ![s][d] = Tail(@)] /\ posted' = [posted EXCEPT ![d][s] = Tail(@)]
    BY DEF Board!Match
  <1>1. Typed /\ Output /\ InStep /\ Located(s) /\ Boards(s) /\ Located(d)
    BY DEF Accepted
  <1>2. Only(s) /\ Board!Ranks' = Board!Ranks
    BY <1>0, Frame DEF Only
  <1>3. \A t \in Board!Ranks :
          /\ Before(t)' = Before(t) /\ Left(t)' = Left(t)
          /\ \A n : (Past(t, n)' <=> Past(t, n)) /\ Times(t, n)' = Times(t, n)
          /\ \A o : Message(t, o)' = Message(t, o)
          /\ (Located(t)' <=> Located(t)) /\ (Boards(t)' <=> Boards(t))
    BY <1>0, Untouched
  <1>4. PICK p, q \in [Board!Ranks -> SUBSET Board!Sides] :
           Queues(p, q) /\ \A t \in Board!Ranks : \A o \in Board!Sides : Exchanging(p, q, t, o)
    BY DEF Accepted, Messages
  <1>5. PICK side \in Board!Sides :
           /\ d = Board!Peer(s, side) /\ side \in p[s] /\ Opposite(side) \in q[d]
           /\ s = Board!Peer(d, Opposite(side))
           /\ side = "south" => ~Towards(p, s, d, "north") /\ ~Towards(q, d, s, "south")
           /\ Before(s) = Before(d)
    BY <1>0, <1>4, Corresponding
  <1>6. PICK other \in Board!Sides : other = Opposite(side) /\ Opposite(other) = side /\ other # side
    BY Peers
  <1>7. /\ Head(mail[s][d]) = Message(s, side) /\ Head(posted[d][s]) = Opposite(side)
        /\ \A w \in [Board!Ranks -> SUBSET Board!Sides] : w[s] = p[s] \ {side} =>
              Tail(mail[s][d]) = Pair(Towards(w, s, d, "north"), Message(s, "north"),
                                      Towards(w, s, d, "south"), Message(s, "south"))
        /\ \A w \in [Board!Ranks -> SUBSET Board!Sides] : w[d] = q[d] \ {Opposite(side)} =>
              Tail(posted[d][s]) = Pair(Towards(w, d, s, "south"), "south", Towards(w, d, s, "north"), "north")
    <2>1. Matched(p, q, s, d, side)
      BY <1>4, <1>5, MatchedQueues
    <2> QED BY <2>1 DEF Matched
  <1>8. PICK row : row = Board!EdgeRow(Block(s, Before(d)), side)
    OBVIOUS
  <1>9. ghost' = [ghost EXCEPT ![d][other] = row]
    <2>1. at[s] # "start"
      BY <1>4, <1>5 DEF Exchanging, Sending
    <2>2. Board!EdgeRow(buf[s][even[s]], side) = row
      BY <2>1, <1>1, <1>5, <1>8 DEF Boards
    <2>3. PICK m : m = Message(s, side)
      OBVIOUS
    <2>4. m.row = row /\ Board!EdgeRow(buf[s][m.buf], m.side) = row
      BY <2>2, <2>3 DEF Message
    <2>5. ghost' = [ghost EXCEPT ![d][other] = IF eager THEN m.row ELSE Board!EdgeRow(buf[s][m.buf], m.side)]
      BY <2>3, <1>6, <1>7 DEF Board!Match
    <2> QED BY <2>4, <2>5
  <1>10. row \in Cells
    <2> PICK k \in 0 .. Board!Iterations : k = Before(d)
      BY LocalFacts
    <2> QED BY <1>8, BlockRows
  <1>11. /\ \A t \in Board!Ranks : \A o \in Board!Sides : ghost'[t][o] = IF t = d /\ o = other THEN row ELSE ghost[t][o]
         /\ ghost' \in [Board!Ranks -> [Board!Sides -> Cells]]
    BY <1>1, <1>9, <1>10 DEF Typed
  <1>12. Typed'
    BY <1>0, <1>1, <1>11, Frame DEF Typed
  <1> DEFINE p2 == [p EXCEPT ![s] = @ \ {side}]
             q2 == [q EXCEPT ![d] = @ \ {other}]
  <1>13. /\ p2 \in [Board!Ranks -> SUBSET Board!Sides] /\ p2[s] = p[s] \ {side}
         /\ q2 \in [Board!Ranks -> SUBSET Board!Sides] /\ q2[d] = q[d] \ {other}
         /\ \A t \in Board!Ranks : t # s => p2[t] = p[t]
         /\ \A t \in Board!Ranks : t # d => q2[t] = q[t]
    BY <1>4
  <1>14. \A t, e, o : (Towards(p2, t, e, o)' <=> Towards(p2, t, e, o))
                   /\ (Towards(q2, t, e, o)' <=> Towards(q2, t, e, o))
    BY <1>0, Frame DEF Towards
  <1> HIDE DEF p2, q2
  <1>15. Queues(p2, q2)'
    <2>1. Shaped(mail) /\ Shaped(posted)
      BY <1>4 DEF Queues
    <2>2. /\ Shaped(mail')
          /\ \A t, e \in Board!Ranks : mail'[t][e] = IF t = s /\ e = d THEN Tail(mail[s][d]) ELSE mail[t][e]
      <3>1. PICK v : v = Tail(mail[s][d])
        OBVIOUS
      <3>2. mail' = [mail EXCEPT ![s][d] = v]
        BY <1>0, <3>1
      <3> QED BY <2>1, <3>1, <3>2 DEF Shaped
    <2>3. /\ Shaped(posted')
          /\ \A t, e \in Board!Ranks : posted'[t][e] = IF t = d /\ e = s THEN Tail(posted[d][s]) ELSE posted[t][e]
      <3>1. PICK v : v = Tail(posted[d][s])
        OBVIOUS
      <3>2. posted' = [posted EXCEPT ![d][s] = v]
        BY <1>0, <3>1
      <3> QED BY <2>1, <3>1, <3>2 DEF Shaped
    <2>4. ASSUME NEW t \in Board!Ranks, NEW e \in Board!Ranks
          PROVE  mail'[t][e] = Pair(Towards(p2, t, e, "north"), Message(t, "north"),
                                    Towards(p2, t, e, "south"), Message(t, "south"))
      <3>1. CASE t = s /\ e = d
        BY <3>1, <2>2, <1>7, <1>13
      <3>2. CASE t # s \/ e # d
        <4>1. mail[t][e] = Pair(Towards(p, t, e, "north"), Message(t, "north"),
                                Towards(p, t, e, "south"), Message(t, "south"))
          BY <1>4 DEF Queues
        <4>2. \A o \in Board!Sides : Towards(p2, t, e, o) <=> Towards(p, t, e, o)
          BY <3>2, <1>5, <1>13 DEF Towards
        <4> QED BY <4>1, <4>2, <3>2, <2>2 DEF Pair, Board!Sides
      <3> QED BY <3>1, <3>2
    <2>5. ASSUME NEW t \in Board!Ranks, NEW e \in Board!Ranks
          PROVE  posted'[t][e] = Pair(Towards(q2, t, e, "south"), "south", Towards(q2, t, e, "north"), "north")
      <3>1. CASE t = d /\ e = s
        BY <3>1, <2>3, <1>6, <1>7, <1>13
      <3>2. CASE t # d \/ e # s
        <4>1. posted[t][e] = Pair(Towards(q, t, e, "south"), "south", Towards(q, t, e, "north"), "north")
          BY <1>4 DEF Queues
        <4>2. \A o \in Board!Sides : Towards(q2, t, e, o) <=> Towards(q, t, e, o)
          BY <3>2, <1>5, <1>6, <1>13 DEF Towards
        <4> QED BY <4>1, <4>2, <3>2, <2>3 DEF Pair, Board!Sides
      <3> QED BY <3>1, <3>2
    <2>6. Shaped(mail)' /\ Shaped(posted)'
      BY <2>2, <2>3, <1>2 DEF Shaped
    <2>7. ASSUME NEW t \in Board!Ranks, NEW e \in Board!Ranks
          PROVE  /\ (mail[t][e] = Pair(Towards(p2, t, e, "north"), Message(t, "north"),
                                      Towards(p2, t, e, "south"), Message(t, "south")))'
                 /\ (posted[t][e] = Pair(Towards(q2, t, e, "south"), "south",
                                        Towards(q2, t, e, "north"), "north"))'
      <3>1. Message(t, "north")' = Message(t, "north") /\ Message(t, "south")' = Message(t, "south")
        BY <1>3
      <3>2. (mail[t][e] = Pair(Towards(p2, t, e, "north"), Message(t, "north"),
                               Towards(p2, t, e, "south"), Message(t, "south")))'
        BY <2>4, <1>14, <3>1 DEF Pair
      <3>3. (posted[t][e] = Pair(Towards(q2, t, e, "south"), "south",
                                 Towards(q2, t, e, "north"), "north"))'
        BY <2>5, <1>14 DEF Pair
      <3> QED BY <3>2, <3>3
    <2> QED BY <2>6, <2>7, <1>2 DEF Queues
  <1>16. ASSUME NEW t \in Board!Ranks, NEW o \in Board!Sides PROVE Exchanging(p2, q2, t, o)'
    <2>0. Sending(p, t, o) /\ Awaiting(q, t, o) /\ Counted(p, q, t, o) /\ Received(q, t, o)
      BY <1>4 DEF Exchanging
    <2>1. Sending(p2, t, o)'
      BY <2>0, <1>0, <1>3, <1>13 DEF Sending
    <2>2. Awaiting(q2, t, o)'
      BY <2>0, <1>0, <1>3, <1>13 DEF Awaiting
    <2>3. Counted(p2, q2, t, o)'
      <3>1. PICK e \in Board!Ranks : e = Board!Peer(t, o)
        BY Peers
      <3>2. PICK w \in Board!Sides : w = Opposite(o) /\ Opposite(w) = o
        BY Peers
      <3>3. Times(t, SendOp(o)) + (IF w \in q[e] THEN 1 ELSE 0)
              = Times(e, RecvOp(w)) + (IF o \in p[t] THEN 1 ELSE 0)
        BY <3>1, <3>2, <2>0 DEF Counted
      <3>4. t = Board!Peer(e, w)
        BY <3>1, <3>2, Peers
      <3>5. (t = s /\ o = side) <=> (e = d /\ w = other)
        BY <3>1, <3>2, <3>4, <1>5, <1>6
      <3>6. /\ o \in p2[t] <=> o \in p[t] /\ ~(t = s /\ o = side)
            /\ w \in q2[e] <=> w \in q[e] /\ ~(e = d /\ w = other)
        BY <1>13
      <3>7. t = s /\ o = side => o \in p[t] /\ w \in q[e]
        BY <3>5, <1>5, <1>6
      <3>8. Times(t, SendOp(o)) \in Nat /\ Times(e, RecvOp(w)) \in Nat
        BY LocalFacts
      <3>9. Times(t, SendOp(o)) + (IF w \in q2[e] THEN 1 ELSE 0)
              = Times(e, RecvOp(w)) + (IF o \in p2[t] THEN 1 ELSE 0)
        BY <3>3, <3>5, <3>6, <3>7, <3>8
      <3>10. Times(t, SendOp(o))' = Times(t, SendOp(o)) /\ Times(e, RecvOp(w))' = Times(e, RecvOp(w))
        BY <1>3
      <3> QED BY <3>1, <3>2, <3>9, <3>10, <1>0, NextCounted
    <2>4. Received(q2, t, o)'
      <3>1. \A e : Board!EdgeRow(Block(e, Before(t)), Opposite(o))' = Board!EdgeRow(Block(e, Before(t)), Opposite(o))
        BY <1>0, <1>3, Frame
      <3>2. Board!Peer(t, o)' = Board!Peer(t, o)
        BY <1>0, Frame
      <3>3. CASE t = d /\ o = other
        <4>1. ghost'[t][o] = Board!EdgeRow(Block(s, Before(t)), Opposite(o))
          BY <3>3, <1>6, <1>8, <1>11
        <4>2. Board!Peer(t, o) = s
          BY <3>3, <1>5, <1>6
        <4> QED BY <4>1, <4>2, <3>1, <3>2 DEF Received
      <3>4. CASE ~(t = d /\ o = other)
        <4>1. ghost'[t][o] = ghost[t][o] /\ (o \in q2[t] <=> o \in q[t])
          BY <3>4, <1>11, <1>13
        <4> QED BY <4>1, <3>1, <3>2, <2>0, <1>0, <1>3 DEF Received
      <3> QED BY <3>3, <3>4
    <2> QED BY <2>1, <2>2, <2>3, <2>4 DEF Exchanging
  <1>17. Messages'
    BY <1>2, <1>13, <1>15, <1>16 DEF Messages
  <1>18. Output'
    BY <1>0, <1>1, OutputKept
  <1>19. entered'[s] >= entered[s] /\ \A t \in Board!Ranks : Left(s)' <= entered'[t]
    BY <1>0, <1>1, <1>3 DEF Typed, InStep
  <1>20. Located(s)' /\ Boards(s)'
    BY <1>1, <1>3
  <1> QED BY <1>2, <1>12, <1>17, <1>18, <1>19, <1>20, Together

-----------------------------------------------------------------------------
\* The invariant holds at first, and every step keeps it.

LEMMA GameInit ==
  ASSUME Board!LaunchParameters, Board!Init
  PROVE  GameInv
  <1>0. launch \in Launches
    BY DEF Board!Init
  <1>1. /\ Board!Procs \in Nat \ {0} /\ Board!Rows \in Nat /\ Board!Cols \in Nat /\ Board!Iterations \in Nat /\ Board!M \in Nat
        /\ 0 \in Board!Ranks
    BY <1>0, Arguments
  <1>2. CASE ~Board!Accepts
    BY <1>0, <1>2 DEF GameInv, Refused, Board!Init
  <1>3. CASE Board!Accepts
    <2>1. Board!Zero(1)[0] \in Cells /\ Board!Zero(Board!M) \in [0 .. Board!M - 1 -> Cells]
      BY <1>1 DEF Board!Zero, Cells
    <2>2. Typed
      BY <2>1, <1>1 DEF Board!Init, Typed, Places
    <2>3. ASSUME NEW r \in Board!Ranks
          PROVE  /\ at[r] = "start" /\ iter[r] = 0 /\ even[r] = 0 /\ op[r] = 1 /\ entered[r] = 0
                 /\ gathered[r] = <<>> /\ Before(r) = 0 /\ Left(r) = 0 /\ Came(r) = 0
                 /\ \A n : ~Past(r, n) /\ Times(r, n) = 0
      <3>1. /\ at[r] = "start" /\ iter[r] = 0 /\ even[r] = 0 /\ op[r] = 1 /\ entered[r] = 0
            /\ gathered[r] = <<>>
        BY DEF Board!Init
      <3>2. Before(r) = 0 /\ \A n : ~Past(r, n)
        BY <3>1 DEF Before, Past
      <3> QED BY <3>1, <3>2 DEF Left, Came, Times
    <2>4. Output
      <3>1. boards = <<>> /\ Len(boards) = 0 /\ boards \in Seq([0 .. Board!Rows - 1 -> Cells]) /\ iter[0] = 0
        BY <1>1, <2>3 DEF Board!Init
      <3>2. gathered \in [Board!Ranks -> Seq([0 .. Board!M - 1 -> Cells])]
        BY DEF Board!Init
      <3>3. \A r \in Board!Ranks \ {0} : Len(gathered[r]) = 0 /\ iter[r] = 0
        BY <2>3
      <3> QED BY <3>1, <3>2, <3>3 DEF Output
    <2>5. InStep
      BY <2>3 DEF InStep
    <2>6. \A r \in Board!Ranks : Located(r) /\ Boards(r)
      BY <2>3 DEF Located, Boards
    <2>7. Messages
      <3> DEFINE none == [r \in Board!Ranks |-> {}]
      <3>1. none \in [Board!Ranks -> SUBSET Board!Sides] /\ \A r \in Board!Ranks : none[r] = {}
        OBVIOUS
      <3> HIDE DEF none
      <3>2. Queues(none, none)
        <4>1. Shaped(mail) /\ Shaped(posted)
          BY DEF Board!Init, Shaped
        <4>2. \A s, d \in Board!Ranks : mail[s][d] = <<>> /\ posted[s][d] = <<>>
          BY DEF Board!Init
        <4>3. \A s, d \in Board!Ranks : \A side : ~Towards(none, s, d, side)
          BY <3>1 DEF Towards
        <4> QED BY <4>1, <4>2, <4>3 DEF Queues, Pair
      <3>3. ASSUME NEW r \in Board!Ranks, NEW side \in Board!Sides PROVE Exchanging(none, none, r, side)
        <4>1. Board!Peer(r, side) \in Board!Ranks
          BY <1>0, Peers
        <4>2. Counted(none, none, r, side)
          BY <4>1, <3>1, <2>3 DEF Counted
        <4>3. Sending(none, r, side) /\ Awaiting(none, r, side) /\ Received(none, r, side)
          BY <3>1, <2>3 DEF Sending, Awaiting, Received
        <4> QED BY <4>2, <4>3 DEF Exchanging
      <3> QED BY <3>1, <3>2, <3>3 DEF Messages
    <2> QED BY <1>0, <1>3, <2>2, <2>4, <2>5, <2>6, <2>7 DEF GameInv, Accepted
  <1> QED BY <1>2, <1>3

LEMMA GameStep ==
  ASSUME Board!LaunchParameters, GameInv, [Board!Next]_Board!vars
  PROVE  GameInv'
  <1>0. launch \in Launches
    BY DEF GameInv
  <1>1. launch' = launch
    <2>1. CASE UNCHANGED Board!vars
      BY <2>1 DEF Board!vars
    <2>2. ASSUME NEW r \in Board!Ranks, Board!Step(r) PROVE launch' = launch
      BY <2>2 DEF Board!Step, Board!Start, Board!Gather, Board!GatherRoot, Board!Post, Board!Waitall, Board!Compute, Board!Barrier2, Board!Finalize
    <2>3. ASSUME NEW s \in Board!Ranks, NEW d \in Board!Ranks, Board!Match(s, d) PROVE launch' = launch
      BY <2>3 DEF Board!Match
    <2> QED BY <2>1, <2>2, <2>3 DEF Board!Next, Board!Terminated
  <1>2. Board!Accepts' = Board!Accepts /\ Board!Ranks' = Board!Ranks /\ Board!M' = Board!M /\ Board!Cols' = Board!Cols
    BY <1>1, Frame
  <1>5. \/ UNCHANGED Board!vars
        \/ \E r \in Board!Ranks : Board!Step(r)
        \/ \E s, d \in Board!Ranks : Board!Match(s, d)
    BY DEF Board!Next, Board!Terminated
  <1>3. CASE ~Board!Accepts
    <2>1. Refused
      BY <1>3 DEF GameInv
    <2>2. \A r \in Board!Ranks : at[r] \in {"start", "done"}
      BY <2>1 DEF Refused
    <2>3. CASE UNCHANGED Board!vars
      <3>1. Board!Zero(Board!M)' = Board!Zero(Board!M)
        BY <1>2 DEF Board!Zero
      <3>2. /\ at' = at /\ iter' = iter /\ buf' = buf /\ even' = even /\ op' = op
            /\ mail' = mail /\ posted' = posted /\ boards' = boards
        BY <2>3 DEF Board!vars
      <3>3. Refused'
        BY <2>1, <3>1, <3>2, <1>2 DEF Refused
      <3> QED BY <3>3, <1>0, <1>1, <1>2, <1>3 DEF GameInv
    <2>4. ASSUME NEW r \in Board!Ranks, Board!Step(r) PROVE Refused'
      <3>1. 0 \in Board!Ranks
        BY <1>0, Arguments
      <3>2. Board!Start(r)
        BY <2>2, <2>4, <3>1 DEF Board!Step, Board!Gather, Board!GatherRoot, Board!Post, Board!Waitall, Board!Compute, Board!Barrier2, Board!Finalize
      <3>3. /\ at' = [at EXCEPT ![r] = "done"] /\ buf' = buf /\ iter' = iter /\ even' = even /\ op' = op
            /\ mail' = mail /\ posted' = posted /\ boards' = boards
        BY <3>2, <1>3 DEF Board!Start
      <3> QED BY <2>1, <3>3, <1>2 DEF Refused, Board!Zero
    <2>5. ASSUME NEW s \in Board!Ranks, NEW d \in Board!Ranks, Board!Match(s, d) PROVE FALSE
      BY <2>1, <2>5 DEF Board!Match, Refused
    <2>6. ASSUME NEW r \in Board!Ranks, Board!Step(r) PROVE GameInv'
      BY <2>4, <2>6, <1>0, <1>1, <1>2, <1>3 DEF GameInv
    <2> QED BY <2>3, <2>5, <2>6, <1>5
  <1>4. CASE Board!Accepts
    <2>1. Accepted
      BY <1>4 DEF GameInv
    <2>2. ASSUME UNCHANGED Board!vars PROVE Accepted'
      <3>1. /\ at' = at /\ iter' = iter /\ buf' = buf /\ even' = even /\ op' = op /\ entered' = entered
            /\ ghost' = ghost /\ mail' = mail /\ posted' = posted /\ gathered' = gathered /\ boards' = boards
        BY <2>2 DEF Board!vars
      <3>2. PICK r \in Board!Ranks : r = 0
        BY <1>0, Arguments
      <3>3. Only(r)
        BY <3>1, <1>1 DEF Only
      <3>4. /\ Before(r)' = Before(r) /\ Left(r)' = Left(r)
            /\ \A n : (Past(r, n)' <=> Past(r, n)) /\ Times(r, n)' = Times(r, n)
            /\ \A side : Message(r, side)' = Message(r, side)
            /\ (Located(r)' <=> Located(r)) /\ (Boards(r)' <=> Boards(r))
        BY <3>1, <1>1, Untouched
      <3>5. Messages'
        <4>1. PICK p, q \in [Board!Ranks -> SUBSET Board!Sides] :
                 Queues(p, q) /\ \A t \in Board!Ranks : \A side \in Board!Sides : Exchanging(p, q, t, side)
          BY <2>1 DEF Accepted, Messages
        <4>2. /\ \A side \in p[r] : Sending(p, r, side)'
              /\ \A side \in q[r] : Awaiting(q, r, side)'
          <5>1. p[r] \subseteq Board!Sides /\ q[r] \subseteq Board!Sides
            BY <4>1
          <5> QED BY <5>1, <4>1, <3>1, <3>4 DEF Exchanging, Sending, Awaiting
        <4> QED BY <4>1, <4>2, <3>1, <3>3, <3>4, <1>0, SilentStep
      <3>6. Typed' /\ Output'
        BY <2>1, <3>1, <1>1, Frame, OutputKept DEF Accepted, Typed
      <3>7. Located(r)' /\ Boards(r)' /\ entered'[r] >= entered[r] /\ \A s \in Board!Ranks : Left(r)' <= entered'[s]
        BY <2>1, <3>1, <3>4 DEF Accepted, InStep, Typed
      <3> QED BY <2>1, <3>3, <3>5, <3>6, <3>7, <1>0, Together
    <2>3. ASSUME NEW r \in Board!Ranks, Board!Step(r) PROVE Accepted'
      <3>1. CASE Board!Start(r)
        BY <3>1, <2>1, <1>0, <1>4, StartStep
      <3>2. CASE Board!Gather(r)
        BY <3>2, <2>1, <1>0, <1>4, GatherStep
      <3>3. CASE Board!GatherRoot
        BY <3>3, <2>1, <1>0, <1>4, GatherRootStep
      <3>4. CASE Board!Post(r)
        BY <3>4, <2>1, <1>0, <1>4, PostStep
      <3>5. CASE Board!Waitall(r)
        BY <3>5, <2>1, <1>0, <1>4, WaitallStep
      <3>6. CASE Board!Compute(r)
        BY <3>6, <2>1, <1>0, <1>4, ComputeStep
      <3>7. CASE Board!Barrier2(r)
        BY <3>7, <2>1, <1>0, <1>4, Barrier2Step
      <3>8. CASE Board!Finalize(r)
        BY <3>8, <2>1, <1>0, <1>4, FinalizeStep
      <3> QED BY <2>3, <3>1, <3>2, <3>3, <3>4, <3>5, <3>6, <3>7, <3>8 DEF Board!Step
    <2>4. ASSUME NEW s \in Board!Ranks, NEW d \in Board!Ranks, Board!Match(s, d) PROVE Accepted'
      BY <2>4, <2>1, <1>0, <1>4, MatchStep
    <2>5. (\E r \in Board!Ranks : Board!Step(r)) \/ (\E s, d \in Board!Ranks : Board!Match(s, d)) => Accepted'
      BY <2>3, <2>4
    <2>6. Accepted' => GameInv'
      BY <1>0, <1>1, <1>2, <1>4 DEF GameInv
    <2> QED BY <2>2, <2>5, <2>6, <1>5
  <1> QED BY <1>3, <1>4

LEMMA GameInvariant == Board!Spec => []GameInv
  <1>1. Board!Init => GameInv
    BY GameInit, LaunchesAssumption
  <1>2. GameInv /\ [Board!Next]_Board!vars => GameInv'
    BY GameStep, LaunchesAssumption
  <1> QED BY <1>1, <1>2, PTL DEF Board!Spec

LEMMA QueueLengths ==
  ASSUME GameInv, Board!Accepts
  PROVE  \A s, d \in Board!Ranks : Len(mail[s][d]) <= 2 /\ Len(posted[d][s]) <= 2
  <1>1. PICK p, q \in [Board!Ranks -> SUBSET Board!Sides] : Queues(p, q)
    BY DEF GameInv, Accepted, Messages
  <1>2. \A x, y : \A a, b \in BOOLEAN : Len(Pair(a, x, b, y)) <= 2
    BY PairLength
  <1>3. ASSUME NEW s \in Board!Ranks, NEW d \in Board!Ranks PROVE Len(mail[s][d]) <= 2 /\ Len(posted[s][d]) <= 2
    <2>1. /\ mail[s][d] = Pair(Towards(p, s, d, "north"), Message(s, "north"),
                               Towards(p, s, d, "south"), Message(s, "south"))
          /\ posted[s][d] = Pair(Towards(q, s, d, "south"), "south", Towards(q, s, d, "north"), "north")
      BY <1>1 DEF Queues
    <2>2. PICK a, b, c, e \in BOOLEAN :
             /\ (a <=> Towards(p, s, d, "north")) /\ (b <=> Towards(p, s, d, "south"))
             /\ (c <=> Towards(q, s, d, "south")) /\ (e <=> Towards(q, s, d, "north"))
      OBVIOUS
    <2>3. /\ mail[s][d] = Pair(a, Message(s, "north"), b, Message(s, "south"))
          /\ posted[s][d] = Pair(c, "south", e, "north")
      BY <2>1, <2>2 DEF Pair
    <2> QED BY <2>3, <1>2
  <1> QED BY <1>3

LEMMA GameTyped ==
  ASSUME Board!LaunchParameters, GameInv
  PROVE  Board!TypeOK
  <1>0. /\ launch \in Launches /\ Board!Iterations \in Nat /\ Board!Cols \in Nat /\ Board!M \in Nat
    BY Arguments DEF GameInv
  <1>1. CASE Board!Accepts
    <2>1. Typed
      BY <1>1 DEF GameInv, Accepted
    <2>2. ASSUME NEW r \in Board!Ranks, NEW b \in {0, 1}, NEW h \in 0 .. Board!M - 1
          PROVE  buf[r][b][h] \in [0 .. Board!Cols - 1 -> {0, 1}]
      <3>1. buf[r] \in [{0, 1} -> [0 .. Board!M - 1 -> Cells]]
        BY <2>1 DEF Typed
      <3>2. buf[r][b] \in [0 .. Board!M - 1 -> Cells]
        BY <3>1
      <3>3. buf[r][b][h] \in Cells
        BY <3>2
      <3> QED BY <3>3 DEF Cells
    <2> QED BY <1>1, <2>1, <2>2, QueueLengths DEF Board!TypeOK, Typed, Places
  <1>2. CASE ~Board!Accepts
    <2>1. Refused
      BY <1>2 DEF GameInv
    <2>2. \A r \in Board!Ranks : \A b \in {0, 1} : \A h \in 0 .. Board!M - 1 : buf[r][b][h] \in [0 .. Board!Cols - 1 -> {0, 1}]
      BY <2>1, <1>0 DEF Refused, Board!Zero
    <2>3. \A s, d \in Board!Ranks : Len(mail[s][d]) <= 2 /\ Len(posted[d][s]) <= 2
      BY <2>1 DEF Refused
    <2> QED BY <1>0, <2>1, <2>2, <2>3 DEF Board!TypeOK, Refused
  <1> QED BY <1>1, <1>2

LEMMA GameOutput ==
  ASSUME Board!LaunchParameters, Board!PlacedAlike, GameInv
  PROVE  Board!SameOutputAsSerial
  <1>1. launch \in Launches /\ launch.parallel = launch.serial
    BY DEF GameInv, Board!PlacedAlike
  <1>2. ParallelBoard = Board!SerialBoard
    BY <1>1 DEF ParallelBoard, Board!SerialBoard
  <1>3. CASE Board!Accepts
    BY <1>2, <1>3 DEF GameInv, Accepted, Output, Board!SameOutputAsSerial
  <1>4. CASE ~Board!Accepts
    BY <1>4 DEF GameInv, Refused, Board!SameOutputAsSerial
  <1> QED BY <1>3, <1>4

LEMMA GameBuffers ==
  ASSUME Board!LaunchParameters, GameInv, [Board!Next]_Board!vars,
         NEW s \in Board!Ranks, NEW d \in Board!Ranks, NEW n \in 1 .. Len(mail[s][d])
  PROVE  Board!EdgeRow(buf'[s][mail[s][d][n].buf], mail[s][d][n].side) = mail[s][d][n].row
  <1>1. CASE ~Board!Accepts
    BY <1>1 DEF GameInv, Refused
  <1>2. CASE Board!Accepts
    <2>1. Accepted
      BY <1>2 DEF GameInv
    <2>2. PICK p, q \in [Board!Ranks -> SUBSET Board!Sides] :
             Queues(p, q) /\ \A t \in Board!Ranks : \A side \in Board!Sides : Exchanging(p, q, t, side)
      BY <2>1 DEF Accepted, Messages
    <2>3. PICK side \in p[s] : mail[s][d][n] = Message(s, side)
      <3>1. mail[s][d] = Pair(Towards(p, s, d, "north"), Message(s, "north"),
                              Towards(p, s, d, "south"), Message(s, "south"))
        BY <2>2 DEF Queues
      <3>2. PICK a, b \in BOOLEAN : (a <=> Towards(p, s, d, "north")) /\ (b <=> Towards(p, s, d, "south"))
        OBVIOUS
      <3>3. PICK x, y : x = Message(s, "north") /\ y = Message(s, "south")
        OBVIOUS
      <3>4. mail[s][d] = Pair(a, x, b, y)
        BY <3>1, <3>2, <3>3 DEF Pair
      <3>5. \A m \in 1 .. Len(Pair(a, x, b, y)) : (a /\ Pair(a, x, b, y)[m] = x) \/ (b /\ Pair(a, x, b, y)[m] = y)
        <4>1. CASE a /\ b
          BY <4>1 DEF Pair
        <4>2. CASE a /\ ~b
          BY <4>2 DEF Pair
        <4>3. CASE ~a /\ b
          BY <4>3 DEF Pair
        <4>4. CASE ~a /\ ~b
          BY <4>4 DEF Pair
        <4> QED BY <4>1, <4>2, <4>3, <4>4
      <3>6. (a /\ mail[s][d][n] = x) \/ (b /\ mail[s][d][n] = y)
        BY <3>4, <3>5
      <3> QED BY <3>2, <3>3, <3>6 DEF Towards
    <2>4. at[s] \in {"exchange", "waitall", "barrier"}
      <3>1. side \in Board!Sides
        BY <2>2, <2>3
      <3> QED BY <3>1, <2>2, <2>3 DEF Exchanging, Sending
    <2>5. buf'[s][even[s]] = buf[s][even[s]]
      <3>1. buf \in [Board!Ranks -> [{0, 1} -> [0 .. Board!M - 1 -> Cells]]] /\ even \in [Board!Ranks -> {0, 1}]
        BY <2>1 DEF Accepted, Typed
      <3>2. CASE buf' = buf
        BY <3>2
      <3>3. ASSUME NEW r \in Board!Ranks, Board!Start(r) PROVE buf'[s][even[s]] = buf[s][even[s]]
        <4>1. r # s /\ buf' = [buf EXCEPT ![r][0] = Board!Populated(r)]
          BY <3>3, <2>4, <1>2 DEF Board!Start
        <4> QED BY <4>1, <3>1
      <3>4. ASSUME NEW r \in Board!Ranks, Board!Compute(r) PROVE buf'[s][even[s]] = buf[s][even[s]]
        <4>1. PICK v : buf' = [buf EXCEPT ![r][1 - even[r]] = v]
          BY <3>4 DEF Board!Compute
        <4>2. 1 - even[s] # even[s] /\ 1 - even[r] \in {0, 1}
          BY <3>1
        <4>3. CASE r = s
          BY <4>1, <4>2, <4>3, <3>1
        <4>4. CASE r # s
          BY <4>1, <4>4, <3>1
        <4> QED BY <4>3, <4>4
      <3>5. ASSUME NEW r \in Board!Ranks, Board!Step(r) PROVE buf' = buf \/ Board!Start(r) \/ Board!Compute(r)
        BY <3>5 DEF Board!Step, Board!Gather, Board!GatherRoot, Board!Post, Board!Waitall, Board!Barrier2, Board!Finalize
      <3>6. ASSUME NEW t \in Board!Ranks, NEW e \in Board!Ranks, Board!Match(t, e) PROVE buf' = buf
        BY <3>6 DEF Board!Match
      <3>7. UNCHANGED Board!vars => buf' = buf
        BY DEF Board!vars
      <3> QED BY <3>2, <3>3, <3>4, <3>5, <3>6, <3>7 DEF Board!Next, Board!Terminated
    <2> QED BY <2>3, <2>5 DEF Message
  <1> QED BY <1>1, <1>2

\* At most the two messages of one iteration are under way between two ranks, and
\* the loop counters, domains and calls of the ranks keep their types.
THEOREM GameTypes == Board!Spec => []Board!TypeOK
  <1>1. GameInv => Board!TypeOK
    BY GameTyped, LaunchesAssumption
  <1> QED BY <1>1, GameInvariant, PTL

\* Rank 0 prints the boards that the serial program prints (READTHISPLEASE.txt:4),
\* for every board, pattern, number of processes and of iterations, when the two
\* programs place the pattern alike.
THEOREM SameOutput ==
  ASSUME Board!PlacedAlike
  PROVE  Board!Spec => []SameOutputAsSerial
  <1>1. GameInv => SameOutputAsSerial
    BY GameOutput, LaunchesAssumption DEF SameOutputAsSerial
  <1> QED BY <1>1, GameInvariant, PTL

\* No step writes a row that the library has still to take: update_domain of one
\* iteration never touches the domain whose edge rows are being sent.
THEOREM BuffersStable == Board!Spec => SendBufferStable
  <1>1. GameInv /\ [Board!Next]_Board!vars =>
          [\A s, d \in Board!Ranks : \A n \in 1 .. Len(mail[s][d]) :
             LET m == mail[s][d][n] IN Board!EdgeRow(buf'[s][m.buf], m.side) = m.row]_Board!vars
    BY GameBuffers, LaunchesAssumption
  <1> QED BY <1>1, GameInvariant, PTL DEF Board!Spec, SendBufferStable, Board!SendBufferStable

-----------------------------------------------------------------------------
\* The two programs side by side, as the runs check them, keep their types.
THEOREM HomeworkTypes == HomeworkSpec => []HomeworkTypeOK
  <1>1. HomeworkInit => RingInv /\ GameInv
    BY InitRing, GameInit, LaunchesAssumption DEF HomeworkInit
  <1>2. RingInv /\ GameInv /\ [RingStep \/ BoardStep]_allVars => RingInv' /\ GameInv'
    <2> SUFFICES ASSUME RingInv, GameInv, [RingStep \/ BoardStep]_allVars PROVE RingInv' /\ GameInv'
      OBVIOUS
    <2>1. [Next]_vars /\ [Board!Next]_Board!vars
      BY DEF RingStep, BoardStep, allVars, boardVars, Board!vars
    <2>2. RingInv'
      BY <2>1, StepAlone, StepRing
    <2>3. GameInv'
      BY <2>1, GameStep, LaunchesAssumption
    <2> QED BY <2>2, <2>3
  <1>3. RingInv /\ GameInv => HomeworkTypeOK
    BY GameTyped, LaunchesAssumption DEF RingInv, HomeworkTypeOK
  <1> QED BY <1>1, <1>2, <1>3, PTL DEF HomeworkSpec
=============================================================================
