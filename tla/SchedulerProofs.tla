--------------------------- MODULE SchedulerProofs ---------------------------
(***************************************************************************)
(* Proofs about ContinuousScheduler for any number of clients, any prompts *)
(* and any model: the order of service and the size of the batch, then the *)
(* server with the memory under it (ServerInv), then the answers that it   *)
(* gives (AnswerInv).                                                      *)
(***************************************************************************)
EXTENDS SchedulerSafety, ReadbackProofs

(* Every request of the batch has its prompt: the collection takes all.    *)
LEMMA CollectsAll ==
    ASSUME running_batch \in Seq(Seqs),
           \A i \in 1 .. Len(running_batch) : is_prefill_done[running_batch[i]]
    PROVE  DecodeBatch = running_batch
<1>. DEFINE s == running_batch
            N == Len(s)
            Turn(F) == [n \in 0 .. N |->
                IF n = 0 THEN <<>>
                ELSE IF is_prefill_done[s[n]] THEN Append(F[n - 1], s[n]) ELSE F[n - 1]]
            All == [n \in 0 .. N |-> SubSeq(s, 1, n)]
            taken == CHOOSE F : F = Turn(F)
<1>1. N \in Nat
  OBVIOUS
<1>2. /\ SubSeq(s, 1, 0) = <<>> /\ SubSeq(s, 1, N) = s
      /\ \A n \in 1 .. N : SubSeq(s, 1, n) = Append(SubSeq(s, 1, n - 1), s[n])
  <2>1. SubSeq(s, 1, 0) = <<>>
    BY SubSeqEmpty
  <2>2. SubSeq(s, 1, N) = s
    BY SubSeqFull
  <2>3. ASSUME NEW n \in 1 .. N
        PROVE  SubSeq(s, 1, n) = Append(SubSeq(s, 1, n - 1), s[n])
    <3>1. /\ SubSeq(s, 1, n) \in Seq(Seqs) /\ Len(SubSeq(s, 1, n)) = n
          /\ SubSeq(s, 1, n - 1) \in Seq(Seqs) /\ Len(SubSeq(s, 1, n - 1)) = n - 1
          /\ s[n] \in Seqs
      OBVIOUS
    <3>2. \A i \in 1 .. n : SubSeq(s, 1, n)[i] = s[i]
      OBVIOUS
    <3>3. \A i \in 1 .. n - 1 : SubSeq(s, 1, n - 1)[i] = s[i]
      OBVIOUS
    <3>. DEFINE a == SubSeq(s, 1, n)
                b == SubSeq(s, 1, n - 1)
                c == Append(b, s[n])
    <3>4. c \in Seq(Seqs) /\ Len(c) = n /\ c[n] = s[n] /\ \A i \in 1 .. n - 1 : c[i] = b[i]
      <4>. HIDE DEF b
      <4>1. b \in Seq(Seqs) /\ Len(b) = n - 1
        BY <3>1 DEF b
      <4>2. n \in Nat /\ (n - 1) + 1 = n
        OBVIOUS
      <4>. QED BY <3>1, <4>1, <4>2, AppendProperties
    <3>5. \A i \in 1 .. n : a[i] = c[i]
      <4>. TAKE i \in 1 .. n
      <4>1. i = n \/ i \in 1 .. n - 1
        OBVIOUS
      <4>. HIDE DEF a, b, c
      <4>. QED BY <3>2, <3>3, <3>4, <4>1 DEF a, b
    <3>. HIDE DEF a, b, c
    <3>6. a = c
      BY <3>1, <3>4, <3>5, SeqEqual DEF a
    <3>. QED BY <3>6 DEF a, b, c
  <2>. QED BY <2>1, <2>2, <2>3
<1>3. All = Turn(All)
  <2>1. \A n \in 1 .. N : n - 1 \in 0 .. N /\ All[n - 1] = SubSeq(s, 1, n - 1)
    BY <1>1
  <2>2. ASSUME NEW n \in 0 .. N PROVE All[n] = Turn(All)[n]
    <3>1. CASE n = 0
      BY <1>2, <3>1
    <3>2. CASE n # 0
      <4>1. n \in 1 .. N /\ is_prefill_done[s[n]]
        BY <1>1, <3>2
      <4>2. Turn(All)[n] = Append(All[n - 1], s[n])
        <5>. HIDE DEF All
        <5>. QED BY <3>2, <4>1
      <4>3. All[n] = SubSeq(s, 1, n)
        OBVIOUS
      <4>. HIDE DEF Turn, All
      <4>. QED BY <1>2, <2>1, <4>1, <4>2, <4>3
    <3>. QED BY <3>1, <3>2
  <2>. QED BY <2>2
<1>4. taken = Turn(taken)
  <2>. HIDE DEF Turn, All
  <2>. QED BY <1>3
<1>5. ASSUME NEW n \in 0 .. N, \A m \in 0 .. N : m < n => taken[m] = All[m]
      PROVE  taken[n] = All[n]
  <2>1. /\ Turn(taken)[n] = IF n = 0 THEN <<>> ELSE Append(taken[n - 1], s[n])
        /\ All[n] = IF n = 0 THEN <<>> ELSE Append(All[n - 1], s[n])
    <3>1. \A m \in 1 .. N : m - 1 \in 0 .. N
      BY <1>1
    <3>. HIDE DEF taken
    <3>. QED BY <1>1, <1>2, <3>1
  <2>2. n # 0 => n - 1 \in 0 .. N /\ n - 1 < n
    BY <1>1
  <2>. HIDE DEF Turn, All, taken
  <2>. QED BY <1>4, <1>5, <2>1, <2>2
<1>6. taken[N] = All[N]
  <2>. DEFINE X == {n \in 0 .. N : taken[n] # All[n]}
              R == {r \in (0 .. N) \X (0 .. N) : r[1] < r[2]}
  <2>. SUFFICES ASSUME X # {} PROVE FALSE
    <3>1. N \in 0 .. N
      BY <1>1
    <3>. HIDE DEF taken, All
    <3>. QED BY <3>1
  <2>. HIDE DEF taken, All
  <2>1. IsFiniteSet(X)
    <3>1. IsFiniteSet(0 .. N) /\ X \in SUBSET (0 .. N)
      BY <1>1, FS_Interval
    <3>. HIDE DEF X
    <3>. QED BY <3>1, FS_Subset
  <2>2. \A a, b \in 0 .. N : <<a, b>> \in R <=> a < b
    OBVIOUS
  <2>3. /\ \A a \in X : <<a, a>> \notin R
        /\ \A a, b, c \in X : <<a, b>> \in R /\ <<b, c>> \in R => <<a, c>> \in R
    <3>. HIDE DEF R
    <3>. QED BY <1>1, <2>2
  <2>4. PICK n \in X : \A m \in X : <<m, n>> \notin R
    <3>. HIDE DEF X, R
    <3>. QED BY <2>1, <2>3, LeastExists
  <2>5. \A m \in 0 .. N : m < n => taken[m] = All[m]
    BY <2>2, <2>4
  <2>. QED BY <1>5, <2>4, <2>5
<1>7. DecodeBatch = taken[N]
  BY Zenon DEF DecodeBatch
<1>8. All[N] = s
  BY <1>1, <1>2
<1>. HIDE DEF taken, All
<1>. QED BY <1>6, <1>7, <1>8

(* vector::erase moves the elements behind the erased one up.              *)
LEMMA RemoveShift ==
    ASSUME NEW S, NEW s \in Seq(S), NEW x \in 1 .. Len(s)
    PROVE  /\ RemoveAt(s, x) \in Seq(S)
           /\ Len(RemoveAt(s, x)) = Len(s) - 1
           /\ \A i \in 1 .. Len(RemoveAt(s, x)) :
                  RemoveAt(s, x)[i] = IF i < x THEN s[i] ELSE s[i + 1]
<1>. DEFINE a == SubSeq(s, 1, x - 1)
            b == SubSeq(s, x + 1, Len(s))
            c == a \o b
<1>1. /\ a \in Seq(S) /\ Len(a) = x - 1
      /\ \A i \in 1 .. x - 1 : a[i] = s[i]
  OBVIOUS
<1>2. /\ b \in Seq(S) /\ Len(b) = Len(s) - x
      /\ \A i \in 1 .. Len(s) - x : b[i] = s[x + i]
  OBVIOUS
<1>3. RemoveAt(s, x) = c
  BY DEF RemoveAt
<1>4. Len(s) \in Nat /\ x \in 1 .. Len(s)
  OBVIOUS
<1>. HIDE DEF a, b
<1>5. /\ c \in Seq(S) /\ Len(c) = Len(a) + Len(b)
      /\ \A i \in 1 .. Len(a) + Len(b) :
             c[i] = IF i <= Len(a) THEN a[i] ELSE b[i - Len(a)]
  BY <1>1, <1>2, ConcatProperties
<1>. HIDE DEF c
<1>6. Len(c) = Len(s) - 1
  BY <1>1, <1>2, <1>4, <1>5
<1>7. ASSUME NEW i \in 1 .. Len(s) - 1
      PROVE  c[i] = IF i < x THEN s[i] ELSE s[i + 1]
  <2>1. CASE i < x
    <3>1. i <= Len(a) /\ i \in 1 .. x - 1 /\ i \in 1 .. Len(a) + Len(b)
      BY <1>1, <1>2, <1>4, <2>1
    <3>2. c[i] = a[i]
      BY <1>5, <3>1
    <3>. QED BY <1>1, <2>1, <3>1, <3>2
  <2>2. CASE i >= x
    <3>1. /\ i - Len(a) \in 1 .. Len(s) - x /\ x + (i - Len(a)) = i + 1
          /\ ~(i <= Len(a)) /\ i \in 1 .. Len(a) + Len(b)
      BY <1>1, <1>2, <1>4, <2>2
    <3>2. c[i] = b[i - Len(a)]
      BY <1>5, <3>1
    <3>3. b[i - Len(a)] = s[i + 1]
      BY <1>2, <3>1
    <3>. QED BY <1>4, <2>2, <3>2, <3>3
  <2>. QED BY <1>4, <2>1, <2>2
<1>. QED BY <1>3, <1>5, <1>6, <1>7

-----------------------------------------------------------------------------
(* The order of arrival.  `arrived' falls into three parts: the requests   *)
(* past their prefill, then the waiting queue, then the shared queue; only *)
(* the first of the waiting ones may have a part of its prompt prefilled.  *)
Through == Len(arrived) - Len(waiting_queue) - Len(incoming_requests)

QueueInv ==
    /\ arrived \in Seq(Seqs) /\ IsInjective(arrived)
    /\ waiting_queue \in Seq(Seqs) /\ incoming_requests \in Seq(Seqs)
    /\ Through \in Nat
    /\ \A i \in 1 .. Len(waiting_queue) : waiting_queue[i] = arrived[Through + i]
    /\ \A i \in 1 .. Len(incoming_requests) :
           incoming_requests[i] = arrived[Through + Len(waiting_queue) + i]

PrefillInv ==
    /\ prefill_idx \in [Seqs -> Nat]
    /\ is_prefill_done \in [Seqs -> BOOLEAN]
    /\ \A r \in Seqs : prefill_idx[r] <= Len(Prompt[r])
    /\ \A i \in 1 .. Len(arrived) :
           /\ is_prefill_done[arrived[i]] <=> i <= Through
           /\ i > Through + 1 => prefill_idx[arrived[i]] = 0
    /\ \A r \in Seqs \ ToSet(arrived) : ~is_prefill_done[r] /\ prefill_idx[r] = 0

OrderInv == QueueInv /\ PrefillInv

-----------------------------------------------------------------------------
(* The size of the batch.  A request ages by one with every decode, and of *)
(* the k oldest the i-th has been through at least k - i of them: one      *)
(* request is admitted per step.                                           *)
Age == [r \in Seqs |->
            IF prefill_idx[r] = Len(Prompt[r]) THEN Len(generated_tokens[r])
                                               ELSE Len(generated_tokens[r]) - 1]
Aged(k) == \A i \in 1 .. k : Age[running_batch[i]] >= k - i
Going(k) == \A i \in 1 .. k :
                ~is_finished[running_batch[i]] =>
                    Len(generated_tokens[running_batch[i]]) < MaxGenerated
Unfinished == \A i \in 1 .. Len(running_batch) : ~is_finished[running_batch[i]]

Settled  == {"drain", "reap", "reply"}
Sampling == {"prefill", "sample"}
Decoding == {"decode", "sampleAll"}

RequestInv ==
    /\ \E S : generated_tokens \in [Seqs -> Seq(S)]
    /\ is_finished \in [Seqs -> BOOLEAN]
    /\ closes \in [Seqs -> Nat]
    /\ \A r \in Seqs :
           /\ closes[r] <= 1
           /\ closes[r] = 1 => is_finished[r]
           /\ Len(generated_tokens[r]) <= MaxGenerated
           /\ ~is_prefill_done[r] => generated_tokens[r] = <<>> /\ ~is_finished[r]

ListsInv ==
    /\ running_batch \in Seq(Seqs) /\ decode_reqs \in Seq(Seqs)
    /\ Len(running_batch) <= MaxGenerated + 1
    /\ Len(decode_reqs) <= MaxGenerated
    /\ \A i \in 1 .. Len(running_batch) : is_prefill_done[running_batch[i]]
    /\ phase \in Settled \cup Sampling \cup Decoding \cup {"admit"}

SettledInv ==
    phase \in Settled =>
        /\ Aged(Len(running_batch)) /\ Going(Len(running_batch))
        /\ phase = "reply" =>
               \A i \in 1 .. Len(running_batch) : closes[running_batch[i]] = 0

AdmitInv ==
    phase = "admit" =>
        /\ decode_reqs = running_batch
        /\ Aged(Len(running_batch)) /\ Going(Len(running_batch)) /\ Unfinished

\* The request that this step promoted, if any: the last of the batch.
Newest == running_batch[Len(running_batch)]

StepInv ==
    phase \in Sampling \cup Decoding =>
        /\ Len(running_batch) \in {Len(decode_reqs), Len(decode_reqs) + 1}
        /\ \A i \in 1 .. Len(decode_reqs) : decode_reqs[i] = running_batch[i]
        /\ Aged(Len(decode_reqs)) /\ Going(Len(decode_reqs)) /\ Unfinished
        /\ Len(decode_reqs) + Len(prefill_chunk)
               <= IF max_tokens_per_batch > MaxGenerated
                  THEN max_tokens_per_batch ELSE MaxGenerated
        /\ Len(running_batch) = Len(decode_reqs) + 1 =>
               /\ Newest \notin ToSet(decode_reqs)
               /\ phase \in Decoding => Age[Newest] = 0
               /\ phase \in Sampling =>
                      /\ generated_tokens[Newest] = <<>>
                      /\ Newest \in active_prefill_req
                            <=> prefill_idx[Newest] # Len(Prompt[Newest])
        /\ phase \in Sampling =>
               \A r \in active_prefill_req :
                   is_prefill_done[r] =>
                       Len(running_batch) = Len(decode_reqs) + 1 /\ r = Newest

BatchInv == RequestInv /\ ListsInv /\ SettledInv /\ AdmitInv /\ StepInv

-----------------------------------------------------------------------------
(* No request has arrived: the three parts of the order are empty.         *)
LEMMA OrderInit == ServerInit => OrderInv
<1>. SUFFICES ASSUME ServerInit PROVE OrderInv
  OBVIOUS
<1>. USE SchedulerAssumption DEF ServerInit
<1>1. /\ arrived = <<>> /\ waiting_queue = <<>> /\ incoming_requests = <<>>
      /\ Len(<<>>) = 0 /\ <<>> \in Seq(Seqs) /\ ToSet(<<>>) = {}
  BY DEF ToSet
<1>2. IsInjective(<<>>)
  BY DEF IsInjective
<1>3. QueueInv
  BY <1>1, <1>2 DEF QueueInv, Through
<1>4. \A r \in Seqs : Len(Prompt[r]) \in Nat
  OBVIOUS
<1>5. PrefillInv
  BY <1>1, <1>4 DEF PrefillInv
<1>. QED BY <1>3, <1>5 DEF OrderInv

(* What neither queues nor prefills keeps the order.                       *)
LEMMA OrderUnchanged ==
    OrderInv /\ UNCHANGED <<arrived, waiting_queue, incoming_requests,
                            prefill_idx, is_prefill_done>>
        => OrderInv'
BY DEF OrderInv, QueueInv, PrefillInv, Through

(* A request that arrives is appended to the last part.                    *)
LEMMA ReceiveOrder ==
    ASSUME OrderInv, NEW r \in Seqs, Receive(r)
    PROVE  OrderInv'
<1>1. /\ r \notin ToSet(arrived)
      /\ arrived' = Append(arrived, r)
      /\ incoming_requests' = Append(incoming_requests, r)
      /\ UNCHANGED <<waiting_queue, prefill_idx, is_prefill_done>>
  BY DEF Receive, Connecting, requestVars
<1>2. /\ arrived \in Seq(Seqs) /\ incoming_requests \in Seq(Seqs)
      /\ waiting_queue \in Seq(Seqs) /\ IsInjective(arrived) /\ Through \in Nat
  BY DEF OrderInv, QueueInv
<1>3. /\ arrived' \in Seq(Seqs) /\ incoming_requests' \in Seq(Seqs)
      /\ IsInjective(arrived') /\ ToSet(arrived') = ToSet(arrived) \cup {r}
  <2>1. Append(incoming_requests, r) \in Seq(Seqs)
    BY <1>2
  <2>. QED BY <1>1, <1>2, <2>1, AppendMember
<1>4. /\ Len(arrived') = Len(arrived) + 1
      /\ arrived'[Len(arrived) + 1] = r
      /\ \A i \in 1 .. Len(arrived) : arrived'[i] = arrived[i]
      /\ Len(incoming_requests') = Len(incoming_requests) + 1
      /\ incoming_requests'[Len(incoming_requests) + 1] = r
      /\ \A i \in 1 .. Len(incoming_requests) :
             incoming_requests'[i] = incoming_requests[i]
      /\ Len(arrived) \in Nat /\ Len(incoming_requests) \in Nat
      /\ Len(waiting_queue) \in Nat
  BY <1>1, <1>2
<1>5. Through' = Through
  BY <1>1, <1>4 DEF Through
<1>6. QueueInv'
  <2>1. Len(arrived) = Through + Len(waiting_queue) + Len(incoming_requests)
    BY <1>4 DEF Through
  <2>2. ASSUME NEW i \in 1 .. Len(waiting_queue)
        PROVE  waiting_queue[i] = arrived'[Through + i]
    <3>1. Through + i \in 1 .. Len(arrived)
      BY <1>2, <1>4, <2>1
    <3>. QED BY <1>4, <3>1 DEF OrderInv, QueueInv
  <2>3. ASSUME NEW i \in 1 .. Len(incoming_requests')
        PROVE  incoming_requests'[i] = arrived'[Through + Len(waiting_queue) + i]
    <3>1. CASE i = Len(incoming_requests) + 1
      <4>1. Through + Len(waiting_queue) + i = Len(arrived) + 1
        BY <1>2, <1>4, <2>1, <3>1
      <4>. QED BY <1>4, <3>1, <4>1
    <3>2. CASE i \in 1 .. Len(incoming_requests)
      <4>1. Through + Len(waiting_queue) + i \in 1 .. Len(arrived)
        BY <1>2, <1>4, <2>1, <3>2
      <4>. QED BY <1>4, <3>2, <4>1 DEF OrderInv, QueueInv
    <3>. QED BY <1>4, <3>1, <3>2
  <2>. QED BY <1>1, <1>2, <1>3, <1>5, <2>2, <2>3 DEF QueueInv
<1>7. PrefillInv'
  <2>1. ~is_prefill_done[r] /\ prefill_idx[r] = 0
    BY <1>1 DEF OrderInv, PrefillInv
  <2>2. Through <= Len(arrived)
    BY <1>4 DEF Through
  <2>3. ASSUME NEW i \in 1 .. Len(arrived')
        PROVE  /\ is_prefill_done[arrived'[i]] <=> i <= Through
               /\ i > Through + 1 => prefill_idx[arrived'[i]] = 0
    <3>1. CASE i = Len(arrived) + 1
      BY <1>2, <1>4, <2>1, <2>2, <3>1
    <3>2. CASE i \in 1 .. Len(arrived)
      BY <1>4, <3>2 DEF OrderInv, PrefillInv
    <3>. QED BY <1>4, <3>1, <3>2
  <2>. QED BY <1>1, <1>3, <1>5, <2>3 DEF OrderInv, PrefillInv
<1>. QED BY <1>6, <1>7 DEF OrderInv

(* Draining moves the border between the second and the last part.         *)
LEMMA DrainOrder == OrderInv /\ Drain => OrderInv'
<1>. SUFFICES ASSUME OrderInv, Drain PROVE OrderInv'
  OBVIOUS
<1>1. /\ waiting_queue' = waiting_queue \o incoming_requests
      /\ incoming_requests' = <<>>
      /\ UNCHANGED <<arrived, prefill_idx, is_prefill_done>>
  BY DEF Drain
<1>2. /\ arrived \in Seq(Seqs) /\ incoming_requests \in Seq(Seqs)
      /\ waiting_queue \in Seq(Seqs)
  BY DEF OrderInv, QueueInv
<1>3. /\ waiting_queue' \in Seq(Seqs)
      /\ Len(waiting_queue') = Len(waiting_queue) + Len(incoming_requests)
      /\ \A i \in 1 .. Len(waiting_queue) + Len(incoming_requests) :
             waiting_queue'[i] = IF i <= Len(waiting_queue) THEN waiting_queue[i]
                                 ELSE incoming_requests[i - Len(waiting_queue)]
  BY <1>1, <1>2, ConcatProperties
<1>4. /\ Len(arrived) \in Nat /\ Len(waiting_queue) \in Nat
      /\ Len(incoming_requests) \in Nat
      /\ Len(<<>>) = 0 /\ <<>> \in Seq(Seqs)
  BY <1>2
<1>5. Through' = Through
  BY <1>1, <1>3, <1>4 DEF Through
<1>6. ASSUME NEW i \in 1 .. Len(waiting_queue')
      PROVE  waiting_queue'[i] = arrived[Through + i]
  <2>1. CASE i <= Len(waiting_queue)
    BY <1>3, <1>4, <2>1 DEF OrderInv, QueueInv
  <2>2. CASE i > Len(waiting_queue)
    <3>. DEFINE k == i - Len(waiting_queue)
    <3>1. k \in 1 .. Len(incoming_requests) /\ waiting_queue'[i] = incoming_requests[k]
      BY <1>3, <1>4, <2>2
    <3>2. Through \in Nat
          /\ incoming_requests[k] = arrived[Through + Len(waiting_queue) + k]
      BY <3>1 DEF OrderInv, QueueInv
    <3>3. Through + Len(waiting_queue) + k = Through + i
      BY <1>4, <3>2
    <3>. QED BY <3>1, <3>2, <3>3
  <2>. QED BY <1>3, <1>4, <2>1, <2>2
<1>7. QueueInv'
  BY <1>1, <1>3, <1>4, <1>5, <1>6 DEF OrderInv, QueueInv
<1>8. PrefillInv'
  BY <1>1, <1>5 DEF OrderInv, PrefillInv
<1>. QED BY <1>7, <1>8 DEF OrderInv

(* The next in line is the first request that is not through.              *)
LEMMA NextInLineIs ==
    ASSUME OrderInv, waiting_queue # <<>>
    PROVE  /\ NextInLine \in Seqs
           /\ Through + 1 \in 1 .. Len(arrived)
           /\ NextInLine = arrived[Through + 1]
           /\ ~is_prefill_done[NextInLine]
           /\ \A i \in 1 .. Len(arrived) : arrived[i] = NextInLine => i = Through + 1
<1>1. /\ waiting_queue \in Seq(Seqs) /\ arrived \in Seq(Seqs)
      /\ incoming_requests \in Seq(Seqs) /\ Through \in Nat /\ IsInjective(arrived)
  BY DEF OrderInv, QueueInv
<1>2. /\ Len(waiting_queue) \in Nat \ {0}
      /\ NextInLine = waiting_queue[1] /\ NextInLine \in Seqs
  BY <1>1, EmptySeq DEF NextInLine
<1>3. Through + 1 \in 1 .. Len(arrived)
  BY <1>1, <1>2 DEF Through
<1>4. NextInLine = arrived[Through + 1]
  BY <1>2 DEF OrderInv, QueueInv
<1>5. ~is_prefill_done[NextInLine]
  BY <1>1, <1>3, <1>4 DEF OrderInv, PrefillInv
<1>6. \A i \in 1 .. Len(arrived) : arrived[i] = NextInLine => i = Through + 1
  BY <1>1, <1>3, <1>4 DEF IsInjective
<1>. QED BY <1>2, <1>3, <1>4, <1>5, <1>6

(* A part of the prompt of the next in line is accounted for.              *)
LEMMA AdvanceOrder ==
    ASSUME OrderInv, waiting_queue # <<>>, NEW n \in Nat,
           prefill_idx[NextInLine] + n <= Len(Prompt[NextInLine]),
           Advance(NextInLine, n),
           UNCHANGED <<arrived, waiting_queue, incoming_requests, is_prefill_done>>
    PROVE  OrderInv'
<1>1. QueueInv' /\ Through' = Through
  BY DEF OrderInv, QueueInv, Through
<1>2. /\ prefill_idx \in [Seqs -> Nat] /\ NextInLine \in Seqs
      /\ prefill_idx' = [prefill_idx EXCEPT ![NextInLine] = @ + n]
  BY NextInLineIs DEF OrderInv, PrefillInv, Advance
<1>3. /\ prefill_idx' \in [Seqs -> Nat]
      /\ \A r \in Seqs : prefill_idx'[r] <= Len(Prompt[r])
  BY <1>2 DEF OrderInv, PrefillInv
<1>4. NextInLine \in ToSet(arrived)
  BY NextInLineIs DEF ToSet, OrderInv, QueueInv
<1>5. \A r \in Seqs \ ToSet(arrived) : prefill_idx'[r] = 0
  BY <1>2, <1>4 DEF OrderInv, PrefillInv
<1>6. ASSUME NEW i \in 1 .. Len(arrived), i > Through + 1
      PROVE  prefill_idx'[arrived[i]] = 0
  <2>1. arrived[i] # NextInLine /\ arrived[i] \in Seqs
    <3>1. Through + 1 \in 1 .. Len(arrived) /\ arrived \in Seq(Seqs)
      BY NextInLineIs DEF OrderInv, QueueInv
    <3>2. i # Through + 1
      BY <1>6, <3>1
    <3>. QED BY <3>1, <3>2, NextInLineIs
  <2>. QED BY <1>2, <1>6, <2>1 DEF OrderInv, PrefillInv
<1>7. PrefillInv'
  BY <1>1, <1>3, <1>5, <1>6 DEF OrderInv, PrefillInv
<1>. QED BY <1>1, <1>7 DEF OrderInv

(* The next in line is through.                                            *)
LEMMA PromoteOrder ==
    ASSUME OrderInv, waiting_queue # <<>>, Promote(NextInLine),
           UNCHANGED <<arrived, incoming_requests, prefill_idx>>
    PROVE  OrderInv'
<1>1. /\ waiting_queue \in Seq(Seqs) /\ arrived \in Seq(Seqs)
      /\ incoming_requests \in Seq(Seqs) /\ Through \in Nat /\ IsInjective(arrived)
  BY DEF OrderInv, QueueInv
<1>2. /\ is_prefill_done' = [is_prefill_done EXCEPT ![NextInLine] = TRUE]
      /\ waiting_queue' = Tail(waiting_queue)
  BY DEF Promote
<1>3. /\ waiting_queue' \in Seq(Seqs)
      /\ Len(waiting_queue') = Len(waiting_queue) - 1
      /\ \A i \in 1 .. Len(waiting_queue') : waiting_queue'[i] = waiting_queue[i + 1]
  BY <1>1, <1>2, HeadTailProperties
<1>4. /\ Len(arrived) \in Nat /\ Len(waiting_queue) \in Nat \ {0}
      /\ Len(incoming_requests) \in Nat
  BY <1>1, EmptySeq
<1>5. Through' = Through + 1
  BY <1>1, <1>3, <1>4 DEF Through
<1>6. QueueInv'
  <2>1. ASSUME NEW i \in 1 .. Len(waiting_queue')
        PROVE  waiting_queue'[i] = arrived[Through + 1 + i]
    <3>1. i + 1 \in 1 .. Len(waiting_queue) /\ Through + (i + 1) = Through + 1 + i
      BY <1>1, <1>3, <1>4
    <3>. QED BY <1>3, <3>1 DEF OrderInv, QueueInv
  <2>2. Through + 1 + Len(waiting_queue') = Through + Len(waiting_queue)
    BY <1>1, <1>3, <1>4
  <2>3. \A i \in 1 .. Len(incoming_requests) :
            incoming_requests[i] = arrived[Through + 1 + Len(waiting_queue') + i]
    BY <2>2 DEF OrderInv, QueueInv
  <2>. QED BY <1>1, <1>3, <1>5, <2>1, <2>3 DEF QueueInv
<1>7. /\ is_prefill_done \in [Seqs -> BOOLEAN] /\ NextInLine \in Seqs
      /\ NextInLine = arrived[Through + 1] /\ Through + 1 \in 1 .. Len(arrived)
  BY NextInLineIs DEF OrderInv, PrefillInv
<1>8. ASSUME NEW i \in 1 .. Len(arrived)
      PROVE  /\ is_prefill_done'[arrived[i]] <=> i <= Through'
             /\ i > Through' + 1 => prefill_idx[arrived[i]] = 0
  <2>1. arrived[i] \in Seqs
    BY <1>1
  <2>2. CASE i = Through + 1
    BY <1>1, <1>2, <1>5, <1>7, <2>2
  <2>3. CASE i # Through + 1
    <3>1. arrived[i] # NextInLine
      BY <2>3, NextInLineIs
    <3>2. is_prefill_done'[arrived[i]] = is_prefill_done[arrived[i]]
      BY <1>2, <1>7, <2>1, <3>1
    <3>. QED BY <1>1, <1>4, <1>5, <2>3, <3>2 DEF OrderInv, PrefillInv
  <2>. QED BY <2>2, <2>3
<1>9. NextInLine \in ToSet(arrived)
  BY <1>1, <1>7 DEF ToSet
<1>10. PrefillInv'
  <2>1. is_prefill_done' \in [Seqs -> BOOLEAN]
    BY <1>2, <1>7
  <2>2. \A r \in Seqs \ ToSet(arrived) : is_prefill_done'[r] = is_prefill_done[r]
    BY <1>2, <1>7, <1>9
  <2>. QED BY <1>8, <2>1, <2>2 DEF OrderInv, PrefillInv
<1>. QED BY <1>6, <1>10 DEF OrderInv

\* What AdmitChunk does to the request r in front, with its LETs expanded.
ChunkOf(r) ==
    IF Len(Prompt[r]) - prefill_idx[r] < token_budget
    THEN Len(Prompt[r]) - prefill_idx[r] ELSE token_budget

(* The request next in line has tokens left, and there is budget for some. *)
LEMMA ChunkFits ==
    ASSUME OrderInv, ListsInv, Admitting
    PROVE  /\ NextInLine \in Seqs /\ Len(Prompt[NextInLine]) \in Nat
           /\ prefill_idx[NextInLine] \in Nat
           /\ token_budget = max_tokens_per_batch - Len(decode_reqs)
           /\ ChunkOf(NextInLine) \in Nat /\ token_budget \in Nat
           /\ prefill_idx[NextInLine] + ChunkOf(NextInLine)
                  <= Len(Prompt[NextInLine])
           /\ ChunkOf(NextInLine) <= token_budget
           /\ ChunkOf(NextInLine) = 0 <=>
                  prefill_idx[NextInLine] = Len(Prompt[NextInLine])
<1>1. waiting_queue # <<>> /\ token_budget > 0
  BY DEF Admitting
<1>2. /\ NextInLine \in Seqs
      /\ prefill_idx[NextInLine] \in Nat
      /\ prefill_idx[NextInLine] <= Len(Prompt[NextInLine])
  BY <1>1, NextInLineIs DEF OrderInv, PrefillInv
<1>3. Len(Prompt[NextInLine]) \in Nat
  BY <1>2, SchedulerAssumption
<1>4. token_budget \in Int /\ token_budget = max_tokens_per_batch - Len(decode_reqs)
  BY SchedulerAssumption DEF token_budget, ListsInv
<1>. QED BY <1>1, <1>2, <1>3, <1>4 DEF ChunkOf

(* Admission takes tokens of the request next in line, and of no other.    *)
LEMMA AdmitOrder ==
    ASSUME OrderInv, ListsInv, AdmitHit \/ AdmitChunk
    PROVE  OrderInv'
<1>1. Admitting
  BY DEF AdmitHit, AdmitChunk
<1>2. waiting_queue # <<>>
  BY <1>1 DEF Admitting
<1>3. CASE AdmitHit
  <2>1. /\ CanHit(NextInLine) /\ Advance(NextInLine, BlockSize)
        /\ UNCHANGED <<arrived, waiting_queue, incoming_requests, is_prefill_done>>
    BY <1>3 DEF AdmitHit, listenVars
  <2>2. /\ BlockSize \in Nat
        /\ prefill_idx[NextInLine] + BlockSize <= Len(Prompt[NextInLine])
    BY <2>1, PoolAssumption DEF CanHit
  <2>. QED BY <1>2, <2>1, <2>2, AdvanceOrder
<1>4. CASE AdmitChunk
  <2>. DEFINE r == NextInLine
              remaining == Len(Prompt[r]) - prefill_idx[r]
  <2>1. /\ UNCHANGED <<arrived, incoming_requests>>
        /\ IF ChunkOf(r) = remaining
           THEN Promote(r) /\ UNCHANGED prefill_idx
           ELSE /\ Advance(r, ChunkOf(r))
                /\ UNCHANGED <<is_prefill_done, running_batch, waiting_queue>>
    BY <1>4 DEF AdmitChunk, listenVars, ChunkOf
  <2>2. CASE ChunkOf(r) = remaining
    BY <1>2, <2>1, <2>2, PromoteOrder
  <2>3. CASE ChunkOf(r) # remaining
    BY <1>1, <1>2, <2>1, <2>3, ChunkFits, AdvanceOrder
  <2>. QED BY <2>2, <2>3
<1>. QED BY <1>3, <1>4

(* Every step of the server keeps the order of arrival.                    *)
LEMMA OrderStep == OrderInv /\ ListsInv /\ [ServerNext]_serverVars => OrderInv'
<1>. SUFFICES ASSUME OrderInv, ListsInv, [ServerNext]_serverVars
              PROVE  OrderInv'
  OBVIOUS
<1>. USE DEF requestVars, clientVars, listenVars, stepVars
<1>1. CASE Drain
  BY <1>1, DrainOrder
<1>2. CASE AdmitHit \/ AdmitChunk
  BY <1>2, AdmitOrder
<1>3. CASE Reap
  BY <1>3, OrderUnchanged DEF Reap
<1>4. CASE CollectDecodes
  BY <1>4, OrderUnchanged DEF CollectDecodes
<1>5. CASE AdmitNone
  BY <1>5, OrderUnchanged DEF AdmitNone
<1>6. CASE Prefill
  BY <1>6, OrderUnchanged DEF Prefill
<1>7. CASE SampleFirst
  BY <1>7, OrderUnchanged DEF SampleFirst
<1>8. CASE Decode
  BY <1>8, OrderUnchanged DEF Decode
<1>9. CASE SampleAll
  BY <1>9, OrderUnchanged DEF SampleAll
<1>10. CASE Reply
  BY <1>10, OrderUnchanged DEF Reply
<1>11. CASE Call \/ UNCHANGED serverVars
  BY <1>11, OrderUnchanged DEF Call, serverVars, schedVars
<1>12. CASE \E r \in Seqs : Receive(r)
  BY <1>12, ReceiveOrder
<1>13. CASE \E r \in Seqs : ReceiveFails(r)
  BY <1>13, OrderUnchanged DEF ReceiveFails
<1>. QED BY <1>1, <1>2, <1>3, <1>4, <1>5, <1>6, <1>7, <1>8, <1>9, <1>10,
            <1>11, <1>12, <1>13 DEF ServerNext, EngineStep, ListenerStep

-----------------------------------------------------------------------------
ageVars == <<prefill_idx, is_prefill_done, is_finished, generated_tokens>>
batchVars == <<ageVars, closes, running_batch, decode_reqs, prefill_chunk,
               active_prefill_req>>

(* The batch is empty at first.                                            *)
LEMMA BatchInit == ServerInit => BatchInv
<1>. SUFFICES ASSUME ServerInit PROVE BatchInv
  OBVIOUS
<1>. USE SchedulerAssumption DEF ServerInit
<1>1. /\ running_batch = <<>> /\ decode_reqs = <<>> /\ Len(<<>>) = 0
      /\ <<>> \in Seq(Seqs) /\ <<>> \in Seq({}) /\ phase = "drain"
  OBVIOUS
<1>2. RequestInv
  BY <1>1 DEF RequestInv
<1>3. ListsInv
  BY <1>1 DEF ListsInv, Settled
<1>4. SettledInv /\ AdmitInv /\ StepInv
  BY <1>1 DEF SettledInv, AdmitInv, StepInv, Sampling, Decoding, Aged, Going
<1>. QED BY <1>2, <1>3, <1>4 DEF BatchInv

\* Ages depend on the requests and on the batch alone.
LEMMA AgesUnchanged ==
    UNCHANGED <<ageVars, running_batch>> =>
        /\ Age' = Age
        /\ \A k : Aged(k)' = Aged(k) /\ Going(k)' = Going(k)
        /\ Unfinished' = Unfinished
BY DEF Age, Aged, Going, Unfinished, ageVars

(* An age is a number.                                                     *)
LEMMA AgeType == RequestInv => Age \in [Seqs -> Int]
<1>. SUFFICES ASSUME RequestInv PROVE Age \in [Seqs -> Int]
  OBVIOUS
<1>1. \A r \in Seqs : Len(generated_tokens[r]) \in Nat
  BY DEF RequestInv
<1>. QED BY <1>1 DEF Age

(* Nothing of the batch changes, or only the phase within its group.       *)
LEMMA BatchUnchanged ==
    ASSUME BatchInv, UNCHANGED batchVars,
           \/ phase' = phase
           \/ phase \in Sampling /\ phase' \in Sampling
           \/ phase \in Decoding /\ phase' \in Decoding
           \/ phase \in Settled /\ phase' \in Settled \ {"reply"}
    PROVE  BatchInv'
<1>1. UNCHANGED <<ageVars, running_batch>>
  BY DEF batchVars
<1>2. RequestInv'
  BY DEF BatchInv, RequestInv, batchVars, ageVars
<1>3. ListsInv'
  BY DEF BatchInv, ListsInv, batchVars, ageVars
<1>4. SettledInv'
  BY <1>1, AgesUnchanged
     DEF BatchInv, SettledInv, batchVars, Settled, Sampling, Decoding
<1>5. AdmitInv'
  BY <1>1, AgesUnchanged
     DEF BatchInv, AdmitInv, batchVars, Settled, Sampling, Decoding
<1>6. StepInv'
  <2>. SUFFICES ASSUME phase' \in Sampling \cup Decoding PROVE StepInv'
    BY DEF StepInv
  <2>1. /\ phase \in Sampling \cup Decoding
        /\ phase' \in Sampling <=> phase \in Sampling
        /\ phase' \in Decoding <=> phase \in Decoding
    BY DEF Settled, Sampling, Decoding
  <2>2. Newest' = Newest
    BY DEF Newest, batchVars
  <2>3. UNCHANGED <<running_batch, decode_reqs, prefill_chunk,
                    active_prefill_req, prefill_idx, is_prefill_done,
                    generated_tokens>>
    BY DEF batchVars, ageVars
  <2>. HIDE DEF Settled, Sampling, Decoding
  <2>. QED BY <1>1, <2>1, <2>2, <2>3, AgesUnchanged DEF BatchInv, StepInv
<1>. QED BY <1>2, <1>3, <1>4, <1>5, <1>6 DEF BatchInv

(* A finished request leaves: those behind it move up and owe one less.    *)
LEMMA ReapBatch == BatchInv /\ Reap => BatchInv'
<1>. SUFFICES ASSUME BatchInv, Reap PROVE BatchInv'
  OBVIOUS
<1>1. PICK x \in DOMAIN running_batch : running_batch' = RemoveAt(running_batch, x)
  BY DEF Reap
<1>2. /\ phase = "reap"
      /\ UNCHANGED <<phase, decode_reqs, prefill_idx, is_prefill_done,
                     is_finished, generated_tokens, closes>>
  BY DEF Reap, stepVars, requestVars, clientVars, decodeVars
<1>3. running_batch \in Seq(Seqs) /\ x \in 1 .. Len(running_batch)
  BY <1>1 DEF BatchInv, ListsInv
<1>4. /\ running_batch' \in Seq(Seqs)
      /\ Len(running_batch') = Len(running_batch) - 1
      /\ \A i \in 1 .. Len(running_batch') :
             running_batch'[i] = IF i < x THEN running_batch[i]
                                          ELSE running_batch[i + 1]
  BY <1>1, <1>3, RemoveShift
<1>5. \A i \in 1 .. Len(running_batch') :
          \E j \in 1 .. Len(running_batch) :
              /\ running_batch'[i] = running_batch[j]
              /\ j <= i + 1
  BY <1>3, <1>4
<1>6. RequestInv'
  BY <1>2 DEF BatchInv, RequestInv
<1>7. ListsInv'
  <2>1. \A i \in 1 .. Len(running_batch') : is_prefill_done'[running_batch'[i]]
    BY <1>2, <1>5 DEF BatchInv, ListsInv
  <2>2. Len(running_batch') <= MaxGenerated + 1
    BY <1>3, <1>4, SchedulerAssumption DEF BatchInv, ListsInv
  <2>. QED BY <1>2, <1>4, <2>1, <2>2 DEF BatchInv, ListsInv
<1>8. Age' = Age
  BY <1>2 DEF Age
<1>9. Aged(Len(running_batch)) /\ Going(Len(running_batch))
  BY <1>2 DEF BatchInv, SettledInv, Settled
<1>10. Aged(Len(running_batch))'
  <2>. SUFFICES ASSUME NEW i \in 1 .. Len(running_batch')
                PROVE  Age'[running_batch'[i]] >= Len(running_batch') - i
    BY DEF Aged
  <2>1. PICK j \in 1 .. Len(running_batch) :
            running_batch'[i] = running_batch[j] /\ j <= i + 1
    BY <1>5
  <2>2. Age[running_batch[j]] >= Len(running_batch) - j
    BY <1>9 DEF Aged
  <2>3. Age[running_batch[j]] \in Int
    BY <1>3, AgeType DEF BatchInv
  <2>. QED BY <1>3, <1>4, <1>8, <2>1, <2>2, <2>3
<1>11. Going(Len(running_batch))'
  BY <1>2, <1>5, <1>9 DEF Going
<1>. QED BY <1>2, <1>6, <1>7, <1>10, <1>11
         DEF BatchInv, SettledInv, AdmitInv, StepInv, Settled, Sampling, Decoding

(* No finished request is left: all are collected, at most MaxGenerated.   *)
LEMMA CollectBatch == BatchInv /\ CollectDecodes => BatchInv'
<1>. SUFFICES ASSUME BatchInv, CollectDecodes PROVE BatchInv'
  OBVIOUS
<1>1. /\ phase = "reap" /\ phase' = "admit"
      /\ decode_reqs' = DecodeBatch
      /\ UNCHANGED <<running_batch, prefill_idx, is_prefill_done, is_finished,
                     generated_tokens, closes>>
  BY DEF CollectDecodes, requestVars, clientVars
<1>2. Unfinished
  BY DEF CollectDecodes, Unfinished, BatchInv, ListsInv
<1>3. /\ running_batch \in Seq(Seqs) /\ Len(running_batch) \in Nat
      /\ Aged(Len(running_batch)) /\ Going(Len(running_batch))
  BY <1>1 DEF BatchInv, ListsInv, SettledInv, Settled
<1>4. decode_reqs' = running_batch
  BY <1>1, <1>3, CollectsAll DEF BatchInv, ListsInv
<1>5. Len(running_batch) <= MaxGenerated
  <2>1. CASE Len(running_batch) = 0
    BY <2>1, SchedulerAssumption
  <2>2. CASE Len(running_batch) # 0
    <3>1. 1 \in 1 .. Len(running_batch) /\ running_batch[1] \in Seqs
      BY <1>3, <2>2
    <3>2. /\ Age[running_batch[1]] >= Len(running_batch) - 1
          /\ Len(generated_tokens[running_batch[1]]) < MaxGenerated
      BY <1>2, <1>3, <3>1 DEF Aged, Going, Unfinished
    <3>3. /\ Len(generated_tokens[running_batch[1]]) \in Nat
          /\ Age[running_batch[1]] <= Len(generated_tokens[running_batch[1]])
      BY <3>1 DEF Age, BatchInv, RequestInv
    <3>4. Age[running_batch[1]] \in Int
      BY <3>1, AgeType DEF BatchInv
    <3>. QED BY <1>3, <3>2, <3>3, <3>4, SchedulerAssumption
  <2>. QED BY <2>1, <2>2
<1>6. RequestInv'
  BY <1>1 DEF BatchInv, RequestInv
<1>7. ListsInv'
  BY <1>1, <1>3, <1>4, <1>5 DEF BatchInv, ListsInv
<1>8. AdmitInv'
  <2>1. UNCHANGED <<ageVars, running_batch>>
    BY <1>1 DEF ageVars
  <2>. QED BY <1>1, <1>2, <1>3, <1>4, <2>1, AgesUnchanged DEF AdmitInv
<1>. QED BY <1>1, <1>6, <1>7, <1>8
         DEF BatchInv, SettledInv, StepInv, Settled, Sampling, Decoding

(* A prefix hit concerns a request that is not in the batch.               *)
LEMMA HitBatch == OrderInv /\ BatchInv /\ AdmitHit => BatchInv'
<1>. SUFFICES ASSUME OrderInv, BatchInv, AdmitHit PROVE BatchInv'
  OBVIOUS
<1>1. /\ waiting_queue # <<>> /\ phase = "admit"
      /\ prefill_idx' = [prefill_idx EXCEPT ![NextInLine] = @ + BlockSize]
      /\ UNCHANGED <<phase, running_batch, decode_reqs, is_prefill_done,
                     is_finished, generated_tokens, closes>>
  BY DEF AdmitHit, Admitting, Advance, stepVars, decodeVars, clientVars
<1>2. NextInLine \in Seqs /\ ~is_prefill_done[NextInLine]
  BY <1>1, NextInLineIs
<1>3. /\ running_batch \in Seq(Seqs)
      /\ \A i \in 1 .. Len(running_batch) : running_batch[i] # NextInLine
  BY <1>2 DEF BatchInv, ListsInv
<1>4. \A i \in 1 .. Len(running_batch) : Age'[running_batch[i]] = Age[running_batch[i]]
  <2>1. prefill_idx \in [Seqs -> Nat]
    BY DEF OrderInv, PrefillInv
  <2>. QED BY <1>1, <1>3, <2>1 DEF Age
<1>5. RequestInv'
  BY <1>1 DEF BatchInv, RequestInv
<1>6. ListsInv'
  BY <1>1 DEF BatchInv, ListsInv
<1>7. AdmitInv'
  BY <1>1, <1>4 DEF BatchInv, AdmitInv, Aged, Going, Unfinished
<1>. QED BY <1>1, <1>5, <1>6, <1>7
         DEF BatchInv, SettledInv, StepInv, Settled, Sampling, Decoding

(* Nothing is admitted: the step has its decodes alone.                    *)
LEMMA NoneBatch == BatchInv /\ AdmitNone => BatchInv'
<1>. SUFFICES ASSUME BatchInv, AdmitNone PROVE BatchInv'
  OBVIOUS
<1>1. /\ phase = "admit" /\ phase' = "prefill"
      /\ prefill_chunk' = <<>> /\ active_prefill_req' = {}
      /\ UNCHANGED <<running_batch, decode_reqs, prefill_idx, is_prefill_done,
                     is_finished, generated_tokens, closes>>
  BY DEF AdmitNone, decodeVars, requestVars, clientVars
<1>2. UNCHANGED <<ageVars, running_batch>>
  BY <1>1 DEF ageVars
<1>3. RequestInv'
  BY <1>1 DEF BatchInv, RequestInv
<1>4. ListsInv'
  BY <1>1 DEF BatchInv, ListsInv, Sampling
<1>5. /\ decode_reqs = running_batch /\ Len(running_batch) \in Nat
      /\ Len(decode_reqs) <= MaxGenerated
      /\ Aged(Len(running_batch)) /\ Going(Len(running_batch)) /\ Unfinished
  BY <1>1 DEF BatchInv, AdmitInv, ListsInv
<1>6. StepInv'
  <2>1. Len(decode_reqs') + Len(prefill_chunk')
            <= IF max_tokens_per_batch > MaxGenerated
               THEN max_tokens_per_batch ELSE MaxGenerated
    <3>1. Len(<<>>) = 0
      OBVIOUS
    <3>. QED BY <1>1, <1>5, <3>1, SchedulerAssumption
  <2>2. Len(running_batch) # Len(decode_reqs) + 1
    BY <1>5
  <2>. QED BY <1>1, <1>2, <1>5, <2>1, <2>2, AgesUnchanged DEF StepInv
<1>. QED BY <1>1, <1>3, <1>4, <1>6
         DEF BatchInv, SettledInv, AdmitInv, Settled, Sampling, Decoding

(* The chunk of the next in line, which joins the batch if it is the last. *)
LEMMA ChunkBatch == OrderInv /\ BatchInv /\ AdmitChunk => BatchInv'
<1>. SUFFICES ASSUME OrderInv, BatchInv, AdmitChunk PROVE BatchInv'
  OBVIOUS
<1>. DEFINE r == NextInLine
            remaining == Len(Prompt[r]) - prefill_idx[r]
            n == Len(running_batch)
<1>1. /\ Admitting /\ phase = "admit" /\ phase' = "prefill"
      /\ prefill_chunk' = SubSeq(Prompt[r], prefill_idx[r] + 1,
                                 prefill_idx[r] + ChunkOf(r))
      /\ active_prefill_req' = IF ChunkOf(r) > 0 THEN {r} ELSE {}
      /\ UNCHANGED <<decode_reqs, is_finished, generated_tokens, closes>>
      /\ IF ChunkOf(r) = remaining
         THEN /\ is_prefill_done' = [is_prefill_done EXCEPT ![r] = TRUE]
              /\ running_batch' = Append(running_batch, r)
              /\ prefill_idx' = prefill_idx
         ELSE /\ prefill_idx' = [prefill_idx EXCEPT ![r] = @ + ChunkOf(r)]
              /\ UNCHANGED <<is_prefill_done, running_batch>>
  BY DEF AdmitChunk, Admitting, ChunkOf, Promote, Advance, decodeVars, clientVars
<1>2. /\ r \in Seqs /\ ~is_prefill_done[r] /\ waiting_queue # <<>>
  BY <1>1, NextInLineIs DEF Admitting
<1>3. /\ Len(Prompt[r]) \in Nat /\ prefill_idx[r] \in Nat /\ ChunkOf(r) \in Nat
      /\ token_budget \in Nat
      /\ token_budget = max_tokens_per_batch - Len(decode_reqs)
      /\ prefill_idx[r] + ChunkOf(r) <= Len(Prompt[r])
      /\ ChunkOf(r) <= token_budget
      /\ ChunkOf(r) = 0 <=> prefill_idx[r] = Len(Prompt[r])
  <2>. HIDE DEF r
  <2>. QED BY <1>1, ChunkFits DEF BatchInv, r
<1>4. Len(prefill_chunk') = ChunkOf(r)
  <2>. HIDE DEF r
  <2>1. Prompt[r] \in Seq(Tokens)
    BY <1>2, SchedulerAssumption
  <2>2. ASSUME NEW p \in Seq(Tokens), NEW k \in Nat, NEW c \in Nat, k + c <= Len(p)
        PROVE  Len(SubSeq(p, k + 1, k + c)) = c
    BY <2>2
  <2>3. Len(SubSeq(Prompt[r], prefill_idx[r] + 1, prefill_idx[r] + ChunkOf(r)))
            = ChunkOf(r)
    BY <1>3, <2>1, <2>2
  <2>. QED BY <1>1, <2>3
<1>5. /\ running_batch \in Seq(Seqs) /\ n \in Nat
      /\ decode_reqs = running_batch /\ n <= MaxGenerated
      /\ Aged(n) /\ Going(n) /\ Unfinished
      /\ \A i \in 1 .. n : is_prefill_done[running_batch[i]] /\ running_batch[i] # r
  BY <1>1, <1>2 DEF BatchInv, AdmitInv, ListsInv
<1>6. /\ prefill_idx \in [Seqs -> Nat] /\ is_prefill_done \in [Seqs -> BOOLEAN]
  BY DEF OrderInv, PrefillInv
<1>. HIDE DEF r, n
<1>7. RequestInv'
  <2>1. \A s \in Seqs : ~is_prefill_done'[s] => ~is_prefill_done[s]
    BY <1>1, <1>6
  <2>. QED BY <1>1, <2>1 DEF BatchInv, RequestInv
<1>8. /\ running_batch' \in Seq(Seqs) /\ Len(running_batch') \in {n, n + 1}
      /\ \A i \in 1 .. n : running_batch'[i] = running_batch[i]
      /\ ChunkOf(r) = remaining =>
             Len(running_batch') = n + 1 /\ running_batch'[n + 1] = r
      /\ ChunkOf(r) # remaining => Len(running_batch') = n
  <2>1. /\ Append(running_batch, r) \in Seq(Seqs)
        /\ Len(Append(running_batch, r)) = n + 1
        /\ Append(running_batch, r)[n + 1] = r
        /\ \A i \in 1 .. n : Append(running_batch, r)[i] = running_batch[i]
    BY <1>2, <1>5 DEF n
  <2>2. CASE ChunkOf(r) = remaining
    BY <1>1, <2>1, <2>2
  <2>3. CASE ChunkOf(r) # remaining
    BY <1>1, <1>5, <2>3 DEF n
  <2>. QED BY <2>2, <2>3
<1>9. \A i \in 1 .. n : Age'[running_batch'[i]] = Age[running_batch[i]]
  <2>. TAKE i \in 1 .. n
  <2>1. running_batch[i] \in Seqs /\ running_batch[i] # r
    BY <1>5 DEF n
  <2>2. prefill_idx'[running_batch[i]] = prefill_idx[running_batch[i]]
    BY <1>1, <1>6, <2>1
  <2>. QED BY <1>1, <1>8, <2>1, <2>2 DEF Age
<1>10. \A i \in 1 .. n : is_prefill_done'[running_batch'[i]]
  <2>. TAKE i \in 1 .. n
  <2>1. running_batch[i] \in Seqs /\ is_prefill_done[running_batch[i]]
    BY <1>5 DEF n
  <2>. QED BY <1>1, <1>6, <1>8, <2>1
<1>11. ChunkOf(r) = remaining => is_prefill_done'[r]
  BY <1>1, <1>2, <1>6
<1>12. ListsInv'
  <2>1. \A i \in 1 .. Len(running_batch') : i \in 1 .. n \/ i = n + 1
    BY <1>5, <1>8
  <2>2. \A i \in 1 .. Len(running_batch') : is_prefill_done'[running_batch'[i]]
    <3>. TAKE i \in 1 .. Len(running_batch')
    <3>1. CASE i \in 1 .. n
      BY <1>10, <3>1
    <3>2. CASE i = n + 1
      <4>1. ChunkOf(r) = remaining
        BY <1>5, <1>8, <3>2
      <4>. QED BY <1>8, <1>11, <3>2, <4>1
    <3>. QED BY <2>1, <3>1, <3>2
  <2>3. Len(running_batch') <= MaxGenerated + 1
    BY <1>5, <1>8, SchedulerAssumption
  <2>. QED BY <1>1, <1>8, <2>2, <2>3 DEF BatchInv, ListsInv, Sampling
<1>13. Unfinished'
  <2>. SUFFICES ASSUME NEW i \in 1 .. Len(running_batch')
                PROVE  ~is_finished[running_batch'[i]]
    BY <1>1 DEF Unfinished
  <2>1. CASE i \in 1 .. n
    BY <1>5, <1>8, <2>1 DEF Unfinished, n
  <2>2. CASE i = n + 1
    <3>1. running_batch'[i] = r
      BY <1>5, <1>8, <2>2
    <3>. QED BY <1>2, <3>1 DEF BatchInv, RequestInv
  <2>. QED BY <1>5, <1>8, <2>1, <2>2
<1>14. Aged(Len(decode_reqs))' /\ Going(Len(decode_reqs))'
  <2>1. Len(decode_reqs) = n
    BY <1>5 DEF n
  <2>2. \A i \in 1 .. n : Age'[running_batch'[i]] >= n - i
    BY <1>5, <1>9 DEF Aged
  <2>3. \A i \in 1 .. n : ~is_finished'[running_batch'[i]] =>
                              Len(generated_tokens'[running_batch'[i]]) < MaxGenerated
    BY <1>1, <1>5, <1>8 DEF Going
  <2>. QED BY <1>1, <2>1, <2>2, <2>3 DEF Aged, Going
<1>15. Len(running_batch') = n + 1 =>
           /\ ChunkOf(r) = remaining /\ Newest' = r /\ r \notin ToSet(decode_reqs)
           /\ prefill_idx' = prefill_idx
  <2>1. r \notin ToSet(decode_reqs)
    BY <1>5 DEF ToSet, n
  <2>2. n # n + 1
    BY <1>5
  <2>. QED BY <1>1, <1>8, <2>1, <2>2 DEF Newest
<1>16. StepInv'
  <2>1. Len(decode_reqs') = n /\ decode_reqs' = running_batch
    BY <1>1, <1>5 DEF n
  <2>2. Len(decode_reqs') + Len(prefill_chunk')
            <= IF max_tokens_per_batch > MaxGenerated
               THEN max_tokens_per_batch ELSE MaxGenerated
    <3>1. max_tokens_per_batch \in Nat /\ MaxGenerated \in Nat
      BY SchedulerAssumption
    <3>2. n \in Nat /\ Len(decode_reqs') = n /\ Len(decode_reqs) = n
      BY <1>1, <1>5, <2>1
    <3>3. n + ChunkOf(r) <= max_tokens_per_batch
      BY <1>3, <3>1, <3>2
    <3>. QED BY <1>4, <3>1, <3>2, <3>3
  <2>3. phase' \in Sampling /\ phase' \notin Decoding
    BY <1>1 DEF Sampling, Decoding
  <2>4. ASSUME Len(running_batch') = n + 1
        PROVE  /\ Newest' \notin ToSet(decode_reqs')
               /\ generated_tokens'[Newest'] = <<>>
               /\ Newest' \in active_prefill_req'
                      <=> prefill_idx'[Newest'] # Len(Prompt[Newest'])
    <3>1. generated_tokens[r] = <<>>
      BY <1>2 DEF BatchInv, RequestInv
    <3>2. Newest' = r /\ prefill_idx' = prefill_idx
      BY <1>15, <2>4
    <3>3. r \in active_prefill_req' <=> prefill_idx[r] # Len(Prompt[r])
      BY <1>1, <1>3
    <3>. QED BY <1>1, <1>15, <2>4, <3>1, <3>2, <3>3
  <2>5. ASSUME NEW x \in active_prefill_req', is_prefill_done'[x]
        PROVE  Len(running_batch') = n + 1 /\ x = Newest'
    <3>1. x = r
      BY <1>1, <2>5
    <3>2. ChunkOf(r) = remaining
      BY <1>1, <1>2, <2>5, <3>1
    <3>. QED BY <1>8, <1>15, <3>1, <3>2
  <2>6. \A i \in 1 .. n : decode_reqs'[i] = running_batch'[i]
    BY <1>8, <2>1
  <2>. HIDE DEF Sampling, Decoding
  <2>. QED BY <1>8, <1>13, <1>14, <2>1, <2>2, <2>3, <2>4, <2>5, <2>6 DEF StepInv
<1>. QED BY <1>1, <1>7, <1>12, <1>16
         DEF BatchInv, SettledInv, AdmitInv, Settled, Sampling, Decoding

(* What Generate does to the lengths, whatever the model answers.          *)
LEMMA GenerateLens ==
    ASSUME RequestInv, NEW R, Generate(R)
    PROVE  /\ \E S : generated_tokens' \in [Seqs -> Seq(S)]
           /\ \A r \in Seqs : r \in R =>
                  Len(generated_tokens'[r]) = Len(generated_tokens[r]) + 1
           /\ \A r \in Seqs \ R : generated_tokens'[r] = generated_tokens[r]
           /\ \A r \in Seqs : Len(generated_tokens[r]) \in Nat
<1>1. PICK S : generated_tokens \in [Seqs -> Seq(S)]
  BY DEF RequestInv
<1>. DEFINE next(r) == argmax(TextRead(r))
            T == S \cup {next(r) : r \in Seqs}
<1>2. generated_tokens' = [r \in Seqs |-> IF r \in R
                                           THEN Append(generated_tokens[r], next(r))
                                           ELSE generated_tokens[r]]
  BY DEF Generate
<1>3. \A r \in Seqs : generated_tokens[r] \in Seq(T) /\ next(r) \in T
  <2>1. S \subseteq T /\ \A r \in Seqs : next(r) \in T
    OBVIOUS
  <2>. HIDE DEF next, T
  <2>. QED BY <1>1, <2>1, SeqMonotonic
<1>. HIDE DEF next, T
<1>4. \A r \in Seqs : /\ Append(generated_tokens[r], next(r)) \in Seq(T)
                     /\ Len(Append(generated_tokens[r], next(r)))
                            = Len(generated_tokens[r]) + 1
                     /\ Len(generated_tokens[r]) \in Nat
  BY <1>3
<1>5. generated_tokens' \in [Seqs -> Seq(T)]
  BY <1>2, <1>3, <1>4
<1>6. ASSUME NEW r \in Seqs
      PROVE  /\ r \in R =>
                    Len(generated_tokens'[r]) = Len(generated_tokens[r]) + 1
             /\ r \notin R => generated_tokens'[r] = generated_tokens[r]
             /\ Len(generated_tokens[r]) \in Nat
  <2>1. CASE r \in R
    <3>1. generated_tokens'[r] = Append(generated_tokens[r], next(r))
      BY <1>2, <2>1
    <3>. QED BY <1>4, <2>1, <3>1
  <2>2. CASE r \notin R
    <3>1. generated_tokens'[r] = generated_tokens[r]
      BY <1>2, <2>2
    <3>. QED BY <1>4, <2>2, <3>1
  <2>. QED BY <2>1, <2>2
<1>7. \E U : generated_tokens' \in [Seqs -> Seq(U)]
  BY <1>5
<1>. QED BY <1>6, <1>7

(* The new request has its first token, unless it was cached as a whole.   *)
LEMMA FirstBatch == BatchInv /\ SampleFirst => BatchInv'
<1>. SUFFICES ASSUME BatchInv, SampleFirst PROVE BatchInv'
  OBVIOUS
<1>. DEFINE R == {r \in active_prefill_req : is_prefill_done[r]}
            m == Len(decode_reqs)
            n == Len(running_batch)
<1>1. /\ phase \in Sampling /\ phase' = "decode" /\ Generate(R)
      /\ UNCHANGED <<running_batch, decode_reqs, prefill_chunk, prefill_idx,
                     is_prefill_done, is_finished, closes>>
  BY DEF SampleFirst, stepVars, decodeVars, clientVars, Sampling
<1>2. /\ \E S : generated_tokens' \in [Seqs -> Seq(S)]
      /\ \A r \in Seqs : r \in R =>
             Len(generated_tokens'[r]) = Len(generated_tokens[r]) + 1
      /\ \A r \in Seqs \ R : generated_tokens'[r] = generated_tokens[r]
      /\ \A r \in Seqs : Len(generated_tokens[r]) \in Nat
  BY <1>1, GenerateLens DEF BatchInv
<1>3. /\ running_batch \in Seq(Seqs) /\ decode_reqs \in Seq(Seqs)
      /\ m \in Nat /\ n \in Nat /\ n \in {m, m + 1}
      /\ \A i \in 1 .. m : decode_reqs[i] = running_batch[i]
      /\ Aged(m) /\ Going(m) /\ Unfinished
      /\ \A r \in R : n = m + 1 /\ r = Newest
  BY <1>1 DEF BatchInv, ListsInv, StepInv
<1>4. n = m + 1 =>
          /\ Newest \in Seqs /\ Newest \notin ToSet(decode_reqs)
          /\ is_prefill_done[Newest]
          /\ generated_tokens[Newest] = <<>>
          /\ Newest \in R <=> prefill_idx[Newest] # Len(Prompt[Newest])
  <2>. SUFFICES ASSUME n = m + 1
                PROVE  /\ Newest \in Seqs /\ Newest \notin ToSet(decode_reqs)
                       /\ is_prefill_done[Newest]
                       /\ generated_tokens[Newest] = <<>>
                       /\ Newest \in R <=> prefill_idx[Newest] # Len(Prompt[Newest])
    OBVIOUS
  <2>1. n \in 1 .. Len(running_batch)
    BY <1>3
  <2>2. Newest \in Seqs /\ is_prefill_done[Newest]
    BY <1>3, <2>1 DEF Newest, BatchInv, ListsInv
  <2>. QED BY <1>1, <2>2 DEF BatchInv, StepInv
<1>. HIDE DEF R, m, n
<1>5. \A i \in 1 .. m : running_batch[i] \in Seqs /\ running_batch[i] \notin R
  <2>1. \A i \in 1 .. m : running_batch[i] \in ToSet(decode_reqs)
    BY <1>3 DEF ToSet, m
  <2>2. \A i \in 1 .. m : running_batch[i] \in Seqs
    BY <1>3 DEF n
  <2>3. \A r \in R : r \notin ToSet(decode_reqs)
    <3>. TAKE r \in R
    <3>1. n = m + 1 /\ r = Newest
      BY <1>3
    <3>. QED BY <1>4, <3>1
  <2>. QED BY <2>1, <2>2, <2>3
<1>6. \A i \in 1 .. m : Age'[running_batch[i]] = Age[running_batch[i]]
  BY <1>1, <1>2, <1>5 DEF Age
<1>7. RequestInv'
  <2>1. \A r \in Seqs : r \in R => /\ is_prefill_done[r]
                                   /\ generated_tokens[r] = <<>>
    <3>. TAKE r \in Seqs
    <3>. HAVE r \in R
    <3>1. n = m + 1 /\ r = Newest
      BY <1>3
    <3>. QED BY <1>4, <3>1
  <2>2. Len(<<>>) = 0
    OBVIOUS
  <2>3. \A r \in Seqs : Len(generated_tokens'[r]) <= MaxGenerated
    <3>. TAKE r \in Seqs
    <3>1. Len(generated_tokens[r]) <= MaxGenerated
      BY DEF BatchInv, RequestInv
    <3>2. CASE r \in R
      <4>1. Len(generated_tokens'[r]) = Len(generated_tokens[r]) + 1
        BY <1>2, <3>2
      <4>2. Len(generated_tokens[r]) = 0
        BY <2>1, <2>2, <3>2
      <4>. QED BY <4>1, <4>2, SchedulerAssumption
    <3>3. CASE r \notin R
      BY <1>2, <3>1, <3>3
    <3>. QED BY <3>2, <3>3
  <2>4. \A r \in Seqs : ~is_prefill_done[r] => generated_tokens'[r] = <<>>
    BY <1>2, <2>1 DEF BatchInv, RequestInv
  <2>. QED BY <1>1, <1>2, <2>3, <2>4 DEF BatchInv, RequestInv
<1>8. ListsInv'
  BY <1>1 DEF BatchInv, ListsInv, Decoding
<1>9. Aged(Len(decode_reqs))' /\ Going(Len(decode_reqs))' /\ Unfinished'
  <2>1. Len(decode_reqs') = m
    BY <1>1 DEF m
  <2>2. \A i \in 1 .. m : Age'[running_batch[i]] >= m - i
    BY <1>3, <1>6 DEF Aged
  <2>3. \A i \in 1 .. m : generated_tokens'[running_batch[i]]
                               = generated_tokens[running_batch[i]]
    BY <1>2, <1>5
  <2>4. Aged(Len(decode_reqs))'
    BY <1>1, <2>1, <2>2 DEF Aged
  <2>5. Going(Len(decode_reqs))'
    BY <1>1, <1>3, <2>1, <2>3 DEF Going
  <2>. QED BY <1>1, <1>3, <2>4, <2>5 DEF Unfinished
<1>10. n = m + 1 => Age'[Newest] = 0
  <2>1. Len(<<>>) = 0
    OBVIOUS
  <2>. SUFFICES ASSUME n = m + 1 PROVE Age'[Newest] = 0
    OBVIOUS
  <2>0. /\ Newest \in Seqs /\ generated_tokens[Newest] = <<>>
        /\ Newest \in R <=> prefill_idx[Newest] # Len(Prompt[Newest])
    BY <1>4
  <2>2. Age'[Newest] = IF prefill_idx[Newest] = Len(Prompt[Newest])
                       THEN Len(generated_tokens'[Newest])
                       ELSE Len(generated_tokens'[Newest]) - 1
    BY <1>1, <2>0 DEF Age
  <2>3. Len(generated_tokens'[Newest]) = IF Newest \in R THEN 1 ELSE 0
    <3>1. Len(generated_tokens[Newest]) = 0
      BY <2>0, <2>1
    <3>2. CASE Newest \in R
      <4>1. Len(generated_tokens'[Newest]) = Len(generated_tokens[Newest]) + 1
        BY <1>2, <2>0, <3>2
      <4>2. Len(generated_tokens'[Newest]) = 1
        BY <3>1, <4>1
      <4>. QED BY <3>2, <4>2
    <3>3. CASE Newest \notin R
      BY <1>2, <2>0, <3>1, <3>3
    <3>. QED BY <3>2, <3>3
  <2>. QED BY <2>0, <2>2, <2>3
<1>11. Newest' = Newest
  BY <1>1 DEF Newest
<1>12. StepInv'
  <2>1. phase \in Sampling \cup Decoding /\ phase' \in Decoding /\ phase' \notin Sampling
    BY <1>1 DEF Sampling, Decoding
  <2>. HIDE DEF Sampling, Decoding
  <2>. QED BY <1>1, <1>3, <1>4, <1>9, <1>10, <1>11, <2>1 DEF BatchInv, StepInv, m, n
<1>. QED BY <1>1, <1>7, <1>8, <1>12
         DEF BatchInv, SettledInv, AdmitInv, Settled

(* The connection of a request that goes on is open.                       *)
LEMMA Closings ==
    ASSUME RequestInv, NEW r \in Seqs, ~is_finished[r]
    PROVE  closes[r] = 0
<1>1. closes[r] \in Nat /\ closes[r] <= 1
  BY DEF RequestInv
<1>2. closes[r] # 1
  BY DEF RequestInv
<1>. QED BY <1>1, <1>2

(* Every decoded request is one token older; the new one is not decoded.   *)
LEMMA AllBatch == BatchInv /\ SampleAll => BatchInv'
<1>. SUFFICES ASSUME BatchInv, SampleAll PROVE BatchInv'
  OBVIOUS
<1>. DEFINE R == ToSet(decode_reqs)
            m == Len(decode_reqs)
            n == Len(running_batch)
<1>1. /\ phase \in Decoding /\ phase' = "reply" /\ Generate(R)
      /\ is_finished' = [r \in Seqs |-> \/ is_finished[r]
                                        \/ r \in R /\ IsLast(Len(generated_tokens'[r]))]
      /\ UNCHANGED <<running_batch, decode_reqs, prefill_idx, is_prefill_done,
                     closes>>
  BY DEF SampleAll, stepVars, decodeVars, clientVars, Decoding
<1>2. /\ \E S : generated_tokens' \in [Seqs -> Seq(S)]
      /\ \A r \in Seqs : r \in R =>
             Len(generated_tokens'[r]) = Len(generated_tokens[r]) + 1
      /\ \A r \in Seqs \ R : generated_tokens'[r] = generated_tokens[r]
      /\ \A r \in Seqs : Len(generated_tokens[r]) \in Nat
  BY <1>1, GenerateLens DEF BatchInv
<1>3. /\ running_batch \in Seq(Seqs) /\ decode_reqs \in Seq(Seqs)
      /\ m \in Nat /\ n \in Nat /\ n \in {m, m + 1}
      /\ \A i \in 1 .. m : decode_reqs[i] = running_batch[i]
      /\ Aged(m) /\ Going(m) /\ Unfinished
      /\ \A i \in 1 .. n : is_prefill_done[running_batch[i]]
      /\ n = m + 1 => Newest \notin R /\ Age[Newest] = 0
  BY <1>1 DEF BatchInv, ListsInv, StepInv, Sampling, Decoding
<1>4. \A r \in R : \E i \in 1 .. m : i \in 1 .. n /\ r = running_batch[i]
  BY <1>3 DEF ToSet
<1>5. \A i \in 1 .. m : running_batch[i] \in Seqs /\ running_batch[i] \in R
  BY <1>3 DEF ToSet
<1>. HIDE DEF R, m, n
<1>6. \A r \in R : /\ r \in Seqs /\ is_prefill_done[r]
                   /\ Len(generated_tokens[r]) < MaxGenerated
  <2>. TAKE r \in R
  <2>1. PICK i \in 1 .. m : i \in 1 .. n /\ r = running_batch[i]
    BY <1>4
  <2>2. ~is_finished[r] /\ Len(generated_tokens[r]) < MaxGenerated
    BY <1>3, <2>1 DEF Unfinished, Going, n
  <2>. QED BY <1>3, <1>5, <2>1, <2>2
<1>7. \A r \in Seqs :
          /\ Age[r] \in Int
          /\ r \in R => Age'[r] = Age[r] + 1
          /\ r \notin R => Age'[r] = Age[r]
  <2>1. \A r \in Seqs : Age[r] \in Int
    BY AgeType DEF BatchInv
  <2>2. ASSUME NEW r \in Seqs, r \in R PROVE Age'[r] = Age[r] + 1
    <3>1. /\ Len(generated_tokens[r]) \in Nat
          /\ Len(generated_tokens'[r]) = Len(generated_tokens[r]) + 1
      BY <1>2, <2>2
    <3>2. /\ Age[r] = IF prefill_idx[r] = Len(Prompt[r])
                      THEN Len(generated_tokens[r]) ELSE Len(generated_tokens[r]) - 1
          /\ Age'[r] = IF prefill_idx[r] = Len(Prompt[r])
                       THEN Len(generated_tokens'[r])
                       ELSE Len(generated_tokens'[r]) - 1
      BY <1>1 DEF Age
    <3>. QED BY <3>1, <3>2
  <2>3. ASSUME NEW r \in Seqs, r \notin R PROVE Age'[r] = Age[r]
    BY <1>1, <1>2, <2>3 DEF Age
  <2>. QED BY <2>1, <2>2, <2>3
<1>8. RequestInv'
  <2>1. \A r \in Seqs : Len(generated_tokens'[r]) <= MaxGenerated
    <3>. TAKE r \in Seqs
    <3>1. Len(generated_tokens[r]) <= MaxGenerated
      BY DEF BatchInv, RequestInv
    <3>2. CASE r \in R
      BY <1>2, <1>6, <3>2, SchedulerAssumption
    <3>3. CASE r \notin R
      BY <1>2, <3>1, <3>3
    <3>. QED BY <3>2, <3>3
  <2>2. \A r \in Seqs : ~is_prefill_done[r] =>
                            generated_tokens'[r] = <<>> /\ ~is_finished'[r]
    BY <1>1, <1>2, <1>6 DEF BatchInv, RequestInv
  <2>3. is_finished' \in [Seqs -> BOOLEAN]
    BY <1>1
  <2>4. \A r \in Seqs : closes[r] = 1 => is_finished'[r]
    BY <1>1 DEF BatchInv, RequestInv
  <2>. QED BY <1>1, <1>2, <2>1, <2>2, <2>3, <2>4 DEF BatchInv, RequestInv
<1>9. ListsInv'
  BY <1>1 DEF BatchInv, ListsInv, Settled
<1>10. n = m + 1 => Newest = running_batch[n] /\ Newest \in Seqs
  BY <1>3 DEF Newest, n
<1>11. ASSUME NEW i \in 1 .. n
       PROVE  /\ Age'[running_batch[i]] >= n - i
              /\ ~is_finished'[running_batch[i]] =>
                     Len(generated_tokens'[running_batch[i]]) < MaxGenerated
              /\ closes[running_batch[i]] = 0
  <2>1. CASE i \in 1 .. m
    <3>1. running_batch[i] \in Seqs /\ running_batch[i] \in R
      BY <1>5, <2>1
    <3>2. Age[running_batch[i]] >= m - i
      BY <1>3, <2>1 DEF Aged
    <3>3. Age'[running_batch[i]] >= n - i
      <4>1. /\ Age[running_batch[i]] \in Int
            /\ Age'[running_batch[i]] = Age[running_batch[i]] + 1
        BY <1>7, <3>1
      <4>2. m \in Nat /\ n \in Nat /\ n <= m + 1 /\ i \in Nat
        BY <1>3
      <4>. QED BY <3>2, <4>1, <4>2
    <3>4. ~is_finished'[running_batch[i]] =>
              ~IsLast(Len(generated_tokens'[running_batch[i]]))
      BY <1>1, <3>1
    <3>5. Len(generated_tokens'[running_batch[i]]) \in Nat
      BY <1>2, <3>1
    <3>6. ~is_finished[running_batch[i]]
      BY <1>3 DEF Unfinished, n
    <3>7. closes[running_batch[i]] = 0
      BY <3>1, <3>6, Closings DEF BatchInv
    <3>. QED BY <3>3, <3>4, <3>5, <3>7, SchedulerAssumption DEF IsLast
  <2>2. CASE i = n /\ n = m + 1
    <3>1. running_batch[i] = Newest /\ Newest \in Seqs /\ Newest \notin R
      BY <1>3, <1>10, <2>2
    <3>2. Age[Newest] = 0
      BY <1>3, <2>2
    <3>3. Age'[Newest] >= n - i
      <4>1. Age'[Newest] = 0
        BY <1>7, <3>1, <3>2
      <4>. QED BY <1>3, <2>2, <4>1
    <3>4. Len(generated_tokens[Newest]) <= 1
      <4>1. Age[Newest] = IF prefill_idx[Newest] = Len(Prompt[Newest])
                          THEN Len(generated_tokens[Newest])
                          ELSE Len(generated_tokens[Newest]) - 1
        BY <3>1 DEF Age
      <4>2. Len(generated_tokens[Newest]) \in Nat
        BY <1>2, <3>1
      <4>. QED BY <3>2, <4>1, <4>2
    <3>5. generated_tokens'[Newest] = generated_tokens[Newest]
      BY <1>2, <3>1
    <3>6. ~is_finished[Newest]
      BY <1>3, <3>1 DEF Unfinished, n
    <3>7. closes[Newest] = 0
      BY <3>1, <3>6, Closings DEF BatchInv
    <3>. QED BY <1>2, <3>1, <3>3, <3>4, <3>5, <3>7, SchedulerAssumption
  <2>. QED BY <1>3, <2>1, <2>2
<1>12. SettledInv'
  <2>1. Aged(Len(running_batch))'
    BY <1>1, <1>11 DEF Aged, n
  <2>2. Going(Len(running_batch))'
    BY <1>1, <1>11 DEF Going, n
  <2>. QED BY <1>1, <1>11, <2>1, <2>2 DEF SettledInv, n
<1>. QED BY <1>1, <1>8, <1>9, <1>12
         DEF BatchInv, AdmitInv, StepInv, Sampling, Decoding

(* A finished request of the batch was not closed before.                  *)
LEMMA ReplyBatch == BatchInv /\ Reply => BatchInv'
<1>. SUFFICES ASSUME BatchInv, Reply PROVE BatchInv'
  OBVIOUS
<1>1. /\ phase = "reply" /\ phase' = "drain"
      /\ closes' = [r \in Seqs |->
                        IF r \in ToSet(running_batch) /\ is_finished[r]
                        THEN closes[r] + 1 ELSE closes[r]]
      /\ UNCHANGED <<running_batch, decode_reqs, ageVars>>
  BY DEF Reply, stepVars, decodeVars, requestVars, ageVars
<1>2. running_batch \in Seq(Seqs)
  BY DEF BatchInv, ListsInv
<1>3. \A r \in ToSet(running_batch) : closes[r] = 0
  BY <1>1, <1>2 DEF BatchInv, SettledInv, Settled, ToSet
<1>4. RequestInv'
  <2>1. \A r \in Seqs : /\ closes'[r] \in Nat /\ closes'[r] <= 1
                        /\ closes'[r] = 1 => is_finished[r]
    BY <1>1, <1>3 DEF BatchInv, RequestInv
  <2>. QED BY <1>1, <2>1 DEF BatchInv, RequestInv, ageVars
<1>5. ListsInv'
  BY <1>1 DEF BatchInv, ListsInv, Settled, ageVars
<1>6. SettledInv'
  BY <1>1, AgesUnchanged DEF BatchInv, SettledInv, Settled
<1>. QED BY <1>1, <1>4, <1>5, <1>6
         DEF BatchInv, AdmitInv, StepInv, Sampling, Decoding

(* Every step of the server keeps the ages of the batch apart.             *)
LEMMA BatchStep == OrderInv /\ BatchInv /\ [ServerNext]_serverVars => BatchInv'
<1>. SUFFICES ASSUME OrderInv, BatchInv, [ServerNext]_serverVars
              PROVE  BatchInv'
  OBVIOUS
<1>. USE DEF batchVars, ageVars, requestVars, clientVars, listenVars, stepVars,
             decodeVars
<1>1. CASE Drain
  <2>1. phase \in Settled /\ phase' \in Settled \ {"reply"}
    BY <1>1 DEF Drain, Settled
  <2>. QED BY <1>1, <2>1, BatchUnchanged DEF Drain
<1>2. CASE Reap
  BY <1>2, ReapBatch
<1>3. CASE CollectDecodes
  BY <1>3, CollectBatch
<1>4. CASE AdmitHit
  BY <1>4, HitBatch
<1>5. CASE AdmitChunk
  BY <1>5, ChunkBatch
<1>6. CASE AdmitNone
  BY <1>6, NoneBatch
<1>7. CASE Prefill
  <2>1. phase \in Sampling /\ phase' \in Sampling
    BY <1>7 DEF Prefill, Sampling
  <2>. QED BY <1>7, <2>1, BatchUnchanged DEF Prefill
<1>8. CASE SampleFirst
  BY <1>8, FirstBatch
<1>9. CASE Decode
  <2>1. phase \in Decoding /\ phase' \in Decoding
    BY <1>9 DEF Decode, Decoding
  <2>. QED BY <1>9, <2>1, BatchUnchanged DEF Decode
<1>10. CASE SampleAll
  BY <1>10, AllBatch
<1>11. CASE Reply
  BY <1>11, ReplyBatch
<1>12. CASE Call \/ UNCHANGED serverVars
  BY <1>12, BatchUnchanged DEF Call, serverVars, schedVars
<1>13. CASE \E r \in Seqs : Receive(r) \/ ReceiveFails(r)
  BY <1>13, BatchUnchanged DEF Receive, ReceiveFails
<1>. QED BY <1>1, <1>2, <1>3, <1>4, <1>5, <1>6, <1>7, <1>8, <1>9, <1>10,
            <1>11, <1>12, <1>13 DEF ServerNext, EngineStep, ListenerStep

-----------------------------------------------------------------------------
(* Order of arrival and size of the batch, as one inductive invariant.     *)
THEOREM ServerKeepsBatch == ServerSpec => [](OrderInv /\ BatchInv)
<1>1. ServerInit => OrderInv /\ BatchInv
  BY OrderInit, BatchInit
<1>2. OrderInv /\ BatchInv /\ [ServerNext]_serverVars => OrderInv' /\ BatchInv'
  BY OrderStep, BatchStep DEF BatchInv
<1>. QED BY <1>1, <1>2, PTL DEF ServerSpec

(* Requests get through prefill in the order in which they arrived,        *)
(* whatever the two queues, the chunks and the prefix hits do.             *)
THEOREM ServedInOrder == ServerSpec => []NoOvertaking
<1>1. OrderInv => NoOvertaking
  <2>. SUFFICES ASSUME OrderInv, NEW i \in DOMAIN arrived, NEW j \in DOMAIN arrived,
                       i < j,
                       is_prefill_done[arrived[j]] \/ prefill_idx[arrived[j]] > 0
                PROVE  is_prefill_done[arrived[i]]
    BY DEF NoOvertaking
  <2>1. /\ arrived \in Seq(Seqs) /\ Through \in Nat
        /\ i \in 1 .. Len(arrived) /\ j \in 1 .. Len(arrived)
    BY DEF OrderInv, QueueInv
  <2>2. /\ is_prefill_done[arrived[i]] <=> i <= Through
        /\ is_prefill_done[arrived[j]] <=> j <= Through
        /\ j > Through + 1 => prefill_idx[arrived[j]] = 0
    BY <2>1 DEF OrderInv, PrefillInv
  <2>3. j <= Through + 1
    BY <2>1, <2>2
  <2>. QED BY <2>1, <2>2, <2>3
<1>. QED BY <1>1, ServerKeepsBatch, PTL

(* However many clients connect, the batch and the tokens of a step stay   *)
(* within what RunState has room for.                                      *)
THEOREM BatchStaysBounded == ServerSpec => []BatchBound
<1>1. BatchInv => BatchBound
  BY DEF BatchInv, ListsInv, StepInv, BatchBound, Sampling, Decoding
<1>. QED BY <1>1, ServerKeepsBatch, PTL

(* The engine closes a connection at most once, after the last of at most  *)
(* MaxGenerated tokens.                                                    *)
THEOREM ConnectionsClosedOnce == ServerSpec => []ClosedOnce
<1>1. BatchInv => ClosedOnce
  BY DEF BatchInv, RequestInv, ClosedOnce
<1>. QED BY <1>1, ServerKeepsBatch, PTL

-----------------------------------------------------------------------------
(***************************************************************************)
(* The engine thread between and inside its calls to the memory.           *)
(***************************************************************************)

\* The requests whose next token the pass of this step computes.
Sampled ==
    CASE phase \in Sampling -> {r \in active_prefill_req : is_prefill_done[r]}
      [] phase = "sampleAll" -> ToSet(decode_reqs)
      [] OTHER -> {}

(* Which calls are made in which phase, and for whom.                      *)
CallInv ==
    /\ sealed = {}
    /\ pc \in {"idle", "release"} => todo = <<>>
    /\ pc = "release" => phase = "reap"
    /\ pc \notin {"idle", "release"} => phase \in {"sample", "sampleAll"}
    /\ active_prefill_req \subseteq Seqs
    /\ phase \in Sampling \cup Decoding =>
           \A r \in active_prefill_req :
               /\ active_prefill_req = {r}
               /\ is_prefill_done[r] =>
                      Len(running_batch) = Len(decode_reqs) + 1 /\ r = Newest
               /\ ~is_prefill_done[r] => waiting_queue # <<>> /\ r = NextInLine
    /\ phase = "sample" =>
           /\ active_prefill_req # {}
           /\ \A i \in DOMAIN todo : todo[i].seq \in active_prefill_req
    /\ phase = "sampleAll" =>
           /\ \A i \in DOMAIN todo : todo[i].seq \in ToSet(decode_reqs)
           /\ \A i, j \in DOMAIN todo : todo[i].seq = todo[j].seq => i = j

(* Where a request is, once it is through its prefill, and who has blocks. *)
PlaceInv ==
    /\ IsInjective(running_batch)
    /\ \A r \in Seqs :
           is_prefill_done[r] /\ r \notin ToSet(running_batch) => closes[r] = 1
    /\ phase \in {"drain", "reap"} =>
           \A r \in ToSet(running_batch) : is_finished[r] => closes[r] = 1
    /\ \A r \in Seqs :
           block_table[r] # <<>> =>
               \/ r \in ToSet(running_batch) \cup releasing
               \/ waiting_queue # <<>> /\ r = NextInLine
    /\ \A r \in releasing : is_prefill_done[r] /\ r \notin ToSet(running_batch)

(* The values that step's locals and the fields of a request have.         *)
ValueInv ==
    /\ next_token_to_process \in [Seqs -> Tokens \cup {NoToken}]
    /\ \A r \in ToSet(waiting_queue) \cup ToSet(running_batch) :
           next_token_to_process[r] \in Tokens
    /\ generated_tokens \in [Seqs -> Seq(Tokens)]
    /\ decode_tokens \in Seq(Tokens) /\ decode_positions \in Seq(Nat)
    /\ prefill_chunk \in Seq(Tokens)
    /\ phase = "prefill" /\ active_prefill_req # {} => prefill_chunk # <<>>
    /\ just_generated_new_token = [r \in Seqs |-> FALSE]
    /\ sent \in [Seqs -> Seq(Tokens)]
    /\ leaked \subseteq Seqs

\* The requests whose text is still needed.
Alive == {r \in Seqs : is_prefill_done[r] => r \in ToSet(running_batch)}

\* How many tokens of r the calls before this step's pass have placed ...
Base(r) == IF is_prefill_done[r] THEN Len(Prompt[r]) + Age[r] ELSE prefill_idx[r]
\* ... how many there are to be after it, and how many of them are to come.
Goal(r) == IF r \in Sampled THEN Base(r) + 1 ELSE Base(r)
Left(r) ==
    CASE phase = "prefill" /\ r \in active_prefill_req -> Len(prefill_chunk)
      [] phase = "sample" /\ r \in active_prefill_req -> Len(todo)
      [] phase = "sampleAll" /\ (\E i \in DOMAIN todo : todo[i].seq = r) -> 1
      [] OTHER -> 0

LengthInv ==
    /\ \A r \in Alive : logical_token_count[r] + Left(r) = Goal(r)
    /\ \A r \in Seqs : prefill_idx[r] = Len(Prompt[r]) => Len(Prompt[r]) % BlockSize = 0

\* What step collected for its decodes stays right until it uses it.
DecodeInv ==
    phase \in Sampling \cup {"admit", "decode"} =>
        /\ DOMAIN decode_tokens = DOMAIN decode_reqs
        /\ DOMAIN decode_positions = DOMAIN decode_reqs
        /\ \A i \in DOMAIN decode_reqs :
               /\ decode_tokens[i] = next_token_to_process[decode_reqs[i]]
               /\ decode_positions[i] = Base(decode_reqs[i])

\* The token a request is fed is the last one generated for it.
NextInv ==
    \A r \in ToSet(running_batch) :
        ~WholePromptHit(r) /\ generated_tokens[r] # <<>> =>
            next_token_to_process[r] = Last(generated_tokens[r])

ServerInv ==
    /\ OrderInv /\ BatchInv /\ MemoryInv /\ ShareInv
    /\ CallInv /\ PlaceInv /\ ValueInv /\ LengthInv /\ DecodeInv /\ NextInv

(* The model's answer is the arg-max of the logits, a token id whatever it *)
(* has read.                                                               *)
ModelChooses == \A t : argmax(t) \in Tokens

(* The server starts with no request, no call and an idle memory.          *)
LEMMA ServerInitInv == ServerInit => ServerInv
<1>. SUFFICES ASSUME ServerInit PROVE ServerInv
  OBVIOUS
<1>1. OrderInv /\ BatchInv /\ MemoryInv /\ ShareInv
  BY OrderInit, BatchInit, InitMemoryInv, ShareInit DEF ServerInit
<1>. USE DEF ServerInit, Init
<1>2. /\ phase = "drain" /\ pc = "idle" /\ todo = <<>> /\ sealed = {}
      /\ active_prefill_req = {} /\ releasing = {}
      /\ running_batch = <<>> /\ waiting_queue = <<>> /\ ToSet(<<>>) = {}
  BY DEF ToSet
<1>3. CallInv
  BY <1>2 DEF CallInv, Sampling, Decoding
<1>4. PlaceInv
  <2>1. IsInjective(<<>>)
    BY DEF IsInjective
  <2>. QED BY <1>2, <2>1 DEF PlaceInv
<1>5. ValueInv
  <2>1. <<>> \in Seq(Tokens) /\ <<>> \in Seq(Nat)
    OBVIOUS
  <2>. QED BY <1>2, <2>1 DEF ValueInv, NoToken
<1>6. LengthInv
  <2>1. \A r \in Seqs : Len(Prompt[r]) \in Nat \ {0}
    BY SchedulerAssumption, EmptySeq
  <2>2. \A r : r \notin Sampled /\ Left(r) = 0
    BY <1>2 DEF Sampled, Left, Sampling
  <2>. QED BY <1>2, <2>1, <2>2 DEF LengthInv, Goal, Base, Alive
<1>7. DecodeInv
  BY <1>2 DEF DecodeInv, Sampling
<1>8. NextInv
  BY <1>2 DEF NextInv
<1>. QED BY <1>1, <1>3, <1>4, <1>5, <1>6, <1>7, <1>8 DEF ServerInv

\* The requests that are decoded, each once.
LEMMA DecodedOnce ==
    ASSUME ServerInv
    PROVE  /\ running_batch \in Seq(Seqs) /\ decode_reqs \in Seq(Seqs)
           /\ DOMAIN decode_reqs = 1 .. Len(decode_reqs)
           /\ phase \in Sampling \cup Decoding \cup {"admit"} =>
                  /\ IsInjective(decode_reqs)
                  /\ ToSet(decode_reqs) \subseteq ToSet(running_batch)
           /\ \A r \in ToSet(running_batch) : r \in Seqs /\ is_prefill_done[r]
           /\ \A r \in ToSet(decode_reqs) : r \in Seqs
<1>1. /\ running_batch \in Seq(Seqs) /\ decode_reqs \in Seq(Seqs)
      /\ \A i \in 1 .. Len(running_batch) : is_prefill_done[running_batch[i]]
      /\ IsInjective(running_batch)
  BY DEF ServerInv, BatchInv, ListsInv, PlaceInv
<1>2. \A r \in ToSet(running_batch) : r \in Seqs /\ is_prefill_done[r]
  BY <1>1 DEF ToSet
<1>3. \A r \in ToSet(decode_reqs) : r \in Seqs
  BY <1>1 DEF ToSet
<1>4. ASSUME phase \in Sampling \cup Decoding \cup {"admit"}
      PROVE  /\ Len(decode_reqs) <= Len(running_batch)
             /\ \A i \in 1 .. Len(decode_reqs) : decode_reqs[i] = running_batch[i]
  <2>1. CASE phase = "admit"
    BY <1>1, <2>1 DEF ServerInv, BatchInv, AdmitInv
  <2>2. CASE phase \in Sampling \cup Decoding
    BY <1>1, <2>2 DEF ServerInv, BatchInv, StepInv
  <2>. QED BY <1>4, <2>1, <2>2
<1>5. ASSUME phase \in Sampling \cup Decoding \cup {"admit"}
      PROVE  /\ IsInjective(decode_reqs)
             /\ ToSet(decode_reqs) \subseteq ToSet(running_batch)
  BY <1>1, <1>4, <1>5 DEF IsInjective, ToSet
<1>. QED BY <1>1, <1>2, <1>3, <1>5

\* The chunk of a prompt that the prefix-hit loop looks up.
LEMMA PromptChunk ==
    ASSUME NEW r \in Seqs, NEW k \in Nat, NEW n \in Nat, k + n <= Len(Prompt[r])
    PROVE  /\ Prompt[r] \in Seq(Tokens)
           /\ SubSeq(Prompt[r], k + 1, k + n) \in [1 .. n -> Tokens]
           /\ \A i \in 1 .. n : SubSeq(Prompt[r], k + 1, k + n)[i] = Prompt[r][k + i]
<1>1. Prompt[r] \in Seq(Tokens)
  BY SchedulerAssumption
<1>2. ASSUME NEW p \in Seq(Tokens), k + n <= Len(p)
      PROVE  /\ SubSeq(p, k + 1, k + n) \in [1 .. n -> Tokens]
             /\ \A i \in 1 .. n : SubSeq(p, k + 1, k + n)[i] = p[k + i]
  <2>1. \A i \in 1 .. n : k + i \in 1 .. Len(p) /\ p[k + i] \in Tokens
    BY <1>2
  <2>2. SubSeq(p, k + 1, k + n) = [i \in 1 .. n |-> p[k + i]]
    BY <1>2
  <2>. QED BY <2>1, <2>2
<1>. QED BY <1>1, <1>2

(* Every step of the server is a step of the memory, or leaves it alone.   *)
LEMMA ServerStepsMemory ==
    ASSUME ServerInv, [ServerNext]_serverVars
    PROVE  MemoryStep
<1>. USE DEF MemoryStep
<1>1. CASE Reap
  <2>1. PICK i \in DOMAIN running_batch : StartRelease(running_batch[i])
    BY <1>1 DEF Reap
  <2>2. running_batch[i] \in Seqs
    BY <2>1, DecodedOnce
  <2>. QED BY <2>1, <2>2 DEF Next, CallStart, StartRelease
<1>2. CASE AdmitHit
  <2>1. /\ NextInLine \in Seqs /\ prefill_idx[NextInLine] \in Nat
        /\ CanHit(NextInLine) /\ PrefixHit(NextInLine, p_chunk(NextInLine))
    <3>1. waiting_queue # <<>>
      BY <1>2 DEF AdmitHit, Admitting
    <3>2. OrderInv
      BY DEF ServerInv
    <3>3. NextInLine \in Seqs
      BY <3>1, <3>2, NextInLineIs
    <3>. QED BY <1>2, <3>2, <3>3 DEF AdmitHit, OrderInv, PrefillInv
  <2>2. p_chunk(NextInLine) \in Chunks
    BY <2>1, PromptChunk, PoolAssumption DEF CanHit, p_chunk, Chunks
  <2>. QED BY <2>1, <2>2 DEF Next, CallStart, PrefixHit
<1>3. CASE Prefill
  <2>1. PICK r \in active_prefill_req : ForwardPrefillChunk(r, prefill_chunk)
    BY <1>3 DEF Prefill
  <2>. DEFINE batch == [i \in DOMAIN prefill_chunk |->
                           [seq |-> r, tok |-> prefill_chunk[i]]]
  <2>2. StartForward(batch)
    BY <2>1 DEF ForwardPrefillChunk
  <2>3. r \in Seqs /\ prefill_chunk \in Seq(Tokens)
    BY DEF ServerInv, CallInv, ValueInv
  <2>4. /\ batch \in Seq([seq : Seqs, tok : Tokens])
        /\ \A i \in DOMAIN batch : batch[i].seq = r
    <3>1. /\ DOMAIN prefill_chunk = 1 .. Len(prefill_chunk)
          /\ Len(prefill_chunk) \in Nat
          /\ \A i \in DOMAIN prefill_chunk : prefill_chunk[i] \in Tokens
      BY <2>3
    <3>. QED BY <2>3, <3>1
  <2>. HIDE DEF batch
  <2>5. OneOrEach(batch)
    BY <2>3, <2>4 DEF OneOrEach
  <2>. QED BY <2>2, <2>4, <2>5
<1>4. CASE Decode
  <2>. DEFINE batch == [i \in DOMAIN decode_reqs |->
                           [seq |-> decode_reqs[i], tok |-> decode_tokens[i]]]
  <2>1. StartForward(batch) /\ phase = "decode"
    BY <1>4 DEF Decode, ForwardDecodeBatch
  <2>2. /\ decode_tokens \in Seq(Tokens) /\ DOMAIN decode_tokens = DOMAIN decode_reqs
    BY <2>1 DEF ServerInv, ValueInv, DecodeInv
  <2>3. /\ decode_reqs \in Seq(Seqs) /\ DOMAIN decode_reqs = 1 .. Len(decode_reqs)
        /\ IsInjective(decode_reqs)
    BY <2>1, DecodedOnce DEF Decoding
  <2>4. /\ batch \in Seq([seq : Seqs, tok : Tokens])
        /\ \A i, j \in DOMAIN batch : batch[i].seq = batch[j].seq => i = j
    BY <2>2, <2>3 DEF IsInjective
  <2>. HIDE DEF batch
  <2>5. OneOrEach(batch)
    BY <2>4 DEF OneOrEach
  <2>. QED BY <2>1, <2>4, <2>5
<1>5. CASE Call
  BY <1>5 DEF Call, Next
<1>6. CASE \/ Drain \/ CollectDecodes \/ AdmitChunk \/ AdmitNone \/ SampleFirst
           \/ SampleAll \/ Reply \/ UNCHANGED serverVars
           \/ \E r \in Seqs : Receive(r) \/ ReceiveFails(r)
  <2>1. UNCHANGED memVars
    BY <1>6 DEF Drain, CollectDecodes, AdmitChunk, AdmitNone, SampleFirst,
                SampleAll, Reply, Receive, ReceiveFails, serverVars
  <2>. QED BY <2>1
<1>. QED BY <1>1, <1>2, <1>3, <1>4, <1>5, <1>6
         DEF ServerNext, EngineStep, ListenerStep

\* ... so that what holds of the memory holds of the server's.
LEMMA ServerMemoryKept ==
    ASSUME ServerInv, [ServerNext]_serverVars
    PROVE  MemoryStep /\ MemoryInv' /\ ShareInv'
<1>1. MemoryStep
  BY ServerStepsMemory
<1>. QED BY <1>1, StepKeepsMemory, ShareKept DEF ServerInv

\* What a step inside a call does to the pass and to the sequences.
LEMMA CallSplits ==
    ASSUME ServerInv, Call
    PROVE  \/ /\ UNCHANGED <<block_table, logical_token_count, text, releasing,
                             sealed, todo>>
              /\ \/ pc' = pc
                 \/ pc = "append" /\ pc' = "evict"
                 \/ pc = "evict" /\ pc' \in {"append", "exit"}
                 \/ pc = "append" /\ pc' = "idle" /\ todo = <<>>
           \/ \E s \in Seqs : \E tok \in Tokens :
                  /\ pc = "append" /\ pc' = pc
                  /\ todo # <<>> /\ todo[1].seq = s /\ todo[1].tok = tok
                  /\ todo' = Tail(todo)
                  /\ \A t \in Seqs \ {s} : block_table'[t] = block_table[t]
                  /\ logical_token_count' = [logical_token_count EXCEPT ![s] = @ + 1]
                  /\ text' = [text EXCEPT ![s] = Append(@, tok)]
                  /\ UNCHANGED <<releasing, sealed>>
           \/ \E s \in Seqs :
                  /\ pc = "release" /\ pc' = "idle"
                  /\ releasing = {s} /\ releasing' = {}
                  /\ block_table' = [block_table EXCEPT ![s] = <<>>]
                  /\ logical_token_count' = [logical_token_count EXCEPT ![s] = 0]
                  /\ text' = [text EXCEPT ![s] = <<>>]
                  /\ todo' = todo /\ sealed' = sealed \ {s}
<1>0. MemoryInv /\ CallStep
  BY DEF ServerInv, Call
<1>1. CASE PlaceToken \/ OpenBlock
  <2>1. PICK s \in Seqs, tok \in Tokens :
            /\ pc = "append" /\ pc' = pc
            /\ todo # <<>> /\ todo[1].seq = s /\ todo[1].tok = tok
            /\ todo' = Tail(todo)
            /\ logical_token_count' = [logical_token_count EXCEPT ![s] = @ + 1]
            /\ text' = [text EXCEPT ![s] = Append(@, tok)]
            /\ UNCHANGED <<releasing, sealed>>
            /\ \/ block_table' = block_table
               \/ \E id \in Blocks :
                      block_table' = [block_table EXCEPT ![s] = Append(@, id)]
    BY <1>0, <1>1, Placed
  <2>2. \A t \in Seqs \ {s} : block_table'[t] = block_table[t]
    <3>1. block_table \in [Seqs -> Seq(Blocks)]
      BY <1>0 DEF MemoryInv, TypeOK
    <3>. QED BY <2>1, <3>1
  <2>. QED BY <2>1, <2>2
<1>2. CASE CommitBlock \/ StartEvict \/ EvictLeaf \/ EvictDone \/ OutOfMemory
  BY <1>2 DEF CommitBlock, InsertCache, StartEvict, EvictLeaf, EvictDone,
              OutOfMemory, ctlVars, seqVars, ghostVars
<1>3. CASE Compute
  BY <1>3 DEF Compute, seqVars
<1>4. ASSUME NEW s \in Seqs, ReleaseBlock(s)
      PROVE  UNCHANGED <<block_table, logical_token_count, text, releasing,
                         sealed, todo, pc>>
  BY <1>4 DEF ReleaseBlock, seqVars, ghostVars
<1>5. ASSUME NEW s \in Seqs, FinishRelease(s)
      PROVE  /\ pc = "release" /\ pc' = "idle"
             /\ releasing = {s} /\ releasing' = {}
             /\ block_table' = [block_table EXCEPT ![s] = <<>>]
             /\ logical_token_count' = [logical_token_count EXCEPT ![s] = 0]
             /\ text' = [text EXCEPT ![s] = <<>>]
             /\ todo' = todo /\ sealed' = sealed \ {s}
  BY <1>0, <1>5 DEF FinishRelease, MemoryInv, ControlShape
<1>6. \/ PlaceToken \/ OpenBlock \/ Compute
      \/ CommitBlock \/ StartEvict \/ EvictLeaf \/ EvictDone \/ OutOfMemory
      \/ \E s \in Seqs : ReleaseBlock(s) \/ FinishRelease(s)
  BY <1>0 DEF CallStep
<1>. QED BY <1>1, <1>2, <1>3, <1>4, <1>5, <1>6

\* A request that has tokens in the pass has blocks: it runs, or is next.
LEMMA PassMember ==
    ASSUME ServerInv, pc = "append", todo # <<>>, NEW s, todo[1].seq = s
    PROVE  /\ s \in Alive
           /\ \/ s \in ToSet(running_batch)
              \/ waiting_queue # <<>> /\ s = NextInLine
           /\ phase = "sample" => active_prefill_req = {s}
           /\ phase = "sampleAll" => \A i \in DOMAIN todo : todo[i].seq = s => i = 1
           /\ phase \in {"sample", "sampleAll"}
<1>1. /\ phase \in {"sample", "sampleAll"} /\ 1 \in DOMAIN todo /\ s \in Seqs
  <2>1. todo \in Seq([seq : Seqs, tok : Tokens])
    BY DEF ServerInv, MemoryInv, TypeOK
  <2>2. s \in Seqs
    BY FrontToken DEF ServerInv
  <2>3. 1 \in DOMAIN todo
    <3>. DEFINE S == [seq : Seqs, tok : Tokens]
    <3>. HIDE DEF S
    <3>1. todo \in Seq(S)
      BY <2>1 DEF S
    <3>. QED BY <3>1, EmptySeq
  <2>. QED BY <2>2, <2>3 DEF ServerInv, CallInv
<1>2. CASE phase = "sampleAll"
  <2>1. s \in ToSet(decode_reqs) /\ \A i \in DOMAIN todo : todo[i].seq = s => i = 1
    BY <1>1, <1>2 DEF ServerInv, CallInv
  <2>2. s \in ToSet(running_batch)
    BY <1>2, <2>1, DecodedOnce DEF Decoding
  <2>. QED BY <1>1, <1>2, <2>1, <2>2 DEF Alive
<1>3. CASE phase = "sample"
  <2>1. s \in active_prefill_req
    BY <1>1, <1>3 DEF ServerInv, CallInv
  <2>2. /\ active_prefill_req = {s}
        /\ is_prefill_done[s] => Len(running_batch) = Len(decode_reqs) + 1 /\ s = Newest
        /\ ~is_prefill_done[s] => waiting_queue # <<>> /\ s = NextInLine
    BY <1>3, <2>1 DEF ServerInv, CallInv, Sampling
  <2>3. is_prefill_done[s] => s \in ToSet(running_batch)
    <3>1. /\ running_batch \in Seq(Seqs) /\ decode_reqs \in Seq(Seqs)
      BY DecodedOnce
    <3>2. Len(running_batch) = Len(decode_reqs) + 1 =>
              Len(running_batch) \in 1 .. Len(running_batch)
      BY <3>1
    <3>. QED BY <2>2, <3>1, <3>2 DEF ToSet, Newest
  <2>. QED BY <1>1, <1>3, <2>2, <2>3 DEF Alive
<1>. QED BY <1>1, <1>2, <1>3

\* The scheduler's own part of the invariants.
LEMMA SchedulerFrame ==
    UNCHANGED schedVars =>
        /\ Sampled' = Sampled /\ Alive' = Alive
        /\ \A r : Base(r)' = Base(r) /\ Goal(r)' = Goal(r)
        /\ ValueInv => ValueInv'
        /\ DecodeInv => DecodeInv'
        /\ NextInv => NextInv'
<1>. SUFFICES ASSUME UNCHANGED schedVars
              PROVE  /\ Sampled' = Sampled /\ Alive' = Alive
                     /\ \A r : Base(r)' = Base(r) /\ Goal(r)' = Goal(r)
                     /\ ValueInv => ValueInv'
                     /\ DecodeInv => DecodeInv'
                     /\ NextInv => NextInv'
  OBVIOUS
<1>. USE DEF schedVars, stepVars, decodeVars, requestVars, clientVars, listenVars
<1>1. Sampled' = Sampled /\ Alive' = Alive
  BY DEF Sampled, Alive
<1>2. \A r : Base(r)' = Base(r)
  BY DEF Base, Age
<1>3. \A r : Goal(r)' = Goal(r)
  BY <1>1, <1>2 DEF Goal
<1>4. ValueInv => ValueInv'
  BY DEF ValueInv
<1>5. DecodeInv => DecodeInv'
  BY <1>2 DEF DecodeInv
<1>6. NextInv => NextInv'
  BY DEF NextInv, WholePromptHit
<1>. QED BY <1>1, <1>2, <1>3, <1>4, <1>5, <1>6

(* A step inside a memory call leaves the scheduler alone.                 *)
LEMMA CallServer ==
    ASSUME ServerInv, Call
    PROVE  /\ CallInv' /\ PlaceInv' /\ ValueInv'
           /\ LengthInv' /\ DecodeInv' /\ NextInv'
<1>0. UNCHANGED schedVars
  BY DEF Call
<1>1. /\ UNCHANGED <<phase, active_prefill_req, running_batch, decode_reqs,
                     waiting_queue, is_prefill_done, closes, is_finished,
                     prefill_chunk, prefill_idx>>
      /\ Newest' = Newest /\ NextInLine' = NextInLine
  BY <1>0 DEF schedVars, stepVars, decodeVars, requestVars, clientVars, Newest,
              NextInLine
<1>2. ValueInv' /\ DecodeInv' /\ NextInv'
  BY <1>0, SchedulerFrame DEF ServerInv
<1>3. Alive' = Alive /\ \A r : Goal(r)' = Goal(r)
  BY <1>0, SchedulerFrame
<1>4. CallInv /\ PlaceInv /\ LengthInv
  BY DEF ServerInv
<1>5. /\ logical_token_count \in [Seqs -> Nat] /\ block_table \in [Seqs -> Seq(Blocks)]
      /\ todo \in Seq([seq : Seqs, tok : Tokens])
      /\ Alive \subseteq Seqs
  BY DEF ServerInv, MemoryInv, TypeOK, Alive
<1>6. ASSUME UNCHANGED <<block_table, logical_token_count, releasing, sealed, todo>>,
             \/ pc' = pc
             \/ pc = "append" /\ pc' = "evict"
             \/ pc = "evict" /\ pc' \in {"append", "exit"}
             \/ pc = "append" /\ pc' = "idle" /\ todo = <<>>
      PROVE  CallInv' /\ PlaceInv' /\ LengthInv'
  <2>1. CallInv'
    BY <1>1, <1>4, <1>6 DEF CallInv
  <2>2. PlaceInv'
    BY <1>1, <1>4, <1>6 DEF PlaceInv
  <2>3. \A r : Left(r)' = Left(r)
    BY <1>1, <1>6 DEF Left
  <2>4. LengthInv'
    BY <1>1, <1>3, <1>4, <1>6, <2>3 DEF LengthInv
  <2>. QED BY <2>1, <2>2, <2>4
<1>7. ASSUME NEW s \in Seqs, pc = "append", pc' = pc, todo # <<>>,
             todo[1].seq = s, todo' = Tail(todo),
             \A t \in Seqs \ {s} : block_table'[t] = block_table[t],
             logical_token_count' = [logical_token_count EXCEPT ![s] = @ + 1],
             UNCHANGED <<releasing, sealed>>
      PROVE  CallInv' /\ PlaceInv' /\ LengthInv'
  <2>. DEFINE S == [seq : Seqs, tok : Tokens]
  <2>1. /\ Tail(todo) \in Seq(S)
        /\ Len(todo) \in Nat \ {0} /\ Len(Tail(todo)) = Len(todo) - 1
        /\ \A i \in DOMAIN Tail(todo) :
               i + 1 \in DOMAIN todo /\ Tail(todo)[i] = todo[i + 1] /\ i \in Nat \ {0}
        /\ DOMAIN todo = 1 .. Len(todo) /\ DOMAIN Tail(todo) = 1 .. Len(todo) - 1
    <3>1. todo \in Seq(S)
      BY <1>5
    <3>. HIDE DEF S
    <3>2. Len(todo) \in Nat \ {0}
      BY <1>7, <3>1, EmptySeq
    <3>. QED BY <1>7, <3>1, <3>2, TailMember
  <2>2. /\ s \in Alive
        /\ \/ s \in ToSet(running_batch)
           \/ waiting_queue # <<>> /\ s = NextInLine
        /\ phase = "sample" => active_prefill_req = {s}
        /\ phase = "sampleAll" => \A i \in DOMAIN todo : todo[i].seq = s => i = 1
        /\ phase \in {"sample", "sampleAll"}
    <3>1. pc = "append" /\ todo # <<>> /\ todo[1].seq = s
      BY <1>7
    <3>. QED BY <3>1, PassMember
  <2>3. CallInv'
    <3>1. \A i \in DOMAIN todo' : \E j \in DOMAIN todo : todo'[i] = todo[j] /\ j = i + 1
      BY <1>7, <2>1
    <3>2. phase = "sample" => \A i \in DOMAIN todo' : todo'[i].seq \in active_prefill_req
      BY <1>4, <3>1 DEF CallInv
    <3>3. phase = "sampleAll" =>
              /\ \A i \in DOMAIN todo' : todo'[i].seq \in ToSet(decode_reqs)
              /\ \A i, j \in DOMAIN todo' : todo'[i].seq = todo'[j].seq => i = j
      <4>. SUFFICES ASSUME phase = "sampleAll"
                    PROVE  /\ \A i \in DOMAIN todo' : todo'[i].seq \in ToSet(decode_reqs)
                           /\ \A i, j \in DOMAIN todo' :
                                  todo'[i].seq = todo'[j].seq => i = j
        OBVIOUS
      <4>1. \A i \in DOMAIN todo' : todo'[i].seq \in ToSet(decode_reqs)
        BY <1>4, <3>1 DEF CallInv
      <4>2. ASSUME NEW i \in DOMAIN todo', NEW j \in DOMAIN todo',
                   todo'[i].seq = todo'[j].seq
            PROVE  i = j
        <5>1. /\ i + 1 \in DOMAIN todo /\ j + 1 \in DOMAIN todo
              /\ todo[i + 1].seq = todo[j + 1].seq /\ i \in Nat /\ j \in Nat
          BY <1>7, <2>1, <4>2
        <5>2. i + 1 = j + 1
          BY <1>4, <5>1 DEF CallInv
        <5>. QED BY <5>1, <5>2
      <4>. QED BY <4>1, <4>2
    <3>. QED BY <1>1, <1>4, <1>7, <3>2, <3>3, <2>2 DEF CallInv
  <2>4. PlaceInv'
    <3>1. \A r \in Seqs :
              block_table'[r] # <<>> =>
                  \/ r \in ToSet(running_batch) \cup releasing
                  \/ waiting_queue # <<>> /\ r = NextInLine
      BY <1>4, <1>7, <2>2 DEF PlaceInv
    <3>. QED BY <1>1, <1>4, <1>7, <3>1 DEF PlaceInv
  <2>5. \A r \in Seqs : Left(r) \in Nat /\ Left(r)' = IF r = s THEN Left(r) - 1 ELSE Left(r)
    <3>. TAKE r \in Seqs
    <3>1. CASE phase = "sample"
      BY <1>1, <1>7, <2>1, <2>2, <3>1 DEF Left
    <3>2. CASE phase = "sampleAll"
      <4>. DEFINE A == \E i \in DOMAIN todo : todo[i].seq = r
                  B == \E i \in DOMAIN Tail(todo) : Tail(todo)[i].seq = r
      <4>1. Left(r) = (IF A THEN 1 ELSE 0) /\ Left(r)' = IF B THEN 1 ELSE 0
        BY <1>1, <1>7, <3>2 DEF Left
      <4>2. r = s => A /\ ~B
        <5>1. 1 \in DOMAIN todo
          BY <2>1
        <5>2. \A i \in DOMAIN Tail(todo) : i + 1 # 1
          BY <2>1
        <5>. QED BY <1>7, <2>1, <2>2, <3>2, <5>1, <5>2
      <4>3. r # s => (A <=> B)
        <5>1. B => A
          BY <2>1
        <5>2. r # s /\ A => B
          <6>. SUFFICES ASSUME r # s, NEW i \in DOMAIN todo, todo[i].seq = r
                        PROVE  B
            OBVIOUS
          <6>1. i # 1 /\ i \in 1 .. Len(todo)
            BY <1>7, <2>1
          <6>2. i - 1 \in DOMAIN Tail(todo) /\ (i - 1) + 1 = i
            BY <2>1, <6>1
          <6>3. Tail(todo)[i - 1] = todo[i]
            BY <2>1, <6>2
          <6>. QED BY <6>2, <6>3
        <5>. QED BY <5>1, <5>2
      <4>. HIDE DEF A, B
      <4>. QED BY <4>1, <4>2, <4>3
    <3>. QED BY <2>2, <3>1, <3>2
  <2>6. LengthInv'
    <3>. SUFFICES ASSUME NEW r \in Alive
                  PROVE  logical_token_count'[r] + Left(r)' = Goal(r)
      BY <1>1, <1>3, <1>4 DEF LengthInv
    <3>1. /\ logical_token_count[r] + Left(r) = Goal(r)
          /\ logical_token_count[r] \in Nat /\ r \in Seqs
      BY <1>4, <1>5 DEF LengthInv
    <3>2. logical_token_count'[r] = IF r = s THEN logical_token_count[r] + 1
                                             ELSE logical_token_count[r]
      BY <1>5, <1>7, <3>1
    <3>. QED BY <2>5, <3>1, <3>2
  <2>. QED BY <2>3, <2>4, <2>6
<1>8. ASSUME NEW s \in Seqs, pc = "release", pc' = "idle",
             releasing = {s}, releasing' = {},
             block_table' = [block_table EXCEPT ![s] = <<>>],
             logical_token_count' = [logical_token_count EXCEPT ![s] = 0],
             todo' = todo, sealed' = sealed \ {s}
      PROVE  CallInv' /\ PlaceInv' /\ LengthInv'
  <2>1. CallInv'
    BY <1>1, <1>4, <1>8 DEF CallInv
  <2>2. PlaceInv'
    <3>1. \A r \in Seqs : block_table'[r] # <<>> => r # s /\ block_table[r] # <<>>
      BY <1>5, <1>8
    <3>. QED BY <1>1, <1>4, <1>8, <3>1 DEF PlaceInv
  <2>3. \A r : Left(r)' = Left(r)
    BY <1>1, <1>8 DEF Left
  <2>4. s \notin Alive
    BY <1>4, <1>8 DEF PlaceInv, Alive
  <2>5. \A r \in Alive : logical_token_count'[r] = logical_token_count[r]
    BY <1>5, <1>8, <2>4
  <2>6. LengthInv'
    BY <1>1, <1>3, <1>4, <2>3, <2>5 DEF LengthInv
  <2>. QED BY <2>1, <2>2, <2>6
<1>9. CallInv' /\ PlaceInv' /\ LengthInv'
  BY <1>6, <1>7, <1>8, CallSplits
<1>. QED BY <1>2, <1>9

\* Between the calls nothing of a pass is left.
LEMMA AtRest ==
    ASSUME ServerInv, pc = "idle"
    PROVE  /\ todo = <<>> /\ DOMAIN todo = {} /\ releasing = {} /\ sealed = {}
           /\ \A r : phase # "prefill" => Left(r) = 0
           /\ \A r \in Alive : logical_token_count[r] + Left(r) = Goal(r)
           /\ logical_token_count \in [Seqs -> Nat]
           /\ \A r \in Seqs : Base(r) \in Int /\ Age[r] \in Int
<1>1. todo = <<>> /\ releasing = {} /\ sealed = {}
  BY DEF ServerInv, CallInv, MemoryInv, ControlShape
<1>2. DOMAIN todo = {} /\ Len(todo) = 0
  BY <1>1
<1>3. \A r : phase # "prefill" => Left(r) = 0
  BY <1>2 DEF Left
<1>4. \A r \in Seqs : Base(r) \in Int /\ Age[r] \in Int
  <2>1. \A r \in Seqs : Len(Prompt[r]) \in Nat
    BY SchedulerAssumption
  <2>2. Age \in [Seqs -> Int]
    BY AgeType DEF ServerInv, BatchInv
  <2>3. \A r \in Seqs : prefill_idx[r] \in Nat
    BY DEF ServerInv, OrderInv, PrefillInv
  <2>. QED BY <2>1, <2>2, <2>3 DEF Base
<1>. QED BY <1>1, <1>2, <1>3, <1>4 DEF ServerInv, LengthInv, MemoryInv, TypeOK

\* In the other phases no pass is under way.
Passive == {"drain", "reap", "admit", "decode", "reply"}

(* Outside the two forward passes nobody is owed a token by the memory.    *)
LEMMA NoPass ==
    /\ phase \in Passive => \A r : Left(r) = 0 /\ Goal(r) = Base(r)
    /\ phase' \in Passive => \A r : Left(r)' = 0 /\ Goal(r)' = Base(r)'
BY DEF Left, Goal, Sampled, Sampling, Passive

(* What a request is owed depends on three of its fields.                  *)
LEMMA BasesUnchanged ==
    UNCHANGED <<prefill_idx, is_prefill_done, generated_tokens>> =>
        Age' = Age /\ \A r : Base(r)' = Base(r)
BY DEF Base, Age

(* The listener touches only what has not been queued yet.                 *)
LEMMA ReceiveServer ==
    ASSUME ServerInv, NEW r \in Seqs, Receive(r) \/ ReceiveFails(r)
    PROVE  /\ CallInv' /\ PlaceInv' /\ ValueInv'
           /\ LengthInv' /\ DecodeInv' /\ NextInv'
<1>. USE DEF stepVars, decodeVars, requestVars, clientVars
<1>1. /\ UNCHANGED <<memVars, waiting_queue, running_batch, phase, stepVars,
                     requestVars, clientVars>>
      /\ leaked' \in {leaked, leaked \cup {r}}
  BY DEF Receive, ReceiveFails
<1>2. UNCHANGED <<pc, todo, sealed, releasing, block_table, logical_token_count>>
  BY <1>1 DEF memVars, ctlVars, ghostVars, seqVars
<1>3. /\ Newest' = Newest /\ NextInLine' = NextInLine /\ Alive' = Alive
      /\ Sampled' = Sampled /\ \A q : Base(q)' = Base(q) /\ Left(q)' = Left(q)
  BY <1>1, <1>2, BasesUnchanged DEF Newest, NextInLine, Alive, Sampled, Left
<1>4. \A q : Goal(q)' = Goal(q)
  BY <1>3 DEF Goal
<1>5. CallInv' /\ PlaceInv'
  BY <1>1, <1>2, <1>3 DEF ServerInv, CallInv, PlaceInv
<1>6. ValueInv'
  BY <1>1 DEF ServerInv, ValueInv
<1>7. LengthInv'
  BY <1>1, <1>2, <1>3, <1>4 DEF ServerInv, LengthInv
<1>8. DecodeInv' /\ NextInv'
  BY <1>1, <1>3 DEF ServerInv, DecodeInv, NextInv, WholePromptHit
<1>. QED BY <1>5, <1>6, <1>7, <1>8

(* Draining the queue of the listener moves requests, and nothing else.    *)
LEMMA DrainServer ==
    ASSUME ServerInv, Drain
    PROVE  /\ CallInv' /\ PlaceInv' /\ ValueInv'
           /\ LengthInv' /\ DecodeInv' /\ NextInv'
<1>. USE DEF stepVars, decodeVars, clientVars
<1>1. /\ pc = "idle" /\ phase = "drain" /\ phase' \in {"drain", "reap"}
      /\ waiting_queue' = waiting_queue \o incoming_requests
      /\ next_token_to_process' =
             [r \in Seqs |-> IF r \in ToSet(incoming_requests)
                             THEN Head(Prompt[r]) ELSE next_token_to_process[r]]
      /\ UNCHANGED <<memVars, running_batch, stepVars, prefill_idx,
                     is_prefill_done, is_finished, generated_tokens, clientVars,
                     leaked>>
  BY DEF Drain
<1>2. UNCHANGED <<pc, todo, sealed, releasing, block_table, logical_token_count>>
  BY <1>1 DEF memVars, ctlVars, ghostVars, seqVars
<1>3. /\ Alive' = Alive /\ \A q : Base(q)' = Base(q)
      /\ \A q : Left(q)' = 0 /\ Goal(q)' = Base(q)'
      /\ \A q : Left(q) = 0 /\ Goal(q) = Base(q)
  BY <1>1, <1>2, BasesUnchanged, NoPass DEF Alive, Passive
<1>4. /\ waiting_queue \in Seq(Seqs) /\ incoming_requests \in Seq(Seqs)
      /\ arrived \in Seq(Seqs) /\ IsInjective(arrived) /\ Through \in Nat
  BY DEF ServerInv, OrderInv, QueueInv
<1>5. waiting_queue # <<>> => waiting_queue' # <<>> /\ NextInLine' = NextInLine
  BY <1>1, <1>4 DEF NextInLine
<1>6. ToSet(waiting_queue') \subseteq ToSet(waiting_queue) \cup ToSet(incoming_requests)
  <2>1. ASSUME NEW i \in DOMAIN waiting_queue'
        PROVE  \/ \E j \in DOMAIN waiting_queue : waiting_queue'[i] = waiting_queue[j]
               \/ \E j \in DOMAIN incoming_requests :
                      waiting_queue'[i] = incoming_requests[j]
    BY <1>1, <1>4
  <2>. QED BY <2>1 DEF ToSet
<1>7. \A r \in ToSet(incoming_requests) : r \in Seqs /\ ~is_prefill_done[r]
  <2>. SUFFICES ASSUME NEW i \in DOMAIN incoming_requests
                PROVE  /\ incoming_requests[i] \in Seqs
                       /\ ~is_prefill_done[incoming_requests[i]]
    BY DEF ToSet
  <2>. DEFINE k == Through + Len(waiting_queue) + i
  <2>1. /\ incoming_requests[i] = arrived[k] /\ k \in 1 .. Len(arrived)
        /\ k > Through
    BY <1>4 DEF ServerInv, OrderInv, QueueInv, Through
  <2>2. is_prefill_done[arrived[k]] <=> k <= Through
    BY <2>1 DEF ServerInv, OrderInv, PrefillInv
  <2>. QED BY <1>4, <2>1, <2>2
<1>8. CallInv'
  <2>1. phase' \notin {"sample", "sampleAll"} /\ phase' \notin Sampling \cup Decoding
    BY <1>1 DEF Sampling, Decoding
  <2>. QED BY <1>1, <1>2, <2>1, AtRest DEF ServerInv, CallInv
<1>9. PlaceInv'
  BY <1>1, <1>2, <1>5 DEF ServerInv, PlaceInv
<1>10. ValueInv'
  <2>1. \A r \in Seqs : Head(Prompt[r]) \in Tokens
    BY SchedulerAssumption, HeadTailProperties
  <2>2. next_token_to_process' \in [Seqs -> Tokens \cup {NoToken}]
    BY <1>1, <2>1 DEF ServerInv, ValueInv
  <2>3. \A r \in ToSet(waiting_queue) \cup ToSet(running_batch) : r \in Seqs
    BY <1>4, DecodedOnce DEF ToSet
  <2>4. \A r \in ToSet(waiting_queue') \cup ToSet(running_batch) :
            next_token_to_process'[r] \in Tokens
    BY <1>1, <1>6, <1>7, <2>1, <2>3 DEF ServerInv, ValueInv
  <2>. QED BY <1>1, <2>2, <2>4 DEF ServerInv, ValueInv
<1>11. LengthInv'
  BY <1>1, <1>2, <1>3 DEF ServerInv, LengthInv
<1>12. DecodeInv'
  BY <1>1 DEF DecodeInv, Sampling
<1>13. NextInv'
  <2>1. \A r \in ToSet(running_batch) :
            next_token_to_process'[r] = next_token_to_process[r]
    BY <1>1, <1>7, DecodedOnce
  <2>. QED BY <1>1, <2>1 DEF ServerInv, NextInv, WholePromptHit
<1>. QED BY <1>8, <1>9, <1>10, <1>11, <1>12, <1>13

(* The request that leaves has been closed, and its blocks go with it.     *)
LEMMA ReapServer ==
    ASSUME ServerInv, Reap
    PROVE  /\ CallInv' /\ PlaceInv' /\ ValueInv'
           /\ LengthInv' /\ DecodeInv' /\ NextInv'
<1>. USE DEF stepVars, decodeVars, requestVars, clientVars, listenVars
<1>1. PICK i \in DOMAIN running_batch :
          /\ is_finished[running_batch[i]]
          /\ StartRelease(running_batch[i])
          /\ running_batch' = RemoveAt(running_batch, i)
  BY DEF Reap
<1>2. /\ phase = "reap"
      /\ UNCHANGED <<waiting_queue, phase, stepVars, requestVars, clientVars,
                     listenVars>>
  BY DEF Reap
<1>. DEFINE s == running_batch[i]
<1>3. /\ running_batch \in Seq(Seqs) /\ IsInjective(running_batch)
      /\ s \in ToSet(running_batch) /\ s \in Seqs /\ is_prefill_done[s]
  BY DecodedOnce DEF ServerInv, PlaceInv, ToSet
<1>4. /\ IsInjective(running_batch') /\ ToSet(running_batch') = ToSet(running_batch) \ {s}
  BY <1>1, <1>3, RemoveMember
<1>. HIDE DEF s
<1>5. /\ pc = "idle" /\ pc' = "release" /\ releasing' = {s}
      /\ UNCHANGED <<todo, sealed, block_table, logical_token_count>>
  BY <1>1 DEF StartRelease, seqVars, s
<1>6. todo = <<>> /\ releasing = {} /\ sealed = {}
  BY <1>5, AtRest
<1>7. CallInv'
  BY <1>2, <1>5, <1>6 DEF ServerInv, CallInv, Sampling, Decoding
<1>8. PlaceInv'
  <2>1. closes[s] = 1
    BY <1>1, <1>2, <1>3 DEF ServerInv, PlaceInv, s
  <2>2. NextInLine' = NextInLine
    BY <1>2 DEF NextInLine
  <2>3. \A r \in Seqs : is_prefill_done[r] /\ r \notin ToSet(running_batch') =>
                            closes[r] = 1
    BY <1>4, <2>1 DEF ServerInv, PlaceInv
  <2>4. \A r \in ToSet(running_batch') : is_finished[r] => closes[r] = 1
    BY <1>2, <1>4 DEF ServerInv, PlaceInv
  <2>5. \A r \in Seqs :
            block_table[r] # <<>> =>
                \/ r \in ToSet(running_batch') \cup {s}
                \/ waiting_queue # <<>> /\ r = NextInLine
    BY <1>4, <1>6 DEF ServerInv, PlaceInv
  <2>. QED BY <1>2, <1>3, <1>4, <1>5, <2>2, <2>3, <2>4, <2>5 DEF PlaceInv
<1>9. ValueInv'
  BY <1>2, <1>4 DEF ServerInv, ValueInv
<1>10. LengthInv'
  <2>1. Alive' \subseteq Alive
    BY <1>2, <1>4 DEF Alive
  <2>2. /\ \A q : Base(q)' = Base(q)
        /\ \A q : Left(q)' = 0 /\ Goal(q)' = Base(q)'
        /\ \A q : Left(q) = 0 /\ Goal(q) = Base(q)
    BY <1>2, BasesUnchanged, NoPass DEF Passive
  <2>. QED BY <1>2, <1>5, <2>1, <2>2 DEF ServerInv, LengthInv
<1>11. DecodeInv'
  BY <1>2 DEF DecodeInv, Sampling
<1>12. NextInv'
  BY <1>2, <1>4 DEF ServerInv, NextInv, WholePromptHit
<1>. QED BY <1>7, <1>8, <1>9, <1>10, <1>11, <1>12

(* Collecting the decodes copies what the batch has generated last.        *)
LEMMA CollectServer ==
    ASSUME ServerInv, CollectDecodes
    PROVE  /\ CallInv' /\ PlaceInv' /\ ValueInv'
           /\ LengthInv' /\ DecodeInv' /\ NextInv'
<1>. USE DEF requestVars, clientVars, listenVars
<1>1. /\ pc = "idle" /\ phase = "reap" /\ phase' = "admit"
      /\ decode_reqs' = DecodeBatch
      /\ decode_tokens' =
             [i \in DOMAIN DecodeBatch |-> next_token_to_process[DecodeBatch[i]]]
      /\ decode_positions' =
             [i \in DOMAIN DecodeBatch |-> logical_token_count[DecodeBatch[i]]]
      /\ UNCHANGED <<memVars, waiting_queue, running_batch, prefill_chunk,
                     active_prefill_req, requestVars, clientVars, listenVars>>
  BY DEF CollectDecodes
<1>2. UNCHANGED <<pc, todo, sealed, releasing, block_table, logical_token_count>>
  BY <1>1 DEF memVars, ctlVars, ghostVars, seqVars
<1>3. DecodeBatch = running_batch
  BY CollectsAll DEF ServerInv, BatchInv, ListsInv
<1>4. /\ Alive' = Alive /\ \A q : Base(q)' = Base(q)
      /\ \A q : Left(q)' = 0 /\ Goal(q)' = Base(q)'
      /\ \A q : Left(q) = 0 /\ Goal(q) = Base(q)
      /\ NextInLine' = NextInLine
  BY <1>1, BasesUnchanged, NoPass DEF Alive, Passive, NextInLine
<1>5. \A i \in DOMAIN running_batch :
          /\ running_batch[i] \in ToSet(running_batch)
          /\ running_batch[i] \in Alive /\ running_batch[i] \in Seqs
  BY DecodedOnce DEF ToSet, Alive
<1>6. CallInv'
  BY <1>1, <1>2, AtRest DEF ServerInv, CallInv, Sampling, Decoding
<1>7. PlaceInv'
  BY <1>1, <1>2, <1>4 DEF ServerInv, PlaceInv
<1>8. ValueInv'
  <2>1. /\ running_batch \in Seq(Seqs) /\ DOMAIN running_batch = 1 .. Len(running_batch)
        /\ logical_token_count \in [Seqs -> Nat]
    BY <1>1, DecodedOnce, AtRest
  <2>2. decode_tokens' \in Seq(Tokens)
    <3>1. \A i \in DOMAIN running_batch : next_token_to_process[running_batch[i]] \in Tokens
      BY <1>5 DEF ServerInv, ValueInv
    <3>. QED BY <1>1, <1>3, <2>1, <3>1
  <2>3. decode_positions' \in Seq(Nat)
    <3>1. \A i \in DOMAIN running_batch : logical_token_count[running_batch[i]] \in Nat
      BY <1>5, <2>1
    <3>. QED BY <1>1, <1>3, <2>1, <3>1
  <2>. QED BY <1>1, <2>2, <2>3 DEF ServerInv, ValueInv
<1>9. LengthInv'
  BY <1>1, <1>2, <1>4 DEF ServerInv, LengthInv
<1>10. DecodeInv'
  <2>1. /\ DOMAIN decode_tokens' = DOMAIN decode_reqs'
        /\ DOMAIN decode_positions' = DOMAIN decode_reqs'
    BY <1>1, <1>3
  <2>2. \A i \in DOMAIN running_batch :
            logical_token_count[running_batch[i]] = Base(running_batch[i])
    <3>1. \A r \in Alive : logical_token_count[r] = Base(r)
      <4>1. \A r \in Alive : logical_token_count[r] + 0 = Base(r)
        BY <1>4 DEF ServerInv, LengthInv
      <4>. QED BY <1>1, <4>1, AtRest DEF Alive
    <3>. QED BY <1>5, <3>1
  <2>. QED BY <1>1, <1>3, <1>4, <2>1, <2>2 DEF DecodeInv
<1>11. NextInv'
  BY <1>1 DEF ServerInv, NextInv, WholePromptHit
<1>. QED BY <1>6, <1>7, <1>8, <1>9, <1>10, <1>11

(* A step may admit nobody.                                                *)
LEMMA NoneServer ==
    ASSUME ServerInv, AdmitNone
    PROVE  /\ CallInv' /\ PlaceInv' /\ ValueInv'
           /\ LengthInv' /\ DecodeInv' /\ NextInv'
<1>. USE DEF requestVars, clientVars, listenVars, decodeVars
<1>1. /\ pc = "idle" /\ phase = "admit" /\ phase' = "prefill"
      /\ prefill_chunk' = <<>> /\ active_prefill_req' = {}
      /\ UNCHANGED <<memVars, waiting_queue, running_batch, decodeVars,
                     requestVars, clientVars, listenVars>>
  BY DEF AdmitNone
<1>2. UNCHANGED <<pc, todo, sealed, releasing, block_table, logical_token_count>>
  BY <1>1 DEF memVars, ctlVars, ghostVars, seqVars
<1>3. /\ Alive' = Alive /\ NextInLine' = NextInLine
      /\ \A q : Base(q)' = Base(q)
      /\ \A q : Left(q) = 0 /\ Goal(q) = Base(q)
      /\ \A q : Left(q)' = 0 /\ Goal(q)' = Base(q)'
  <2>1. \A q : Left(q)' = 0 /\ q \notin Sampled'
    BY <1>1 DEF Left, Sampled, Sampling
  <2>2. \A q : Goal(q)' = Base(q)'
    BY <2>1 DEF Goal
  <2>. QED BY <1>1, <2>1, <2>2, BasesUnchanged, NoPass DEF Alive, Passive, NextInLine
<1>4. CallInv'
  BY <1>1, <1>2, AtRest DEF ServerInv, CallInv
<1>5. PlaceInv'
  BY <1>1, <1>2, <1>3 DEF ServerInv, PlaceInv
<1>6. ValueInv'
  <2>1. <<>> \in Seq(Tokens)
    OBVIOUS
  <2>. QED BY <1>1, <2>1 DEF ServerInv, ValueInv
<1>7. LengthInv'
  BY <1>1, <1>2, <1>3 DEF ServerInv, LengthInv
<1>8. DecodeInv'
  BY <1>1, <1>3 DEF ServerInv, DecodeInv, Sampling
<1>9. NextInv'
  BY <1>1 DEF ServerInv, NextInv, WholePromptHit
<1>. QED BY <1>4, <1>5, <1>6, <1>7, <1>8, <1>9

(* Connections are closed; nobody's just_generated_new_token is ever set.  *)
LEMMA ReplyServer ==
    ASSUME ServerInv, Reply
    PROVE  /\ CallInv' /\ PlaceInv' /\ ValueInv'
           /\ LengthInv' /\ DecodeInv' /\ NextInv'
<1>. USE DEF requestVars, listenVars, stepVars, decodeVars
<1>. DEFINE new == {r \in ToSet(running_batch) : just_generated_new_token[r]}
<1>1. /\ pc = "idle" /\ phase = "reply" /\ phase' = "drain"
      /\ sent' = [r \in Seqs |-> IF r \in new
                                 THEN Append(sent[r], Last(generated_tokens[r]))
                                 ELSE sent[r]]
      /\ just_generated_new_token' =
             [r \in Seqs |-> just_generated_new_token[r] /\ r \notin new]
      /\ closes' = [r \in Seqs |->
                        IF r \in ToSet(running_batch) /\ is_finished[r]
                        THEN closes[r] + 1 ELSE closes[r]]
      /\ UNCHANGED <<memVars, waiting_queue, running_batch, stepVars,
                     requestVars, listenVars>>
  BY DEF Reply
<1>2. UNCHANGED <<pc, todo, sealed, releasing, block_table, logical_token_count>>
  BY <1>1 DEF memVars, ctlVars, ghostVars, seqVars
<1>3. new = {}
  BY DecodedOnce DEF ServerInv, ValueInv
<1>. HIDE DEF new
<1>4. /\ Alive' = Alive /\ \A q : Base(q)' = Base(q)
      /\ \A q : Left(q)' = 0 /\ Goal(q)' = Base(q)'
      /\ \A q : Left(q) = 0 /\ Goal(q) = Base(q)
      /\ NextInLine' = NextInLine
  BY <1>1, BasesUnchanged, NoPass DEF Alive, Passive, NextInLine
<1>5. CallInv'
  BY <1>1, <1>2, AtRest DEF ServerInv, CallInv, Sampling, Decoding
<1>6. PlaceInv'
  <2>1. \A r \in ToSet(running_batch) : r \in Seqs /\ closes[r] = 0
    <3>1. running_batch \in Seq(Seqs)
      BY DecodedOnce
    <3>. QED BY <1>1, <3>1 DEF ServerInv, BatchInv, SettledInv, Settled, ToSet
  <2>2. \A r \in ToSet(running_batch) : is_finished[r] => closes'[r] = 1
    BY <1>1, <2>1
  <2>3. \A r \in Seqs : r \notin ToSet(running_batch) => closes'[r] = closes[r]
    BY <1>1
  <2>. QED BY <1>1, <1>2, <1>4, <2>2, <2>3 DEF ServerInv, PlaceInv
<1>7. ValueInv'
  <2>1. just_generated_new_token' = [r \in Seqs |-> FALSE]
    BY <1>1 DEF ServerInv, ValueInv
  <2>2. sent' = sent
    BY <1>1, <1>3 DEF ServerInv, ValueInv
  <2>. QED BY <1>1, <2>1, <2>2 DEF ServerInv, ValueInv
<1>8. LengthInv'
  BY <1>1, <1>2, <1>4 DEF ServerInv, LengthInv
<1>9. DecodeInv'
  BY <1>1 DEF DecodeInv, Sampling
<1>10. NextInv'
  BY <1>1 DEF ServerInv, NextInv, WholePromptHit
<1>. QED BY <1>5, <1>6, <1>7, <1>8, <1>9, <1>10

(* A hit adds a block at a block boundary, so that a prompt that is found  *)
(* as a whole is a whole number of blocks.                                 *)
LEMMA HitServer ==
    ASSUME ServerInv, AdmitHit
    PROVE  /\ CallInv' /\ PlaceInv' /\ ValueInv'
           /\ LengthInv' /\ DecodeInv' /\ NextInv'
<1>. USE DEF stepVars, decodeVars, clientVars, listenVars
<1>0. PICK s \in Seqs : s = NextInLine
  BY NextInLineIs DEF AdmitHit, Admitting, ServerInv
<1>1. /\ phase = "admit" /\ waiting_queue # <<>>
      /\ CanHit(s) /\ PrefixHit(s, p_chunk(s))
      /\ prefill_idx' = [prefill_idx EXCEPT ![s] = @ + BlockSize]
      /\ UNCHANGED <<waiting_queue, running_batch, phase, stepVars,
                     is_prefill_done, is_finished, next_token_to_process,
                     generated_tokens, clientVars, listenVars>>
  BY <1>0 DEF AdmitHit, Admitting, Advance
<1>2. s \in Seqs /\ ~is_prefill_done[s] /\ NextInLine' = s
  BY <1>0, <1>1, NextInLineIs DEF ServerInv, NextInLine
<1>3. /\ prefill_idx \in [Seqs -> Nat] /\ prefill_idx[s] \in Nat
      /\ BlockSize \in Nat \ {0}
      /\ prefill_idx[s] + BlockSize <= Len(Prompt[s])
  BY <1>1, <1>2, PoolAssumption DEF ServerInv, OrderInv, PrefillInv, CanHit
<1>4. p_chunk(s) \in Chunks
  BY <1>2, <1>3, PromptChunk DEF p_chunk, Chunks
<1>5. /\ pc = "idle" /\ pc' = "idle" /\ token_buffer[s] = <<>> /\ s \notin releasing
      /\ UNCHANGED <<todo, releasing, sealed>>
      /\ logical_token_count' = [logical_token_count EXCEPT ![s] = @ + BlockSize]
      /\ \A r \in Seqs \ {s} : block_table'[r] = block_table[r]
  <2>1. block_table \in [Seqs -> Seq(Blocks)]
    BY DEF ServerInv, MemoryInv, TypeOK
  <2>2. PICK hit \in Blocks :
            /\ pc = "idle" /\ pc' = pc /\ releasing = {}
            /\ token_buffer[s] = <<>>
            /\ block_table' = [block_table EXCEPT ![s] = Append(@, hit)]
            /\ logical_token_count' = [logical_token_count EXCEPT ![s] = @ + BlockSize]
            /\ UNCHANGED <<todo, releasing, sealed>>
    BY <1>1, <1>2, <1>4, Shared DEF ServerInv
  <2>. QED BY <2>1, <2>2
<1>6. Alive' = Alive /\ s \in Alive
  BY <1>1, <1>2 DEF Alive
<1>7. \A r \in Seqs : Base(r)' = IF r = s THEN Base(r) + BlockSize ELSE Base(r)
  <2>1. ASSUME NEW r \in Seqs, r # s PROVE Base(r)' = Base(r)
    <3>1. prefill_idx'[r] = prefill_idx[r]
      BY <1>1, <1>3, <2>1
    <3>. QED BY <1>1, <3>1, <2>1 DEF Base, Age
  <2>2. Base(s)' = Base(s) + BlockSize
    BY <1>1, <1>2, <1>3 DEF Base
  <2>. QED BY <2>1, <2>2
<1>8. /\ \A q : Left(q)' = 0 /\ Goal(q)' = Base(q)'
      /\ \A q : Left(q) = 0 /\ Goal(q) = Base(q)
  BY <1>1, NoPass DEF Passive
<1>9. /\ logical_token_count \in [Seqs -> Nat]
      /\ \A r \in Alive : r \in Seqs /\ logical_token_count[r] = Base(r)
  <2>1. /\ \A r \in Alive : r \in Seqs /\ logical_token_count[r] + 0 = Base(r)
        /\ logical_token_count \in [Seqs -> Nat]
    BY <1>5, <1>8, AtRest DEF Alive
  <2>. QED BY <2>1
<1>10. CallInv'
  BY <1>1, <1>5, AtRest DEF ServerInv, CallInv, Sampling, Decoding
<1>11. PlaceInv'
  <2>1. \A r \in Seqs :
            block_table'[r] # <<>> =>
                \/ r \in ToSet(running_batch) \cup releasing
                \/ waiting_queue # <<>> /\ r = s
    BY <1>0, <1>1, <1>5 DEF ServerInv, PlaceInv
  <2>. QED BY <1>1, <1>2, <1>5, <2>1 DEF ServerInv, PlaceInv
<1>12. ValueInv'
  BY <1>1 DEF ServerInv, ValueInv
<1>13. LengthInv'
  <2>1. \A r \in Alive : logical_token_count'[r] = Base(r)'
    BY <1>5, <1>7, <1>9
  <2>2. \A r \in Alive : logical_token_count'[r] + 0 = Base(r)'
    <3>1. \A r \in Alive : logical_token_count'[r] \in Nat
      BY <1>3, <1>5, <1>9
    <3>. QED BY <2>1, <3>1
  <2>3. ASSUME prefill_idx'[s] = Len(Prompt[s]) PROVE Len(Prompt[s]) % BlockSize = 0
    <3>. DEFINE n == Len(block_table[s])
    <3>1. n \in Nat /\ logical_token_count[s] = BlockSize * n
      BY <1>2, <1>5, TableFacts DEF ServerInv, End
    <3>2. logical_token_count[s] = prefill_idx[s]
      BY <1>2, <1>6, <1>9 DEF Base
    <3>3. prefill_idx'[s] = prefill_idx[s] + BlockSize
      BY <1>1, <1>2, <1>3
    <3>. HIDE DEF n
    <3>4. Len(Prompt[s]) = BlockSize * (n + 1) + 0
      BY <1>3, <2>3, <3>1, <3>2, <3>3
    <3>5. n + 1 \in Int /\ 0 \in 0 .. BlockSize - 1
      BY <1>3, <3>1
    <3>. QED BY <1>3, <3>4, <3>5, Remainder
  <2>4. \A r \in Seqs : prefill_idx'[r] = Len(Prompt[r]) => Len(Prompt[r]) % BlockSize = 0
    <3>1. \A r \in Seqs \ {s} : prefill_idx'[r] = prefill_idx[r]
      BY <1>1, <1>3
    <3>. QED BY <2>3, <3>1 DEF ServerInv, LengthInv
  <2>. QED BY <1>6, <1>8, <2>2, <2>4 DEF LengthInv
<1>14. \A r \in ToSet(running_batch) : r \in Seqs /\ r # s
  BY <1>2, DecodedOnce
<1>15. DecodeInv'
  <2>1. \A q \in ToSet(decode_reqs) : Base(q)' = Base(q)
    BY <1>1, <1>7, <1>14, DecodedOnce
  <2>2. \A i \in DOMAIN decode_reqs : decode_reqs[i] \in ToSet(decode_reqs)
    BY DEF ToSet
  <2>. QED BY <1>1, <2>1, <2>2 DEF ServerInv, DecodeInv
<1>16. NextInv'
  <2>1. \A r \in ToSet(running_batch) : prefill_idx'[r] = prefill_idx[r]
    BY <1>1, <1>3, <1>14
  <2>. QED BY <1>1, <2>1 DEF ServerInv, NextInv, WholePromptHit
<1>. QED BY <1>10, <1>11, <1>12, <1>13, <1>15, <1>16

(* The next in line gets its chunk: it stays, or it joins the batch.       *)
LEMMA ChunkServer ==
    ASSUME ServerInv, AdmitChunk
    PROVE  /\ CallInv' /\ PlaceInv' /\ ValueInv'
           /\ LengthInv' /\ DecodeInv' /\ NextInv'
<1>. USE DEF decodeVars, clientVars, listenVars
<1>0. PICK s \in Seqs : s = NextInLine
  BY NextInLineIs DEF AdmitChunk, Admitting, ServerInv
<1>. DEFINE n == ChunkOf(s)
            remaining == Len(Prompt[s]) - prefill_idx[s]
<1>1. /\ pc = "idle" /\ Admitting /\ phase = "admit" /\ phase' = "prefill"
      /\ waiting_queue # <<>>
      /\ prefill_chunk' = SubSeq(Prompt[s], prefill_idx[s] + 1, prefill_idx[s] + n)
      /\ active_prefill_req' = IF n > 0 THEN {s} ELSE {}
      /\ UNCHANGED <<memVars, decodeVars, is_finished, next_token_to_process,
                     generated_tokens, clientVars, listenVars>>
      /\ IF n = remaining
         THEN /\ is_prefill_done' = [is_prefill_done EXCEPT ![s] = TRUE]
              /\ running_batch' = Append(running_batch, s)
              /\ waiting_queue' = Tail(waiting_queue)
              /\ prefill_idx' = prefill_idx
         ELSE /\ prefill_idx' = [prefill_idx EXCEPT ![s] = @ + n]
              /\ UNCHANGED <<is_prefill_done, running_batch, waiting_queue>>
  BY <1>0 DEF AdmitChunk, Admitting, ChunkOf, Promote, Advance
<1>2. UNCHANGED <<pc, todo, sealed, releasing, block_table, logical_token_count>>
  BY <1>1 DEF memVars, ctlVars, ghostVars, seqVars
<1>3. s \in Seqs /\ ~is_prefill_done[s] /\ waiting_queue # <<>>
  BY <1>0, <1>1, NextInLineIs DEF ServerInv
<1>4. /\ Len(Prompt[s]) \in Nat /\ prefill_idx[s] \in Nat /\ n \in Nat
      /\ prefill_idx[s] + n <= Len(Prompt[s])
      /\ n = 0 <=> prefill_idx[s] = Len(Prompt[s])
      /\ prefill_idx \in [Seqs -> Nat] /\ is_prefill_done \in [Seqs -> BOOLEAN]
  <2>1. OrderInv /\ ListsInv
    BY DEF ServerInv, BatchInv
  <2>. QED BY <1>0, <1>1, <2>1, ChunkFits DEF OrderInv, PrefillInv
<1>. HIDE DEF n
<1>5. /\ prefill_chunk' \in Seq(Tokens) /\ Len(prefill_chunk') = n
      /\ n > 0 => prefill_chunk' # <<>>
  <2>1. prefill_chunk' \in [1 .. n -> Tokens]
    BY <1>1, <1>3, <1>4, PromptChunk
  <2>2. prefill_chunk' \in Seq(Tokens) /\ Len(prefill_chunk') = n
    BY <1>4, <2>1
  <2>3. Len(<<>>) = 0
    OBVIOUS
  <2>. QED BY <1>4, <2>2, <2>3
<1>6. /\ running_batch \in Seq(Seqs) /\ IsInjective(running_batch)
      /\ waiting_queue \in Seq(Seqs)
      /\ \A r \in ToSet(running_batch) : r \in Seqs /\ is_prefill_done[r] /\ r # s
      /\ decode_reqs = running_batch
  BY <1>1, <1>3, DecodedOnce DEF ServerInv, PlaceInv, BatchInv, AdmitInv, OrderInv,
                                 QueueInv
<1>7. /\ todo = <<>> /\ releasing = {} /\ sealed = {}
      /\ logical_token_count \in [Seqs -> Nat]
      /\ \A r \in Seqs : Base(r) \in Int
      /\ \A r \in Alive : logical_token_count[r] = Base(r)
  <2>1. \A q : Left(q) = 0 /\ Goal(q) = Base(q)
    BY <1>1, NoPass DEF Passive
  <2>2. \A r \in Alive : r \in Seqs /\ logical_token_count[r] + 0 = Base(r)
    BY <1>1, <2>1, AtRest DEF Alive
  <2>. QED BY <1>1, <2>2, AtRest
<1>8. \A r \in Seqs \ {s} : /\ is_prefill_done'[r] = is_prefill_done[r]
                            /\ prefill_idx'[r] = prefill_idx[r]
                            /\ Base(r)' = Base(r)
  <2>1. ASSUME NEW r \in Seqs \ {s}
        PROVE  is_prefill_done'[r] = is_prefill_done[r] /\ prefill_idx'[r] = prefill_idx[r]
    BY <1>1, <1>4
  <2>. QED BY <1>1, <2>1 DEF Base, Age
<1>9. \A q : /\ q \in Sampled' <=> q \in active_prefill_req' /\ is_prefill_done'[q]
             /\ Left(q)' = IF q \in active_prefill_req' THEN n ELSE 0
             /\ Goal(q)' = IF q \in Sampled' THEN Base(q)' + 1 ELSE Base(q)'
  BY <1>1, <1>5 DEF Sampled, Left, Goal, Sampling
<1>10. logical_token_count[s] = prefill_idx[s]
  <2>1. s \in Alive /\ Base(s) = prefill_idx[s]
    BY <1>3 DEF Alive, Base
  <2>. QED BY <1>7, <2>1
<1>11. ASSUME n = remaining
       PROVE  /\ IsInjective(running_batch') /\ is_prefill_done'[s]
              /\ ToSet(running_batch') = ToSet(running_batch) \cup {s}
              /\ Len(running_batch') = Len(decode_reqs) + 1 /\ Newest' = s
              /\ ToSet(waiting_queue') \subseteq ToSet(waiting_queue)
              /\ Base(s)' = IF n > 0 THEN Len(Prompt[s]) - 1 ELSE Len(Prompt[s])
  <2>1. running_batch' = Append(running_batch, s) /\ waiting_queue' = Tail(waiting_queue)
    BY <1>1, <1>11
  <2>2. s \notin ToSet(running_batch)
    BY <1>6
  <2>3. /\ IsInjective(running_batch')
        /\ ToSet(running_batch') = ToSet(running_batch) \cup {s}
    BY <1>3, <1>6, <2>1, <2>2, AppendMember
  <2>4. /\ Len(running_batch') = Len(decode_reqs) + 1
        /\ running_batch'[Len(running_batch')] = s
    BY <1>3, <1>6, <2>1
  <2>5. ToSet(waiting_queue') \subseteq ToSet(waiting_queue)
    BY <1>3, <1>6, <2>1, TailMember DEF ToSet
  <2>6. is_prefill_done'[s]
    BY <1>1, <1>3, <1>4, <1>11
  <2>7. Base(s)' = IF n > 0 THEN Len(Prompt[s]) - 1 ELSE Len(Prompt[s])
    <3>1. generated_tokens'[s] = <<>> /\ Len(<<>>) = 0
      BY <1>1, <1>3 DEF ServerInv, BatchInv, RequestInv
    <3>2. Age'[s] = IF prefill_idx[s] = Len(Prompt[s]) THEN 0 ELSE 0 - 1
      BY <1>1, <1>3, <1>11, <3>1 DEF Age
    <3>3. Base(s)' = Len(Prompt[s]) + Age'[s]
      BY <2>6 DEF Base
    <3>4. n > 0 <=> prefill_idx[s] # Len(Prompt[s])
      BY <1>4
    <3>5. n > 0 => Base(s)' = Len(Prompt[s]) + (0 - 1)
      BY <3>2, <3>3, <3>4
    <3>6. ~(n > 0) => Base(s)' = Len(Prompt[s]) + 0
      BY <3>2, <3>3, <3>4
    <3>. QED BY <1>4, <3>5, <3>6
  <2>. QED BY <2>3, <2>4, <2>5, <2>6, <2>7 DEF Newest
<1>12. ASSUME n # remaining
       PROVE  /\ n > 0 /\ ~is_prefill_done'[s]
              /\ prefill_idx'[s] = prefill_idx[s] + n /\ prefill_idx'[s] # Len(Prompt[s])
              /\ Base(s)' = prefill_idx[s] + n
              /\ NextInLine' = s
              /\ UNCHANGED <<is_prefill_done, running_batch, waiting_queue>>
  <2>1. /\ prefill_idx' = [prefill_idx EXCEPT ![s] = @ + n]
        /\ UNCHANGED <<is_prefill_done, running_batch, waiting_queue>>
    BY <1>1, <1>12
  <2>2. prefill_idx'[s] = prefill_idx[s] + n
    BY <1>3, <1>4, <2>1
  <2>3. n > 0 /\ prefill_idx[s] + n # Len(Prompt[s])
    BY <1>4, <1>12
  <2>4. ~is_prefill_done'[s] /\ NextInLine' = s
    BY <1>0, <1>3, <2>1 DEF NextInLine
  <2>5. Base(s)' = prefill_idx[s] + n
    BY <2>2, <2>4 DEF Base
  <2>. QED BY <2>1, <2>2, <2>3, <2>4, <2>5
<1>13. CallInv'
  <2>1. \A r \in active_prefill_req' :
            /\ r \in Seqs /\ active_prefill_req' = {r}
            /\ is_prefill_done'[r] =>
                   Len(running_batch') = Len(decode_reqs') + 1 /\ r = Newest'
            /\ ~is_prefill_done'[r] => waiting_queue' # <<>> /\ r = NextInLine'
    BY <1>1, <1>3, <1>11, <1>12
  <2>2. phase' \notin {"reap", "sample", "sampleAll"} /\ pc' = "idle"
    BY <1>1, <1>2
  <2>. QED BY <1>2, <1>7, <2>1, <2>2 DEF CallInv
<1>14. PlaceInv'
  <2>1. IsInjective(running_batch') /\ ToSet(running_batch) \subseteq ToSet(running_batch')
    BY <1>6, <1>11, <1>12
  <2>2. \A r \in Seqs :
            is_prefill_done'[r] /\ r \notin ToSet(running_batch') => closes'[r] = 1
    <3>1. is_prefill_done'[s] => s \in ToSet(running_batch')
      BY <1>11, <1>12
    <3>. QED BY <1>1, <1>8, <2>1, <3>1 DEF ServerInv, PlaceInv
  <2>3. \A r \in Seqs :
            block_table[r] # <<>> =>
                \/ r \in ToSet(running_batch')
                \/ waiting_queue' # <<>> /\ r = NextInLine'
    <3>1. \A r \in Seqs : block_table[r] # <<>> => r \in ToSet(running_batch) \cup {s}
      BY <1>0, <1>7 DEF ServerInv, PlaceInv
    <3>. QED BY <1>3, <1>11, <1>12, <2>1, <3>1
  <2>4. phase' \notin {"drain", "reap"}
    BY <1>1
  <2>. QED BY <1>2, <1>7, <2>1, <2>2, <2>3, <2>4 DEF PlaceInv
<1>15. ValueInv'
  <2>1. s \in ToSet(waiting_queue)
    <3>1. 1 \in DOMAIN waiting_queue /\ Head(waiting_queue) = waiting_queue[1]
      BY <1>3, <1>6, EmptySeq
    <3>. QED BY <1>0, <3>1 DEF ToSet, NextInLine
  <2>2. ToSet(waiting_queue') \cup ToSet(running_batch')
            \subseteq ToSet(waiting_queue) \cup ToSet(running_batch)
    BY <1>11, <1>12, <2>1
  <2>3. active_prefill_req' # {} => prefill_chunk' # <<>>
    BY <1>1, <1>5
  <2>. QED BY <1>1, <1>5, <2>2, <2>3 DEF ServerInv, ValueInv
<1>16. LengthInv'
  <2>1. ASSUME NEW r \in Alive'
        PROVE  logical_token_count'[r] + Left(r)' = Goal(r)'
    <3>1. r \in Seqs
      BY <2>1 DEF Alive
    <3>2. CASE r # s
      <4>1. r \in Alive
        BY <1>8, <1>11, <1>12, <2>1, <3>1, <3>2 DEF Alive
      <4>2. r \notin active_prefill_req' /\ Base(r)' = Base(r)
        BY <1>1, <1>8, <3>1, <3>2
      <4>. QED BY <1>2, <1>7, <1>9, <3>1, <4>1, <4>2
    <3>3. CASE r = s /\ n = remaining
      <4>1. n > 0 => s \in active_prefill_req'
        BY <1>1
      <4>2. ~(n > 0) => s \notin active_prefill_req'
        BY <1>1
      <4>3. logical_token_count'[s] = prefill_idx[s]
        BY <1>2, <1>10
      <4>4. n > 0 => Left(s)' = n /\ Goal(s)' = Len(Prompt[s])
        BY <1>4, <1>9, <1>11, <3>3, <4>1
      <4>5. ~(n > 0) => Left(s)' = 0 /\ Goal(s)' = Len(Prompt[s]) /\ n = 0
        BY <1>4, <1>9, <1>11, <3>3, <4>2
      <4>. QED BY <1>4, <3>3, <4>3, <4>4, <4>5
    <3>4. CASE r = s /\ n # remaining
      <4>1. s \in active_prefill_req' /\ s \notin Sampled'
        BY <1>1, <1>9, <1>12, <3>4
      <4>. QED BY <1>2, <1>9, <1>10, <1>12, <3>4, <4>1
    <3>. QED BY <3>2, <3>3, <3>4
  <2>2. \A r \in Seqs : prefill_idx'[r] = Len(Prompt[r]) => Len(Prompt[r]) % BlockSize = 0
    <3>1. prefill_idx'[s] = Len(Prompt[s]) => prefill_idx[s] = Len(Prompt[s])
      BY <1>1, <1>12
    <3>. QED BY <1>8, <3>1 DEF ServerInv, LengthInv
  <2>. QED BY <2>1, <2>2 DEF LengthInv
<1>17. DecodeInv'
  <2>1. \A i \in DOMAIN decode_reqs : decode_reqs[i] \in Seqs \ {s}
    BY <1>6 DEF ToSet
  <2>. QED BY <1>1, <1>8, <2>1 DEF ServerInv, DecodeInv
<1>18. NextInv'
  <2>1. \A r \in ToSet(running_batch) : prefill_idx'[r] = prefill_idx[r]
    BY <1>6, <1>8
  <2>2. n = remaining => generated_tokens[s] = <<>>
    BY <1>3 DEF ServerInv, BatchInv, RequestInv
  <2>3. \A r \in ToSet(running_batch') :
            r \in ToSet(running_batch) \/ generated_tokens[r] = <<>>
    BY <1>11, <1>12, <2>2
  <2>. QED BY <1>1, <2>1, <2>3 DEF ServerInv, NextInv, WholePromptHit
<1>. QED BY <1>13, <1>14, <1>15, <1>16, <1>17, <1>18

\* The prefill pass places what was left to place.
LEMMA PrefillServer ==
    ASSUME ServerInv, Prefill
    PROVE  /\ CallInv' /\ PlaceInv' /\ ValueInv'
           /\ LengthInv' /\ DecodeInv' /\ NextInv'
<1>. USE DEF stepVars, decodeVars, requestVars, clientVars, listenVars
<1>0. PICK s \in active_prefill_req : ForwardPrefillChunk(s, prefill_chunk)
  BY DEF Prefill
<1>1. /\ phase = "prefill" /\ phase' = "sample"
      /\ UNCHANGED <<waiting_queue, running_batch, stepVars, requestVars,
                     clientVars, listenVars>>
  BY DEF Prefill
<1>2. /\ pc = "idle" /\ pc' = "append"
      /\ todo' = [i \in DOMAIN prefill_chunk |-> [seq |-> s, tok |-> prefill_chunk[i]]]
      /\ UNCHANGED <<sealed, releasing, block_table, logical_token_count>>
  BY <1>0 DEF ForwardPrefillChunk, StartForward, seqVars, ghostVars
<1>3. /\ active_prefill_req = {s} /\ s \in Seqs
      /\ prefill_chunk \in Seq(Tokens)
  BY <1>0, <1>1 DEF ServerInv, CallInv, ValueInv, Sampling
<1>4. /\ Len(todo') = Len(prefill_chunk)
      /\ \A i \in DOMAIN todo' : todo'[i].seq = s
  BY <1>2, <1>3
<1>5. /\ NextInLine' = NextInLine /\ Newest' = Newest /\ Alive' = Alive
      /\ Sampled' = Sampled /\ \A q : Base(q)' = Base(q) /\ Left(q)' = Left(q)
  <2>1. Sampled' = Sampled
    BY <1>1 DEF Sampled, Sampling
  <2>2. \A q : Left(q)' = Left(q)
    BY <1>1, <1>4 DEF Left
  <2>. QED BY <1>1, <2>1, <2>2, BasesUnchanged DEF NextInLine, Newest, Alive
<1>6. \A q : Goal(q)' = Goal(q)
  BY <1>5 DEF Goal
<1>7. CallInv'
  BY <1>1, <1>2, <1>3, <1>4, <1>5, AtRest DEF ServerInv, CallInv, Sampling, Decoding
<1>8. PlaceInv'
  BY <1>1, <1>2, <1>5 DEF ServerInv, PlaceInv
<1>9. ValueInv'
  BY <1>1 DEF ServerInv, ValueInv
<1>10. LengthInv'
  BY <1>1, <1>2, <1>5, <1>6 DEF ServerInv, LengthInv
<1>11. DecodeInv'
  BY <1>1, <1>5 DEF ServerInv, DecodeInv, Sampling
<1>12. NextInv'
  BY <1>1 DEF ServerInv, NextInv, WholePromptHit
<1>. QED BY <1>7, <1>8, <1>9, <1>10, <1>11, <1>12

\* ... and the decode pass one token of each of its requests.
LEMMA DecodeServer ==
    ASSUME ServerInv, Decode
    PROVE  /\ CallInv' /\ PlaceInv' /\ ValueInv'
           /\ LengthInv' /\ DecodeInv' /\ NextInv'
<1>. USE DEF stepVars, decodeVars, requestVars, clientVars, listenVars
<1>1. /\ phase = "decode" /\ phase' = "sampleAll"
      /\ UNCHANGED <<waiting_queue, running_batch, stepVars, requestVars,
                     clientVars, listenVars>>
  BY DEF Decode
<1>2. /\ pc = "idle" /\ pc' = "append"
      /\ todo' = [i \in DOMAIN decode_reqs |->
                     [seq |-> decode_reqs[i], tok |-> decode_tokens[i]]]
      /\ UNCHANGED <<sealed, releasing, block_table, logical_token_count>>
  BY DEF Decode, ForwardDecodeBatch, StartForward, seqVars, ghostVars
<1>3. /\ IsInjective(decode_reqs) /\ DOMAIN todo' = DOMAIN decode_reqs
      /\ \A i \in DOMAIN decode_reqs : todo'[i].seq = decode_reqs[i]
      /\ \A r \in ToSet(decode_reqs) : r \in Seqs
  BY <1>1, <1>2, DecodedOnce DEF Decoding
<1>4. /\ NextInLine' = NextInLine /\ Newest' = Newest /\ Alive' = Alive
      /\ \A q : Base(q)' = Base(q)
      /\ \A q : Left(q) = 0 /\ Goal(q) = Base(q)
  BY <1>1, BasesUnchanged, NoPass DEF NextInLine, Newest, Alive, Passive
<1>5. /\ Sampled' = ToSet(decode_reqs)
      /\ \A q : Left(q)' = IF q \in ToSet(decode_reqs) THEN 1 ELSE 0
  <2>1. Sampled' = ToSet(decode_reqs)
    BY <1>1 DEF Sampled, Sampling
  <2>2. \A q : (\E i \in DOMAIN todo' : todo'[i].seq = q) <=> q \in ToSet(decode_reqs)
    BY <1>3 DEF ToSet
  <2>. QED BY <1>1, <2>1, <2>2 DEF Left
<1>6. \A q : Goal(q)' = IF q \in ToSet(decode_reqs) THEN Base(q) + 1 ELSE Base(q)
  BY <1>4, <1>5 DEF Goal
<1>7. CallInv'
  <2>1. \A i \in DOMAIN todo' : todo'[i].seq \in ToSet(decode_reqs)
    BY <1>3 DEF ToSet
  <2>2. \A i, j \in DOMAIN todo' : todo'[i].seq = todo'[j].seq => i = j
    BY <1>3 DEF IsInjective
  <2>. QED BY <1>1, <1>2, <1>4, <2>1, <2>2, AtRest
           DEF ServerInv, CallInv, Sampling, Decoding
<1>8. PlaceInv'
  BY <1>1, <1>2, <1>4 DEF ServerInv, PlaceInv
<1>9. ValueInv'
  BY <1>1 DEF ServerInv, ValueInv
<1>10. LengthInv'
  <2>1. ASSUME NEW r \in Alive PROVE logical_token_count[r] + Left(r)' = Goal(r)'
    <3>1. /\ logical_token_count[r] + 0 = Base(r) /\ logical_token_count[r] \in Nat
          /\ r \in Seqs
      BY <1>2, <1>4, <2>1, AtRest DEF Alive
    <3>. QED BY <1>5, <1>6, <3>1
  <2>. QED BY <1>1, <1>2, <1>4, <2>1 DEF ServerInv, LengthInv
<1>11. DecodeInv'
  BY <1>1 DEF DecodeInv, Sampling
<1>12. NextInv'
  BY <1>1 DEF ServerInv, NextInv, WholePromptHit
<1>. QED BY <1>7, <1>8, <1>9, <1>10, <1>11, <1>12

\* What Generate appends, and what it makes of the count of tokens to place.
LEMMA GenerateValues ==
    ASSUME ServerInv, ModelChooses, NEW R, Generate(R),
           \A r \in R : is_prefill_done[r],
           UNCHANGED <<prefill_idx, is_prefill_done>>
    PROVE  /\ next_token_to_process' \in [Seqs -> Tokens \cup {NoToken}]
           /\ generated_tokens' \in [Seqs -> Seq(Tokens)]
           /\ \A r \in Seqs : r \in R =>
                  /\ next_token_to_process'[r] \in Tokens
                  /\ generated_tokens'[r] # <<>>
                  /\ next_token_to_process'[r] = Last(generated_tokens'[r])
                  /\ Base(r)' = Base(r) + 1
           /\ \A r \in Seqs : r \notin R =>
                  /\ next_token_to_process'[r] = next_token_to_process[r]
                  /\ generated_tokens'[r] = generated_tokens[r]
                  /\ Base(r)' = Base(r)
<1>. DEFINE next(r) == argmax(TextRead(r))
<1>1. /\ next_token_to_process' =
             [r \in Seqs |-> IF r \in R THEN next(r) ELSE next_token_to_process[r]]
      /\ generated_tokens' =
             [r \in Seqs |-> IF r \in R THEN Append(generated_tokens[r], next(r))
                                        ELSE generated_tokens[r]]
      /\ \A r : next(r) \in Tokens
  BY DEF Generate, ModelChooses
<1>. HIDE DEF next
<1>2. /\ generated_tokens \in [Seqs -> Seq(Tokens)]
      /\ next_token_to_process \in [Seqs -> Tokens \cup {NoToken}]
  BY DEF ServerInv, ValueInv
<1>3. \A r \in Seqs :
          /\ Append(generated_tokens[r], next(r)) \in Seq(Tokens)
          /\ Append(generated_tokens[r], next(r)) # <<>>
          /\ Last(Append(generated_tokens[r], next(r))) = next(r)
          /\ Len(Append(generated_tokens[r], next(r))) = Len(generated_tokens[r]) + 1
          /\ Len(generated_tokens[r]) \in Nat
  <2>. TAKE r \in Seqs
  <2>1. generated_tokens[r] \in Seq(Tokens) /\ next(r) \in Tokens
    BY <1>1, <1>2
  <2>2. /\ Append(generated_tokens[r], next(r)) \in Seq(Tokens)
        /\ Len(Append(generated_tokens[r], next(r))) = Len(generated_tokens[r]) + 1
        /\ Append(generated_tokens[r], next(r))[Len(generated_tokens[r]) + 1] = next(r)
        /\ Len(generated_tokens[r]) \in Nat
    BY <2>1
  <2>3. Append(generated_tokens[r], next(r)) # <<>>
    BY <2>2, EmptySeq
  <2>. QED BY <2>2, <2>3 DEF Last
<1>4. \A r \in Seqs :
          /\ Age[r] \in Int /\ Base(r) \in Int /\ Len(Prompt[r]) \in Nat
          /\ Age[r] = IF prefill_idx[r] = Len(Prompt[r]) THEN Len(generated_tokens[r])
                      ELSE Len(generated_tokens[r]) - 1
          /\ Age'[r] = IF prefill_idx[r] = Len(Prompt[r]) THEN Len(generated_tokens'[r])
                       ELSE Len(generated_tokens'[r]) - 1
  <2>1. \A r \in Seqs : Len(Prompt[r]) \in Nat
    BY SchedulerAssumption
  <2>2. \A r \in Seqs : Age[r] \in Int
    BY AgeType DEF ServerInv, BatchInv
  <2>3. \A r \in Seqs : Base(r) \in Int
    BY <2>1, <2>2 DEF ServerInv, OrderInv, PrefillInv, Base
  <2>. QED BY <2>1, <2>2, <2>3 DEF Age
<1>5. ASSUME NEW r \in Seqs, r \in R
      PROVE  /\ next_token_to_process'[r] \in Tokens
             /\ generated_tokens'[r] # <<>>
             /\ next_token_to_process'[r] = Last(generated_tokens'[r])
             /\ Base(r)' = Base(r) + 1
  <2>1. /\ next_token_to_process'[r] = next(r)
        /\ generated_tokens'[r] = Append(generated_tokens[r], next(r))
    BY <1>1, <1>5
  <2>2. Age'[r] = Age[r] + 1
    BY <1>3, <1>4, <2>1
  <2>3. Base(r) = Len(Prompt[r]) + Age[r] /\ Base(r)' = Len(Prompt[r]) + Age'[r]
    BY <1>5 DEF Base
  <2>. QED BY <1>1, <1>3, <1>4, <2>1, <2>2, <2>3
<1>6. ASSUME NEW r \in Seqs, r \notin R
      PROVE  /\ next_token_to_process'[r] = next_token_to_process[r]
             /\ generated_tokens'[r] = generated_tokens[r]
             /\ Base(r)' = Base(r)
  <2>1. /\ next_token_to_process'[r] = next_token_to_process[r]
        /\ generated_tokens'[r] = generated_tokens[r]
    BY <1>1, <1>6
  <2>2. Age'[r] = Age[r]
    BY <1>4, <2>1
  <2>. QED BY <2>1, <2>2 DEF Base
<1>7. next_token_to_process' \in [Seqs -> Tokens \cup {NoToken}]
  BY <1>1, <1>2
<1>8. generated_tokens' \in [Seqs -> Seq(Tokens)]
  BY <1>1, <1>2, <1>3
<1>. QED BY <1>5, <1>6, <1>7, <1>8

\* The first token of an answer is not that of a request being decoded.
LEMMA FirstServer ==
    ASSUME ServerInv, ModelChooses, SampleFirst
    PROVE  /\ CallInv' /\ PlaceInv' /\ ValueInv'
           /\ LengthInv' /\ DecodeInv' /\ NextInv'
<1>. USE DEF stepVars, decodeVars, clientVars, listenVars
<1>. DEFINE R == {r \in active_prefill_req : is_prefill_done[r]}
<1>1. /\ pc = "idle" /\ phase \in Sampling /\ phase' = "decode"
      /\ phase = "prefill" => active_prefill_req = {}
      /\ Generate(R)
      /\ UNCHANGED <<memVars, waiting_queue, running_batch, stepVars,
                     prefill_idx, is_prefill_done, is_finished, clientVars,
                     listenVars>>
  BY DEF SampleFirst, Sampling
<1>2. UNCHANGED <<pc, todo, sealed, releasing, block_table, logical_token_count>>
  BY <1>1 DEF memVars, ctlVars, ghostVars, seqVars
<1>3. /\ next_token_to_process' \in [Seqs -> Tokens \cup {NoToken}]
      /\ generated_tokens' \in [Seqs -> Seq(Tokens)]
      /\ \A r \in Seqs : r \in R =>
             /\ next_token_to_process'[r] \in Tokens
             /\ next_token_to_process'[r] = Last(generated_tokens'[r])
             /\ Base(r)' = Base(r) + 1
      /\ \A r \in Seqs : r \notin R =>
             /\ next_token_to_process'[r] = next_token_to_process[r]
             /\ generated_tokens'[r] = generated_tokens[r]
             /\ Base(r)' = Base(r)
  <2>1. \A r \in R : is_prefill_done[r]
    OBVIOUS
  <2>. HIDE DEF R
  <2>. QED BY <1>1, <2>1, GenerateValues
<1>4. Sampled = R
  BY <1>1 DEF Sampled, Sampling
<1>. HIDE DEF R
<1>5. /\ NextInLine' = NextInLine /\ Newest' = Newest /\ Alive' = Alive
      /\ \A q : Left(q)' = 0 /\ Goal(q)' = Base(q)'
      /\ \A q : Left(q) = 0
      /\ \A q : Goal(q) = IF q \in R THEN Base(q) + 1 ELSE Base(q)
  <2>1. \A q : Left(q) = 0
    <3>1. Len(<<>>) = 0 /\ todo = <<>>
      BY <1>1, AtRest
    <3>. QED BY <1>1, <3>1 DEF Left
  <2>2. \A q : Goal(q) = IF q \in R THEN Base(q) + 1 ELSE Base(q)
    BY <1>4 DEF Goal
  <2>. QED BY <1>1, <2>1, <2>2, NoPass DEF NextInLine, Newest, Alive, Passive
<1>6. \A r \in ToSet(decode_reqs) : r \in Seqs /\ r \notin R
  <2>1. ASSUME NEW r \in R PROVE r \notin ToSet(decode_reqs)
    <3>1. /\ Len(running_batch) = Len(decode_reqs) + 1 /\ r = Newest
      BY <1>1, <2>1 DEF ServerInv, CallInv, R
    <3>. QED BY <1>1, <3>1 DEF ServerInv, BatchInv, StepInv
  <2>. QED BY <2>1, DecodedOnce
<1>7. CallInv'
  <2>1. phase \in Sampling \cup Decoding
    BY <1>1
  <2>2. phase' \notin {"reap", "sample", "sampleAll"} /\ pc' = "idle"
    BY <1>1, <1>2
  <2>. QED BY <1>1, <1>2, <1>5, <2>1, <2>2, AtRest DEF ServerInv, CallInv
<1>8. PlaceInv'
  BY <1>1, <1>2, <1>5 DEF ServerInv, PlaceInv
<1>9. ValueInv'
  <2>1. \A r \in ToSet(waiting_queue) \cup ToSet(running_batch) :
            r \in Seqs /\ next_token_to_process'[r] \in Tokens
    <3>1. \A r \in ToSet(waiting_queue) : r \in Seqs
      BY DEF ServerInv, OrderInv, QueueInv, ToSet
    <3>. QED BY <1>3, <3>1, DecodedOnce DEF ServerInv, ValueInv
  <2>. QED BY <1>1, <1>3, <2>1 DEF ServerInv, ValueInv
<1>10. LengthInv'
  <2>1. ASSUME NEW r \in Alive PROVE logical_token_count[r] + Left(r)' = Goal(r)'
    <3>1. r \in Seqs /\ logical_token_count[r] + 0 = Goal(r)
      BY <1>1, <1>5, <2>1, AtRest DEF Alive
    <3>. QED BY <1>3, <1>5, <3>1
  <2>. QED BY <1>1, <1>2, <1>5, <2>1 DEF ServerInv, LengthInv
<1>11. DecodeInv'
  <2>1. \A q \in ToSet(decode_reqs) :
            Base(q)' = Base(q) /\ next_token_to_process'[q] = next_token_to_process[q]
    BY <1>3, <1>6
  <2>2. \A i \in DOMAIN decode_reqs : decode_reqs[i] \in ToSet(decode_reqs)
    BY DEF ToSet
  <2>. QED BY <1>1, <2>1, <2>2 DEF ServerInv, DecodeInv
<1>12. NextInv'
  <2>1. \A r \in ToSet(running_batch) : r \in Seqs
    BY DecodedOnce
  <2>. QED BY <1>1, <1>3, <2>1 DEF ServerInv, NextInv, WholePromptHit
<1>. QED BY <1>7, <1>8, <1>9, <1>10, <1>11, <1>12

(* Sampling after a decode gives every request of the batch one token.     *)
LEMMA AllServer ==
    ASSUME ServerInv, ModelChooses, SampleAll
    PROVE  /\ CallInv' /\ PlaceInv' /\ ValueInv'
           /\ LengthInv' /\ DecodeInv' /\ NextInv'
<1>. USE DEF stepVars, decodeVars, clientVars, listenVars
<1>. DEFINE R == ToSet(decode_reqs)
<1>1. /\ pc = "idle" /\ phase \in Decoding /\ phase' = "reply"
      /\ phase = "decode" => decode_reqs = <<>>
      /\ Generate(R)
      /\ UNCHANGED <<memVars, waiting_queue, running_batch, stepVars,
                     prefill_idx, is_prefill_done, clientVars, listenVars>>
  BY DEF SampleAll, Decoding
<1>2. UNCHANGED <<pc, todo, sealed, releasing, block_table, logical_token_count>>
  BY <1>1 DEF memVars, ctlVars, ghostVars, seqVars
<1>3. /\ next_token_to_process' \in [Seqs -> Tokens \cup {NoToken}]
      /\ generated_tokens' \in [Seqs -> Seq(Tokens)]
      /\ \A r \in Seqs : r \in R =>
             /\ next_token_to_process'[r] \in Tokens
             /\ next_token_to_process'[r] = Last(generated_tokens'[r])
             /\ Base(r)' = Base(r) + 1
      /\ \A r \in Seqs : r \notin R =>
             /\ next_token_to_process'[r] = next_token_to_process[r]
             /\ generated_tokens'[r] = generated_tokens[r]
             /\ Base(r)' = Base(r)
  <2>1. \A r \in R : is_prefill_done[r]
    BY <1>1, DecodedOnce
  <2>. HIDE DEF R
  <2>. QED BY <1>1, <2>1, GenerateValues
<1>4. Sampled = R
  <2>1. phase = "decode" => R = {}
    BY <1>1 DEF ToSet
  <2>. QED BY <1>1, <2>1 DEF Sampled, Decoding, Sampling
<1>. HIDE DEF R
<1>5. /\ NextInLine' = NextInLine /\ Alive' = Alive
      /\ \A q : Left(q)' = 0 /\ Goal(q)' = Base(q)'
      /\ \A q : Left(q) = 0
      /\ \A q : Goal(q) = IF q \in R THEN Base(q) + 1 ELSE Base(q)
  <2>1. \A q : Left(q) = 0
    BY <1>1, AtRest DEF Decoding
  <2>2. \A q : Goal(q) = IF q \in R THEN Base(q) + 1 ELSE Base(q)
    BY <1>4 DEF Goal
  <2>. QED BY <1>1, <2>1, <2>2, NoPass DEF NextInLine, Alive, Passive
<1>7. CallInv'
  BY <1>1, <1>2, AtRest DEF ServerInv, CallInv, Sampling, Decoding
<1>8. PlaceInv'
  BY <1>1, <1>2, <1>5 DEF ServerInv, PlaceInv
<1>9. ValueInv'
  <2>1. \A r \in ToSet(waiting_queue) \cup ToSet(running_batch) :
            r \in Seqs /\ next_token_to_process'[r] \in Tokens
    <3>1. \A r \in ToSet(waiting_queue) : r \in Seqs
      BY DEF ServerInv, OrderInv, QueueInv, ToSet
    <3>. QED BY <1>3, <3>1, DecodedOnce DEF ServerInv, ValueInv
  <2>. QED BY <1>1, <1>3, <2>1 DEF ServerInv, ValueInv
<1>10. LengthInv'
  <2>1. ASSUME NEW r \in Alive PROVE logical_token_count[r] + Left(r)' = Goal(r)'
    <3>1. r \in Seqs /\ logical_token_count[r] + 0 = Goal(r)
      BY <1>1, <1>5, <2>1, AtRest DEF Alive
    <3>. QED BY <1>3, <1>5, <3>1
  <2>. QED BY <1>1, <1>2, <1>5, <2>1 DEF ServerInv, LengthInv
<1>11. DecodeInv'
  BY <1>1 DEF DecodeInv, Sampling
<1>12. NextInv'
  <2>1. \A r \in ToSet(running_batch) : r \in Seqs
    BY DecodedOnce
  <2>. QED BY <1>1, <1>3, <2>1 DEF ServerInv, NextInv, WholePromptHit
<1>. QED BY <1>7, <1>8, <1>9, <1>10, <1>11, <1>12

\* The invariant of the whole server is inductive.
LEMMA ServerStep ==
    ASSUME ServerInv, ModelChooses, [ServerNext]_serverVars
    PROVE  ServerInv'
<1>1. OrderInv' /\ BatchInv' /\ MemoryInv' /\ ShareInv'
  BY OrderStep, BatchStep, ServerMemoryKept DEF ServerInv, BatchInv
<1>2. ASSUME UNCHANGED serverVars
      PROVE  /\ CallInv' /\ PlaceInv' /\ ValueInv'
             /\ LengthInv' /\ DecodeInv' /\ NextInv'
  <2>1. UNCHANGED schedVars /\ UNCHANGED <<pc, todo, sealed, releasing, block_table,
                                           logical_token_count>>
    BY <1>2 DEF serverVars, memVars, ctlVars, ghostVars, seqVars
  <2>2. /\ Newest' = Newest /\ NextInLine' = NextInLine
        /\ UNCHANGED <<phase, active_prefill_req, running_batch, decode_reqs,
                       waiting_queue, is_prefill_done, closes, is_finished,
                       prefill_chunk, prefill_idx>>
    BY <2>1 DEF schedVars, stepVars, decodeVars, requestVars, clientVars, Newest,
                NextInLine
  <2>3. CallInv'
    BY <2>1, <2>2 DEF ServerInv, CallInv
  <2>4. PlaceInv'
    BY <2>1, <2>2 DEF ServerInv, PlaceInv
  <2>5. \A r : Left(r)' = Left(r)
    BY <2>1, <2>2 DEF Left
  <2>6. LengthInv'
    BY <2>1, <2>2, <2>5, SchedulerFrame DEF ServerInv, LengthInv
  <2>7. ValueInv' /\ DecodeInv' /\ NextInv'
    BY <2>1, SchedulerFrame DEF ServerInv
  <2>. QED BY <2>3, <2>4, <2>6, <2>7
<1>3. ASSUME ServerNext
      PROVE  /\ CallInv' /\ PlaceInv' /\ ValueInv'
             /\ LengthInv' /\ DecodeInv' /\ NextInv'
  BY <1>3, ReceiveServer, DrainServer, ReapServer, CollectServer, HitServer,
     ChunkServer, NoneServer, PrefillServer, FirstServer, DecodeServer, AllServer,
     ReplyServer, CallServer
     DEF ServerNext, EngineStep, ListenerStep
<1>. QED BY <1>1, <1>2, <1>3 DEF ServerInv

-----------------------------------------------------------------------------
\* Two lists without a common member, one after the other.
LEMMA ConcatOnce ==
    ASSUME NEW S, NEW s \in Seq(S), NEW t \in Seq(S),
           IsInjective(s), IsInjective(t), ToSet(s) \cap ToSet(t) = {}
    PROVE  /\ s \o t \in Seq(S) /\ IsInjective(s \o t)
           /\ ToSet(s \o t) = ToSet(s) \cup ToSet(t)
<1>. DEFINE u == s \o t
<1>1. /\ u \in Seq(S) /\ Len(u) = Len(s) + Len(t)
      /\ Len(s) \in Nat /\ Len(t) \in Nat
      /\ DOMAIN u = 1 .. Len(u) /\ DOMAIN s = 1 .. Len(s) /\ DOMAIN t = 1 .. Len(t)
      /\ \A i \in 1 .. Len(s) + Len(t) :
             u[i] = IF i <= Len(s) THEN s[i] ELSE t[i - Len(s)]
  BY ConcatProperties
<1>. HIDE DEF u
<1>2. ASSUME NEW i \in DOMAIN u
      PROVE  /\ i <= Len(s) => i \in DOMAIN s /\ u[i] = s[i] /\ u[i] \in ToSet(s)
             /\ ~(i <= Len(s)) => /\ i - Len(s) \in DOMAIN t /\ u[i] = t[i - Len(s)]
                                  /\ u[i] \in ToSet(t)
  <2>1. i <= Len(s) => i \in DOMAIN s /\ u[i] = s[i]
    BY <1>1
  <2>2. ~(i <= Len(s)) => i - Len(s) \in DOMAIN t /\ u[i] = t[i - Len(s)]
    BY <1>1
  <2>. QED BY <2>1, <2>2 DEF ToSet
<1>3. IsInjective(u)
  <2>. SUFFICES ASSUME NEW i \in DOMAIN u, NEW j \in DOMAIN u, u[i] = u[j] PROVE i = j
    BY DEF IsInjective
  <2>1. i \in Nat /\ j \in Nat
    BY <1>1
  <2>2. i <= Len(s) <=> j <= Len(s)
    BY <1>2
  <2>3. i <= Len(s) => i = j
    BY <1>2, <2>2 DEF IsInjective
  <2>4. ~(i <= Len(s)) => i - Len(s) = j - Len(s)
    BY <1>2, <2>2 DEF IsInjective
  <2>. QED BY <1>1, <2>1, <2>3, <2>4
<1>4. ToSet(u) = ToSet(s) \cup ToSet(t)
  <2>1. ToSet(u) \subseteq ToSet(s) \cup ToSet(t)
    BY <1>2 DEF ToSet
  <2>2. \A i \in DOMAIN s : i \in DOMAIN u /\ u[i] = s[i]
    BY <1>1
  <2>3. \A j \in DOMAIN t : Len(s) + j \in DOMAIN u /\ u[Len(s) + j] = t[j]
    <3>. TAKE j \in DOMAIN t
    <3>1. /\ Len(s) + j \in 1 .. Len(s) + Len(t) /\ ~(Len(s) + j <= Len(s))
          /\ (Len(s) + j) - Len(s) = j
      BY <1>1
    <3>. QED BY <1>1, <3>1
  <2>4. ToSet(s) \subseteq ToSet(u)
    BY <2>2 DEF ToSet
  <2>5. ToSet(t) \subseteq ToSet(u)
    BY <2>3 DEF ToSet
  <2>. QED BY <2>1, <2>4, <2>5
<1>. QED BY <1>1, <1>3, <1>4 DEF u

\* Where the requests of the two queues stand in the order of arrival.
LEMMA QueuedOnce ==
    ASSUME OrderInv
    PROVE  /\ IsInjective(waiting_queue) /\ IsInjective(incoming_requests)
           /\ ToSet(incoming_requests) \cap ToSet(waiting_queue) = {}
           /\ \A r \in ToSet(incoming_requests) \cup ToSet(waiting_queue) :
                  r \in ToSet(arrived) /\ r \in Seqs /\ ~is_prefill_done[r]
           /\ \A r \in ToSet(arrived) :
                  \/ is_prefill_done[r]
                  \/ r \in ToSet(incoming_requests) \cup ToSet(waiting_queue)
           /\ \A r \in Seqs : is_prefill_done[r] => r \in ToSet(arrived)
<1>. DEFINE w == Len(waiting_queue)
            n == Len(incoming_requests)
<1>1. /\ arrived \in Seq(Seqs) /\ IsInjective(arrived)
      /\ waiting_queue \in Seq(Seqs) /\ incoming_requests \in Seq(Seqs)
      /\ Through \in Nat /\ w \in Nat /\ n \in Nat
      /\ Len(arrived) = Through + w + n
      /\ DOMAIN waiting_queue = 1 .. w /\ DOMAIN incoming_requests = 1 .. n
      /\ DOMAIN arrived = 1 .. Len(arrived)
  BY DEF OrderInv, QueueInv, Through
<1>2. \A i \in 1 .. w : /\ Through + i \in 1 .. Len(arrived)
                        /\ waiting_queue[i] = arrived[Through + i]
  BY <1>1 DEF OrderInv, QueueInv
<1>3. \A i \in 1 .. n : /\ Through + w + i \in 1 .. Len(arrived)
                        /\ incoming_requests[i] = arrived[Through + w + i]
  BY <1>1 DEF OrderInv, QueueInv
<1>. HIDE DEF w, n
<1>4. \A i, j \in 1 .. Len(arrived) : arrived[i] = arrived[j] => i = j
  BY <1>1 DEF IsInjective
<1>5. IsInjective(waiting_queue)
  <2>. SUFFICES ASSUME NEW i \in 1 .. w, NEW j \in 1 .. w,
                       waiting_queue[i] = waiting_queue[j]
                PROVE  i = j
    BY <1>1 DEF IsInjective
  <2>1. Through + i = Through + j
    BY <1>2, <1>4
  <2>. QED BY <1>1, <2>1
<1>6. IsInjective(incoming_requests)
  <2>. SUFFICES ASSUME NEW i \in 1 .. n, NEW j \in 1 .. n,
                       incoming_requests[i] = incoming_requests[j]
                PROVE  i = j
    BY <1>1 DEF IsInjective
  <2>1. Through + w + i = Through + w + j
    BY <1>3, <1>4
  <2>. QED BY <1>1, <2>1
<1>7. ToSet(incoming_requests) \cap ToSet(waiting_queue) = {}
  <2>. SUFFICES ASSUME NEW i \in 1 .. n, NEW j \in 1 .. w,
                       incoming_requests[i] = waiting_queue[j]
                PROVE  FALSE
    BY <1>1 DEF ToSet
  <2>1. Through + w + i = Through + j
    BY <1>2, <1>3, <1>4
  <2>. QED BY <1>1, <2>1
<1>8. \A i \in 1 .. Len(arrived) : is_prefill_done[arrived[i]] <=> i <= Through
  BY DEF OrderInv, PrefillInv
<1>9. \A r \in ToSet(incoming_requests) \cup ToSet(waiting_queue) :
          \E i \in 1 .. Len(arrived) : r = arrived[i] /\ ~(i <= Through)
  <2>1. \A i \in 1 .. w : ~(Through + i <= Through)
    BY <1>1
  <2>2. \A i \in 1 .. n : ~(Through + w + i <= Through)
    BY <1>1
  <2>. QED BY <1>1, <1>2, <1>3, <2>1, <2>2 DEF ToSet
<1>10. ASSUME NEW r \in ToSet(arrived), ~is_prefill_done[r]
       PROVE  r \in ToSet(incoming_requests) \cup ToSet(waiting_queue)
  <2>1. PICK i \in 1 .. Len(arrived) : r = arrived[i]
    BY <1>1 DEF ToSet
  <2>2. i > Through
    BY <1>1, <1>8, <1>10, <2>1
  <2>3. i <= Through + w => i - Through \in 1 .. w /\ Through + (i - Through) = i
    BY <1>1, <2>2
  <2>4. ~(i <= Through + w) => /\ i - (Through + w) \in 1 .. n
                               /\ Through + w + (i - (Through + w)) = i
    BY <1>1, <2>2
  <2>5. i <= Through + w => r \in ToSet(waiting_queue)
    <3>1. i <= Through + w => waiting_queue[i - Through] = r
      BY <1>2, <2>1, <2>3
    <3>. QED BY <1>1, <2>3, <3>1 DEF ToSet
  <2>6. ~(i <= Through + w) => r \in ToSet(incoming_requests)
    <3>1. ~(i <= Through + w) => incoming_requests[i - (Through + w)] = r
      BY <1>3, <2>1, <2>4
    <3>. QED BY <1>1, <2>4, <3>1 DEF ToSet
  <2>. QED BY <2>5, <2>6
<1>11. \A r \in ToSet(incoming_requests) \cup ToSet(waiting_queue) :
           r \in ToSet(arrived) /\ r \in Seqs /\ ~is_prefill_done[r]
  <2>. TAKE r \in ToSet(incoming_requests) \cup ToSet(waiting_queue)
  <2>1. PICK i \in 1 .. Len(arrived) : r = arrived[i] /\ ~(i <= Through)
    BY <1>9
  <2>2. i \in DOMAIN arrived /\ arrived[i] \in Seqs
    BY <1>1
  <2>3. r \in ToSet(arrived)
    BY <2>1, <2>2 DEF ToSet
  <2>. QED BY <1>8, <2>1, <2>2, <2>3
<1>12. \A r \in Seqs : is_prefill_done[r] => r \in ToSet(arrived)
  BY DEF OrderInv, PrefillInv
<1>. QED BY <1>5, <1>6, <1>7, <1>10, <1>11, <1>12

(* A request is in one list, and there once.                               *)
LEMMA PlacesFollow == ServerInv => InOnePlace
<1>. SUFFICES ASSUME ServerInv PROVE InOnePlace
  OBVIOUS
<1>. DEFINE front == incoming_requests \o waiting_queue
            queued == incoming_requests \o waiting_queue \o running_batch
<1>1. /\ incoming_requests \in Seq(Seqs) /\ waiting_queue \in Seq(Seqs)
      /\ running_batch \in Seq(Seqs) /\ IsInjective(running_batch)
      /\ \A r \in ToSet(running_batch) : r \in Seqs /\ is_prefill_done[r]
  BY DecodedOnce DEF ServerInv, OrderInv, QueueInv, PlaceInv
<1>2. /\ IsInjective(waiting_queue) /\ IsInjective(incoming_requests)
      /\ ToSet(incoming_requests) \cap ToSet(waiting_queue) = {}
      /\ \A r \in ToSet(incoming_requests) \cup ToSet(waiting_queue) :
             r \in ToSet(arrived) /\ r \in Seqs /\ ~is_prefill_done[r]
      /\ \A r \in ToSet(arrived) :
             \/ is_prefill_done[r]
             \/ r \in ToSet(incoming_requests) \cup ToSet(waiting_queue)
      /\ \A r \in Seqs : is_prefill_done[r] => r \in ToSet(arrived)
  BY QueuedOnce DEF ServerInv
<1>3. /\ front \in Seq(Seqs) /\ IsInjective(front)
      /\ ToSet(front) = ToSet(incoming_requests) \cup ToSet(waiting_queue)
  BY <1>1, <1>2, ConcatOnce
<1>4. ToSet(front) \cap ToSet(running_batch) = {}
  BY <1>1, <1>2, <1>3
<1>5. queued = front \o running_batch
  OBVIOUS
<1>. HIDE DEF front, queued
<1>6. IsInjective(queued) /\ ToSet(queued) = ToSet(front) \cup ToSet(running_batch)
  BY <1>1, <1>3, <1>4, <1>5, ConcatOnce
<1>7. ASSUME NEW r \in Seqs
      PROVE  /\ r \in ToSet(queued) => r \in ToSet(arrived) /\ closes[r] <= 1
             /\ r \in ToSet(arrived) \ ToSet(queued) => closes[r] = 1
             /\ block_table[r] # <<>> =>
                    \/ r \in ToSet(running_batch) \cup releasing
                    \/ waiting_queue # <<>> /\ r = Head(waiting_queue)
  <2>1. r \in ToSet(queued) => r \in ToSet(arrived)
    BY <1>1, <1>2, <1>3, <1>6
  <2>2. closes[r] <= 1
    BY DEF ServerInv, BatchInv, RequestInv
  <2>3. r \in ToSet(arrived) \ ToSet(queued) => closes[r] = 1
    BY <1>2, <1>3, <1>6 DEF ServerInv, PlaceInv
  <2>4. block_table[r] # <<>> =>
            \/ r \in ToSet(running_batch) \cup releasing
            \/ waiting_queue # <<>> /\ r = Head(waiting_queue)
    BY DEF ServerInv, PlaceInv, NextInLine
  <2>. QED BY <2>1, <2>2, <2>3, <2>4
<1>. QED BY <1>6, <1>7 DEF InOnePlace, queued

\* The count of tokens that the calls are to place, request by request.
LEMMA StoryFits ==
    ASSUME ServerInv, NEW r \in Seqs, ~WholePromptHit(r)
    PROVE  /\ Prompt[r] \in Seq(Tokens) /\ generated_tokens[r] \in Seq(Tokens)
           /\ Len(Prompt[r]) \in Nat /\ Len(generated_tokens[r]) \in Nat
           /\ is_prefill_done[r] =>
                  Base(r) = Len(Prompt[r]) + Len(generated_tokens[r]) - 1
           /\ ~is_prefill_done[r] => /\ generated_tokens[r] = <<>>
                                     /\ Base(r) = prefill_idx[r]
                                     /\ prefill_idx[r] \in Nat
                                     /\ prefill_idx[r] <= Len(Prompt[r])
<1>1. /\ Prompt[r] \in Seq(Tokens) /\ generated_tokens[r] \in Seq(Tokens)
      /\ Len(Prompt[r]) \in Nat /\ Len(generated_tokens[r]) \in Nat
  BY SchedulerAssumption DEF ServerInv, ValueInv
<1>2. prefill_idx[r] # Len(Prompt[r])
  BY DEF ServerInv, LengthInv, WholePromptHit
<1>3. Age[r] = Len(generated_tokens[r]) - 1
  BY <1>2 DEF Age
<1>4. is_prefill_done[r] => Base(r) = Len(Prompt[r]) + Len(generated_tokens[r]) - 1
  BY <1>1, <1>3 DEF Base
<1>5. ~is_prefill_done[r] => /\ generated_tokens[r] = <<>>
                             /\ Base(r) = prefill_idx[r]
                             /\ prefill_idx[r] \in Nat
                             /\ prefill_idx[r] <= Len(Prompt[r])
  BY DEF ServerInv, BatchInv, RequestInv, OrderInv, PrefillInv, Base
<1>. QED BY <1>1, <1>4, <1>5

\* A request that is decoded has a token to be fed.
LEMMA DecodedHaveTokens ==
    ASSUME ServerInv, phase \in Decoding, NEW r \in ToSet(decode_reqs),
           ~WholePromptHit(r)
    PROVE  generated_tokens[r] # <<>>
<1>1. /\ decode_reqs \in Seq(Seqs) /\ running_batch \in Seq(Seqs)
      /\ Len(running_batch) \in {Len(decode_reqs), Len(decode_reqs) + 1}
      /\ \A i \in 1 .. Len(decode_reqs) : decode_reqs[i] = running_batch[i]
      /\ Aged(Len(decode_reqs))
  BY DecodedOnce DEF ServerInv, BatchInv, StepInv
<1>2. PICK i \in 1 .. Len(decode_reqs) : r = decode_reqs[i]
  BY <1>1 DEF ToSet
<1>3. r \in Seqs /\ Age[r] >= Len(decode_reqs) - i /\ Len(decode_reqs) \in Nat
  BY <1>1, <1>2 DEF Aged
<1>4. Age[r] \in Int
  BY <1>3, AgeType DEF ServerInv, BatchInv
<1>5. prefill_idx[r] # Len(Prompt[r])
  BY <1>3 DEF ServerInv, LengthInv, WholePromptHit
<1>6. Len(generated_tokens[r]) - 1 >= 0
  BY <1>3, <1>4, <1>5 DEF Age
<1>7. Len(<<>>) = 0
  OBVIOUS
<1>. QED BY <1>6, <1>7

(* What a decode feeds is the last token of a request and its place.       *)
LEMMA FreshFollows == ServerInv => DecodesFresh
<1>. SUFFICES ASSUME ServerInv, phase = "decode", pc = "idle" PROVE DecodesFresh
  BY DEF DecodesFresh
<1>1. /\ IsInjective(decode_reqs) /\ DOMAIN decode_reqs = 1 .. Len(decode_reqs)
      /\ ToSet(decode_reqs) \subseteq ToSet(running_batch)
      /\ \A r \in ToSet(running_batch) : r \in Seqs /\ is_prefill_done[r]
  BY DecodedOnce DEF Decoding
<1>2. \A q : Left(q) = 0 /\ Goal(q) = Base(q)
  BY NoPass DEF Passive
<1>3. ASSUME NEW i \in DOMAIN decode_reqs, NEW r, r = decode_reqs[i]
      PROVE  /\ r \notin active_prefill_req
             /\ decode_positions[i] = logical_token_count[r]
             /\ ~WholePromptHit(r) =>
                    /\ decode_positions[i] =
                           Len(Prompt[r]) + Len(generated_tokens[r]) - 1
                    /\ decode_tokens[i] = Last(generated_tokens[r])
  <2>1. /\ r \in ToSet(decode_reqs) /\ r \in ToSet(running_batch)
        /\ r \in Seqs /\ is_prefill_done[r]
    BY <1>1, <1>3 DEF ToSet
  <2>2. r \notin active_prefill_req
    <3>. SUFFICES ASSUME r \in active_prefill_req PROVE FALSE
      OBVIOUS
    <3>1. Len(running_batch) = Len(decode_reqs) + 1 /\ r = Newest
      BY <2>1 DEF ServerInv, CallInv, Decoding
    <3>2. Newest \notin ToSet(decode_reqs)
      BY <3>1 DEF ServerInv, BatchInv, StepInv, Decoding
    <3>. QED BY <2>1, <3>1, <3>2
  <2>3. /\ decode_positions[i] = Base(r)
        /\ decode_tokens[i] = next_token_to_process[r]
    BY <1>3 DEF ServerInv, DecodeInv
  <2>4. logical_token_count[r] = Base(r)
    <3>1. r \in Alive
      BY <2>1 DEF Alive
    <3>2. logical_token_count[r] + 0 = Base(r) /\ logical_token_count[r] \in Nat
      BY <1>2, <2>1, <3>1, AtRest
    <3>. QED BY <3>2
  <2>5. ASSUME ~WholePromptHit(r)
        PROVE  /\ Base(r) = Len(Prompt[r]) + Len(generated_tokens[r]) - 1
               /\ next_token_to_process[r] = Last(generated_tokens[r])
    <3>1. generated_tokens[r] # <<>>
      BY <2>1, <2>5, DecodedHaveTokens DEF Decoding
    <3>2. next_token_to_process[r] = Last(generated_tokens[r])
      BY <2>1, <2>5, <3>1 DEF ServerInv, NextInv
    <3>. QED BY <2>1, <2>5, <3>2, StoryFits
  <2>. QED BY <2>2, <2>3, <2>4, <2>5
<1>. QED BY <1>1, <1>3 DEF DecodesFresh

(* All variables of the scheduler keep their types.                        *)
LEMMA TypesFollow == ServerInv => SchedulerTypeOK
<1>. SUFFICES ASSUME ServerInv PROVE SchedulerTypeOK
  OBVIOUS
<1>1. /\ incoming_requests \in Seq(Seqs) /\ waiting_queue \in Seq(Seqs)
      /\ arrived \in Seq(Seqs)
      /\ prefill_idx \in [Seqs -> Nat] /\ is_prefill_done \in [Seqs -> BOOLEAN]
      /\ \A r \in Seqs : prefill_idx[r] <= Len(Prompt[r])
  BY DEF ServerInv, OrderInv, QueueInv, PrefillInv
<1>2. /\ running_batch \in Seq(Seqs) /\ decode_reqs \in Seq(Seqs)
      /\ phase \in {"drain", "reap", "admit", "prefill", "sample", "decode",
                    "sampleAll", "reply"}
      /\ is_finished \in [Seqs -> BOOLEAN] /\ closes \in [Seqs -> Nat]
  BY DEF ServerInv, BatchInv, ListsInv, RequestInv, Settled, Sampling, Decoding
<1>3. just_generated_new_token \in [Seqs -> BOOLEAN]
  BY DEF ServerInv, ValueInv
<1>. QED BY <1>1, <1>2, <1>3 DEF ServerInv, ValueInv, CallInv, SchedulerTypeOK

-----------------------------------------------------------------------------
(* The invariant of the whole server, the memory's included.               *)
THEOREM ServerSafety ==
    ASSUME ModelChooses
    PROVE  ServerSpec => []ServerInv
<1>1. ServerInit => ServerInv
  BY ServerInitInv
<1>2. ServerInv /\ [ServerNext]_serverVars => ServerInv'
  BY ServerStep
<1>. QED BY <1>1, <1>2, PTL DEF ServerSpec

(* The fields and the locals keep their types, whatever the model answers. *)
THEOREM SchedulerTypes ==
    ASSUME ModelChooses
    PROVE  ServerSpec => []SchedulerTypeOK
BY ServerSafety, TypesFollow, PTL

(* No request is lost or served twice, and only the running ones and the   *)
(* next in line hold blocks.                                               *)
THEOREM EachInOnePlace ==
    ASSUME ModelChooses
    PROVE  ServerSpec => []InOnePlace
BY ServerSafety, PlacesFollow, PTL

(* Token and position of each decode are still right when they are used.   *)
THEOREM DecodesStayFresh ==
    ASSUME ModelChooses
    PROVE  ServerSpec => []DecodesFresh
BY ServerSafety, FreshFollows, PTL

(* The calls that the server makes keep the memory's guarantees: it never  *)
(* uses the memory in a way that PagedMemory does not foresee.             *)
THEOREM ServerKeepsMemory ==
    ASSUME ModelChooses
    PROVE  ServerSpec => []MemoryInv
<1>1. ServerInv => MemoryInv
  BY DEF ServerInv
<1>. QED BY <1>1, ServerSafety, PTL

-----------------------------------------------------------------------------
(***************************************************************************)
(* What the requests are answered.                                         *)
(***************************************************************************)

(* The tokens of r that the text of its sequence is a prefix of ...        *)
Story(r) == Prompt[r] \o generated_tokens[r]
TextInv ==
    \A r \in Alive : ~WholePromptHit(r) =>
        \A i \in 1 .. logical_token_count[r] : text[r][i] = Story(r)[i]

(* ... and what a pass will place continues it.                            *)
FeedInv ==
    /\ phase = "prefill" =>
           \A r \in active_prefill_req : \A i \in DOMAIN prefill_chunk :
               prefill_chunk[i] = Prompt[r][logical_token_count[r] + i]
    /\ phase = "sample" =>
           \A r \in active_prefill_req : \A i \in DOMAIN todo :
               todo[i].tok = Prompt[r][logical_token_count[r] + i]
    /\ phase = "sampleAll" =>
           \A i \in DOMAIN todo : ~WholePromptHit(todo[i].seq) =>
               todo[i].tok = Last(generated_tokens[todo[i].seq])

AnswerInv == TextInv /\ FeedInv /\ GreedyOutput

\* A prompt and an answer to it, one after the other.
LEMMA StoryAt ==
    ASSUME NEW p \in Seq(Tokens), NEW g \in Seq(Tokens)
    PROVE  /\ p \o g \in Seq(Tokens) /\ Len(p \o g) = Len(p) + Len(g)
           /\ \A i \in 1 .. Len(p) : (p \o g)[i] = p[i]
           /\ g # <<>> => (p \o g)[Len(p) + Len(g)] = Last(g)
           /\ \A x \in Tokens : \A i \in 1 .. Len(p) + Len(g) :
                  (p \o Append(g, x))[i] = (p \o g)[i]
<1>1. /\ p \o g \in Seq(Tokens) /\ Len(p \o g) = Len(p) + Len(g)
      /\ Len(p) \in Nat /\ Len(g) \in Nat
      /\ \A i \in 1 .. Len(p) + Len(g) :
             (p \o g)[i] = IF i <= Len(p) THEN p[i] ELSE g[i - Len(p)]
  BY ConcatProperties
<1>2. \A i \in 1 .. Len(p) : (p \o g)[i] = p[i]
  <2>1. \A i \in 1 .. Len(p) : i \in 1 .. Len(p) + Len(g) /\ i <= Len(p)
    BY <1>1
  <2>. QED BY <1>1, <2>1
<1>3. ASSUME g # <<>> PROVE (p \o g)[Len(p) + Len(g)] = Last(g)
  <2>1. Len(g) > 0
    BY <1>3, EmptySeq
  <2>2. /\ Len(p) + Len(g) \in 1 .. Len(p) + Len(g)
        /\ ~(Len(p) + Len(g) <= Len(p)) /\ Len(p) + Len(g) - Len(p) = Len(g)
    BY <1>1, <2>1
  <2>. QED BY <1>1, <2>2 DEF Last
<1>4. ASSUME NEW x \in Tokens, NEW i \in 1 .. Len(p) + Len(g)
      PROVE  (p \o Append(g, x))[i] = (p \o g)[i]
  <2>. DEFINE h == Append(g, x)
  <2>1. /\ h \in Seq(Tokens) /\ Len(h) = Len(g) + 1
        /\ \A j \in 1 .. Len(g) : h[j] = g[j]
    BY AppendProperties
  <2>. HIDE DEF h
  <2>2. \A j \in 1 .. Len(p) + Len(h) :
            (p \o h)[j] = IF j <= Len(p) THEN p[j] ELSE h[j - Len(p)]
    BY <2>1, ConcatProperties
  <2>3. i \in 1 .. Len(p) + Len(h) /\ (~(i <= Len(p)) => i - Len(p) \in 1 .. Len(g))
    BY <1>1, <2>1
  <2>4. ~(i <= Len(p)) => h[i - Len(p)] = g[i - Len(p)]
    BY <2>1, <2>3
  <2>5. (p \o h)[i] = IF i <= Len(p) THEN p[i] ELSE h[i - Len(p)]
    BY <2>2, <2>3
  <2>6. (p \o g)[i] = IF i <= Len(p) THEN p[i] ELSE g[i - Len(p)]
    BY <1>1
  <2>7. (p \o h)[i] = (p \o g)[i]
    BY <2>4, <2>5, <2>6
  <2>. QED BY <2>7 DEF h
<1>. QED BY <1>1, <1>2, <1>3, <1>4

\* The text stays inside the story, also with what a pass has yet to place.
LEMMA TextFits ==
    ASSUME ServerInv, NEW r \in Alive, ~WholePromptHit(r)
    PROVE  /\ r \in Seqs
           /\ Prompt[r] \in Seq(Tokens) /\ generated_tokens[r] \in Seq(Tokens)
           /\ Len(Prompt[r]) \in Nat /\ Len(generated_tokens[r]) \in Nat
           /\ logical_token_count[r] \in Nat /\ Left(r) \in Nat
           /\ logical_token_count[r] <= Len(Prompt[r]) + Len(generated_tokens[r])
           /\ phase \in Sampling /\ r \in active_prefill_req =>
                  logical_token_count[r] + Left(r) <= Len(Prompt[r])
           /\ r \in Sampled =>
                  logical_token_count[r] + Left(r)
                      = Len(Prompt[r]) + Len(generated_tokens[r])
<1>1. r \in Seqs
  BY DEF Alive
<1>. DEFINE p == Len(Prompt[r])
            g == Len(generated_tokens[r])
            n == logical_token_count[r]
            l == Left(r)
<1>2. /\ Prompt[r] \in Seq(Tokens) /\ generated_tokens[r] \in Seq(Tokens)
      /\ p \in Nat /\ g \in Nat
      /\ is_prefill_done[r] => Base(r) = p + g - 1
      /\ ~is_prefill_done[r] => /\ generated_tokens[r] = <<>>
                                /\ Base(r) = prefill_idx[r]
                                /\ prefill_idx[r] \in Nat
                                /\ prefill_idx[r] <= p
  BY <1>1, StoryFits
<1>3. n \in Nat /\ l \in Nat /\ n + l = Goal(r)
  <2>1. n \in Nat
    BY <1>1 DEF ServerInv, MemoryInv, TypeOK
  <2>2. Len(prefill_chunk) \in Nat /\ Len(todo) \in Nat
    BY DEF ServerInv, ValueInv, MemoryInv, TypeOK
  <2>3. l \in Nat
    BY <2>2 DEF Left
  <2>. QED BY <2>1, <2>3 DEF ServerInv, LengthInv
<1>. HIDE DEF p, g, n, l
<1>4. r \in Sampled => is_prefill_done[r]
  <2>1. r \in Sampled => \/ phase \in Sampling /\ is_prefill_done[r]
                         \/ phase = "sampleAll" /\ r \in ToSet(decode_reqs)
    BY DEF Sampled
  <2>. QED BY <2>1, DecodedOnce DEF Decoding
<1>5. ASSUME phase \in Sampling, r \in active_prefill_req
      PROVE  /\ is_prefill_done[r] => r \in Sampled /\ generated_tokens[r] = <<>>
             /\ ~is_prefill_done[r] => r \notin Sampled
  <2>0. Sampled = {q \in active_prefill_req : is_prefill_done[q]}
    BY <1>5 DEF Sampled, Sampling
  <2>1. (r \in Sampled => is_prefill_done[r]) /\ (is_prefill_done[r] => r \in Sampled)
    BY <1>5, <2>0
  <2>2. is_prefill_done[r] => Len(running_batch) = Len(decode_reqs) + 1 /\ r = Newest
    BY <1>5 DEF ServerInv, CallInv
  <2>3. is_prefill_done[r] => generated_tokens[r] = <<>>
    BY <1>5, <2>2 DEF ServerInv, BatchInv, StepInv
  <2>. QED BY <2>1, <2>3
<1>6. Goal(r) = IF r \in Sampled THEN Base(r) + 1 ELSE Base(r)
  BY DEF Goal
<1>7. Len(<<>>) = 0
  OBVIOUS
<1>8. r \in Sampled => n + l = p + g
  BY <1>2, <1>3, <1>4, <1>6
<1>9. r \notin Sampled => n + l <= p + g
  BY <1>2, <1>3, <1>6
<1>10. ASSUME phase \in Sampling, r \in active_prefill_req PROVE n + l <= p
  <2>1. is_prefill_done[r] => g = 0 /\ n + l = p + g
    BY <1>5, <1>7, <1>8, <1>10 DEF g
  <2>2. ~is_prefill_done[r] => n + l <= p
    BY <1>2, <1>3, <1>5, <1>6, <1>10
  <2>. QED BY <1>2, <1>3, <2>1, <2>2
<1>11. n <= p + g
  BY <1>2, <1>3, <1>8, <1>9
<1>. QED BY <1>1, <1>2, <1>3, <1>8, <1>10, <1>11 DEF p, g, n, l

(* A request whose whole prompt was found in the cache stays one.          *)
LEMMA WholeStays ==
    ASSUME ServerInv, [ServerNext]_serverVars
    PROVE  \A r \in Seqs : WholePromptHit(r) => WholePromptHit(r)'
<1>1. prefill_idx \in [Seqs -> Nat] /\ \A r \in Seqs : Len(Prompt[r]) \in Nat
  BY SchedulerAssumption DEF ServerInv, OrderInv, PrefillInv
<1>2. CASE UNCHANGED prefill_idx
  BY <1>2 DEF WholePromptHit
<1>3. ASSUME NEW s \in Seqs, NEW n \in Nat \ {0}, prefill_idx[s] + n <= Len(Prompt[s]),
             prefill_idx' = [prefill_idx EXCEPT ![s] = @ + n]
      PROVE  \A r \in Seqs : WholePromptHit(r) => WholePromptHit(r)'
  <2>1. prefill_idx[s] # Len(Prompt[s])
    BY <1>1, <1>3
  <2>2. \A r \in Seqs \ {s} : prefill_idx'[r] = prefill_idx[r]
    BY <1>1, <1>3
  <2>. QED BY <2>1, <2>2 DEF WholePromptHit
<1>4. CASE AdmitHit
  <2>1. PICK s \in Seqs : s = NextInLine
    BY <1>4, NextInLineIs DEF AdmitHit, Admitting, ServerInv
  <2>2. /\ prefill_idx[s] + BlockSize <= Len(Prompt[s])
        /\ prefill_idx' = [prefill_idx EXCEPT ![s] = @ + BlockSize]
    BY <1>4, <2>1 DEF AdmitHit, CanHit, Advance
  <2>. QED BY <1>3, <2>2, PoolAssumption
<1>5. CASE AdmitChunk
  <2>1. PICK s \in Seqs : s = NextInLine
    BY <1>5, NextInLineIs DEF AdmitChunk, Admitting, ServerInv
  <2>2. \/ UNCHANGED prefill_idx
        \/ /\ ChunkOf(s) # Len(Prompt[s]) - prefill_idx[s]
           /\ prefill_idx' = [prefill_idx EXCEPT ![s] = @ + ChunkOf(s)]
    BY <1>5, <2>1 DEF AdmitChunk, Advance, ChunkOf
  <2>3. /\ ChunkOf(s) \in Nat /\ prefill_idx[s] + ChunkOf(s) <= Len(Prompt[s])
        /\ ChunkOf(s) = 0 <=> prefill_idx[s] = Len(Prompt[s])
    <3>1. OrderInv /\ ListsInv
      BY DEF ServerInv, BatchInv
    <3>. QED BY <1>5, <2>1, <3>1, ChunkFits DEF AdmitChunk, Admitting
  <2>4. ASSUME ChunkOf(s) # Len(Prompt[s]) - prefill_idx[s] PROVE ChunkOf(s) # 0
    BY <1>1, <2>3, <2>4
  <2>. QED BY <1>2, <1>3, <2>2, <2>3, <2>4
<1>6. AdmitHit \/ AdmitChunk \/ UNCHANGED prefill_idx
  BY DEF ServerNext, EngineStep, ListenerStep, Drain, Reap, CollectDecodes, AdmitNone,
         Prefill, SampleFirst, Decode, SampleAll, Reply, Call, Receive, ReceiveFails,
         serverVars, schedVars, requestVars
<1>. QED BY <1>2, <1>4, <1>5, <1>6

\* Text and answers stay what they are in a step that touches neither.
LEMMA AnswersFrame ==
    ASSUME TextInv, GreedyOutput,
           UNCHANGED <<text, logical_token_count, generated_tokens>>,
           Alive' \subseteq Alive,
           \A r \in Seqs : WholePromptHit(r) => WholePromptHit(r)'
    PROVE  TextInv' /\ GreedyOutput'
<1>1. Alive \subseteq Seqs
  BY DEF Alive
<1>2. TextInv'
  BY <1>1 DEF TextInv, Story
<1>3. GreedyOutput'
  BY DEF GreedyOutput, GreedyAnswer
<1>. QED BY <1>2, <1>3


\* Outside its calls and its admissions the server leaves the texts alone.
LEMMA OthersAnswer ==
    ASSUME ServerInv, AnswerInv, [ServerNext]_serverVars,
           \/ Drain \/ Reap \/ CollectDecodes \/ AdmitChunk \/ AdmitNone \/ Prefill
           \/ Decode \/ Reply \/ (\E r \in Seqs : Receive(r) \/ ReceiveFails(r))
    PROVE  AnswerInv'
<1>. USE DEF stepVars, decodeVars, requestVars, clientVars, listenVars, memVars,
             ctlVars, ghostVars, seqVars
<1>1. UNCHANGED <<text, logical_token_count, generated_tokens>>
  BY DEF Drain, Reap, CollectDecodes, AdmitChunk, AdmitNone, Prefill, Decode, Reply,
         Receive, ReceiveFails, StartRelease, ForwardPrefillChunk,
         ForwardDecodeBatch, StartForward
<1>2. Alive' \subseteq Alive
  <2>1. CASE UNCHANGED <<running_batch, is_prefill_done>>
    BY <2>1 DEF Alive
  <2>2. CASE Reap
    <3>1. PICK i \in DOMAIN running_batch : running_batch' = RemoveAt(running_batch, i)
      BY <2>2 DEF Reap
    <3>2. running_batch \in Seq(Seqs) /\ IsInjective(running_batch)
      BY DecodedOnce DEF ServerInv, PlaceInv
    <3>3. ToSet(running_batch') \subseteq ToSet(running_batch)
      BY <3>1, <3>2, RemoveMember
    <3>4. is_prefill_done' = is_prefill_done
      BY <2>2 DEF Reap
    <3>. QED BY <3>3, <3>4 DEF Alive
  <2>3. CASE AdmitChunk
    <3>1. PICK s \in Seqs : s = NextInLine
      BY <2>3, NextInLineIs DEF AdmitChunk, Admitting, ServerInv
    <3>2. ~is_prefill_done[s] /\ is_prefill_done \in [Seqs -> BOOLEAN]
      BY <2>3, <3>1, NextInLineIs
         DEF AdmitChunk, Admitting, ServerInv, OrderInv, PrefillInv
    <3>3. \/ UNCHANGED <<running_batch, is_prefill_done>>
          \/ /\ is_prefill_done' = [is_prefill_done EXCEPT ![s] = TRUE]
             /\ running_batch' = Append(running_batch, s)
      BY <2>3, <3>1 DEF AdmitChunk, Promote
    <3>4. ASSUME running_batch' = Append(running_batch, s)
          PROVE  ToSet(running_batch') = ToSet(running_batch) \cup {s}
      BY <3>4, DecodedOnce, AppendMember
    <3>5. s \in Alive
      BY <3>2 DEF Alive
    <3>6. ASSUME NEW r \in Alive', r # s PROVE r \in Alive
      <4>1. r \in Seqs /\ (is_prefill_done'[r] => r \in ToSet(running_batch'))
        BY <3>6 DEF Alive
      <4>2. is_prefill_done[r] => is_prefill_done'[r]
        BY <3>2, <3>3, <3>6, <4>1
      <4>3. r \in ToSet(running_batch') => r \in ToSet(running_batch)
        BY <3>3, <3>4, <3>6
      <4>. QED BY <4>1, <4>2, <4>3 DEF Alive
    <3>. QED BY <3>5, <3>6
  <2>4. \/ Reap \/ AdmitChunk \/ UNCHANGED <<running_batch, is_prefill_done>>
    BY DEF Drain, CollectDecodes, AdmitNone, Prefill, Decode, Reply, Receive,
           ReceiveFails
  <2>. QED BY <2>1, <2>2, <2>3, <2>4
<1>3. TextInv' /\ GreedyOutput'
  BY <1>1, <1>2, WholeStays, AnswersFrame DEF AnswerInv
<1>4. FeedInv'
  <2>1. CASE Drain \/ Reap \/ CollectDecodes \/ Reply
    BY <2>1 DEF FeedInv, Drain, Reap, CollectDecodes, Reply
  <2>2. CASE \E r \in Seqs : Receive(r) \/ ReceiveFails(r)
    <3>1. UNCHANGED <<phase, active_prefill_req, prefill_chunk, todo,
                      logical_token_count, generated_tokens, prefill_idx>>
      BY <2>2 DEF Receive, ReceiveFails
    <3>. QED BY <3>1 DEF AnswerInv, FeedInv, WholePromptHit
  <2>3. CASE AdmitNone
    BY <2>3 DEF FeedInv, AdmitNone
  <2>4. CASE AdmitChunk
    <3>1. PICK s \in Seqs : s = NextInLine
      BY <2>4, NextInLineIs DEF AdmitChunk, Admitting, ServerInv
    <3>2. /\ phase = "admit" /\ phase' = "prefill" /\ pc = "idle"
          /\ prefill_chunk' = SubSeq(Prompt[s], prefill_idx[s] + 1,
                                     prefill_idx[s] + ChunkOf(s))
          /\ active_prefill_req' \subseteq {s}
      BY <2>4, <3>1 DEF AdmitChunk, Admitting, ChunkOf
    <3>3. /\ ChunkOf(s) \in Nat /\ prefill_idx[s] \in Nat
          /\ prefill_idx[s] + ChunkOf(s) <= Len(Prompt[s])
      <4>1. OrderInv /\ ListsInv
        BY DEF ServerInv, BatchInv
      <4>. QED BY <2>4, <3>1, <4>1, ChunkFits
               DEF AdmitChunk, Admitting, OrderInv, PrefillInv
    <3>4. logical_token_count[s] = prefill_idx[s]
      <4>1. ~is_prefill_done[s]
        BY <2>4, <3>1, NextInLineIs DEF AdmitChunk, Admitting, ServerInv
      <4>2. s \in Alive /\ Base(s) = prefill_idx[s]
        BY <4>1 DEF Alive, Base
      <4>3. Left(s) = 0 /\ Goal(s) = Base(s)
        BY <3>2, NoPass DEF Passive
      <4>4. logical_token_count[s] + 0 = prefill_idx[s] /\ logical_token_count[s] \in Nat
        BY <3>2, <4>2, <4>3, AtRest
      <4>. QED BY <4>4
    <3>5. DOMAIN prefill_chunk' = 1 .. ChunkOf(s)
      BY <3>2, <3>3, PromptChunk
    <3>6. \A i \in DOMAIN prefill_chunk' :
              prefill_chunk'[i] = Prompt[s][prefill_idx[s] + i]
      BY <3>2, <3>3, <3>5, PromptChunk
    <3>. QED BY <1>1, <3>2, <3>4, <3>6 DEF FeedInv
  <2>5. CASE Prefill
    <3>1. PICK s \in active_prefill_req : ForwardPrefillChunk(s, prefill_chunk)
      BY <2>5 DEF Prefill
    <3>2. /\ phase = "prefill" /\ phase' = "sample"
          /\ active_prefill_req' = active_prefill_req
          /\ todo' = [i \in DOMAIN prefill_chunk |->
                         [seq |-> s, tok |-> prefill_chunk[i]]]
      BY <2>5, <3>1 DEF Prefill, ForwardPrefillChunk, StartForward
    <3>3. \A i \in DOMAIN todo' :
              i \in DOMAIN prefill_chunk /\ todo'[i].tok = prefill_chunk[i]
      BY <3>2
    <3>. QED BY <1>1, <3>2, <3>3 DEF AnswerInv, FeedInv
  <2>6. CASE Decode
    <3>1. /\ phase = "decode" /\ phase' = "sampleAll" /\ prefill_idx' = prefill_idx
          /\ todo' = [i \in DOMAIN decode_reqs |->
                         [seq |-> decode_reqs[i], tok |-> decode_tokens[i]]]
      BY <2>6 DEF Decode, ForwardDecodeBatch, StartForward
    <3>2. ASSUME NEW i \in DOMAIN todo', NEW r, r = todo'[i].seq, ~WholePromptHit(r)
          PROVE  todo'[i].tok = Last(generated_tokens[r])
      <4>1. /\ i \in DOMAIN decode_reqs /\ r = decode_reqs[i]
            /\ todo'[i].tok = decode_tokens[i]
        BY <3>1, <3>2
      <4>2. r \in ToSet(decode_reqs) /\ decode_tokens[i] = next_token_to_process[r]
        BY <3>1, <4>1 DEF ServerInv, DecodeInv, ToSet
      <4>3. r \in ToSet(running_batch) /\ generated_tokens[r] # <<>>
        BY <3>1, <3>2, <4>2, DecodedOnce, DecodedHaveTokens DEF Decoding
      <4>. QED BY <3>2, <4>1, <4>2, <4>3 DEF ServerInv, NextInv
    <3>. QED BY <1>1, <3>1, <3>2 DEF FeedInv, WholePromptHit
  <2>. QED BY <2>1, <2>2, <2>3, <2>4, <2>5, <2>6
<1>. QED BY <1>3, <1>4 DEF AnswerInv

\* A block found in the cache stands for the next tokens of the prompt.
LEMMA HitAnswers ==
    ASSUME ServerInv, AnswerInv, [ServerNext]_serverVars, AdmitHit
    PROVE  AnswerInv'
<1>0. PICK s \in Seqs : s = NextInLine
  BY NextInLineIs DEF AdmitHit, Admitting, ServerInv
<1>1. /\ phase = "admit" /\ CanHit(s) /\ PrefixHit(s, p_chunk(s))
      /\ UNCHANGED <<running_batch, phase, is_prefill_done, generated_tokens>>
  BY <1>0 DEF AdmitHit, Admitting
<1>2. ~is_prefill_done[s]
  BY <1>0, NextInLineIs DEF ServerInv, AdmitHit, Admitting
<1>3. /\ prefill_idx[s] \in Nat /\ BlockSize \in Nat \ {0}
      /\ prefill_idx[s] + BlockSize <= Len(Prompt[s])
  BY <1>1, PoolAssumption DEF ServerInv, OrderInv, PrefillInv, CanHit
<1>4. /\ p_chunk(s) \in Chunks /\ p_chunk(s) \in Seq(Tokens)
      /\ Len(p_chunk(s)) = BlockSize
      /\ \A i \in 1 .. BlockSize : p_chunk(s)[i] = Prompt[s][prefill_idx[s] + i]
  <2>1. /\ p_chunk(s) \in [1 .. BlockSize -> Tokens]
        /\ \A i \in 1 .. BlockSize : p_chunk(s)[i] = Prompt[s][prefill_idx[s] + i]
    BY <1>3, PromptChunk DEF p_chunk
  <2>. QED BY <1>3, <2>1 DEF Chunks
<1>5. /\ pc = "idle"
      /\ logical_token_count' = [logical_token_count EXCEPT ![s] = @ + BlockSize]
      /\ text' = [text EXCEPT ![s] = @ \o p_chunk(s)]
  BY <1>1 DEF PrefixHit
<1>6. s \in Alive /\ Alive' = Alive /\ Alive \subseteq Seqs
  BY <1>1, <1>2 DEF Alive
<1>7. /\ logical_token_count \in [Seqs -> Nat] /\ text \in [Seqs -> Seq(Tokens)]
      /\ \A r \in Seqs : Len(text[r]) = logical_token_count[r]
  BY DEF ServerInv, MemoryInv, TypeOK, TableShape
<1>8. logical_token_count[s] = prefill_idx[s]
  <2>1. Left(s) = 0 /\ Goal(s) = Base(s) /\ Base(s) = prefill_idx[s]
    BY <1>1, <1>2, NoPass DEF Passive, Base
  <2>2. logical_token_count[s] + 0 = prefill_idx[s]
    BY <1>5, <1>6, <2>1, AtRest
  <2>. QED BY <1>7, <2>2
<1>9. \A r \in Seqs : WholePromptHit(r) => WholePromptHit(r)'
  BY WholeStays
<1>10. TextInv'
  <2>. SUFFICES ASSUME NEW r \in Alive, ~WholePromptHit(r)',
                       NEW i \in 1 .. logical_token_count'[r]
                PROVE  text'[r][i] = Story(r)'[i]
    BY <1>6 DEF TextInv
  <2>1. r \in Seqs /\ ~WholePromptHit(r) /\ Story(r)' = Story(r)
    BY <1>1, <1>6, <1>9 DEF Story
  <2>2. CASE r # s
    BY <1>5, <1>7, <2>1, <2>2 DEF AnswerInv, TextInv
  <2>3. CASE r = s
    <3>. DEFINE n == prefill_idx[s]
                c == p_chunk(s)
    <3>1. /\ logical_token_count'[s] = n + BlockSize
          /\ text'[s] = text[s] \o c
          /\ i \in 1 .. n + BlockSize
      BY <1>5, <1>7, <1>8, <2>3
    <3>2. (text[s] \o c)[i] = IF i <= n THEN text[s][i] ELSE c[i - n]
      <4>1. text[s] \in Seq(Tokens) /\ Len(text[s]) = n /\ c \in Seq(Tokens)
            /\ Len(c) = BlockSize
        BY <1>4, <1>7, <1>8
      <4>. HIDE DEF n, c
      <4>. QED BY <3>1, <4>1, ConcatProperties
    <3>3. i <= n => text[s][i] = Story(s)[i]
      <4>1. i <= n => i \in 1 .. logical_token_count[s]
        BY <1>3, <1>8, <3>1
      <4>. QED BY <1>6, <2>1, <2>3, <4>1 DEF AnswerInv, TextInv
    <3>4. ~(i <= n) => i - n \in 1 .. BlockSize /\ n + (i - n) = i /\ i \in 1 .. Len(Prompt[s])
      <4>1. Len(Prompt[s]) \in Nat
        BY SchedulerAssumption
      <4>. QED BY <1>3, <3>1, <4>1
    <3>5. ~(i <= n) => c[i - n] = Prompt[s][i]
      BY <1>4, <3>4
    <3>6. \A j \in 1 .. Len(Prompt[s]) : Story(s)[j] = Prompt[s][j]
      BY SchedulerAssumption, StoryAt DEF Story, ServerInv, ValueInv
    <3>7. ~(i <= n) => c[i - n] = Story(s)[i]
      BY <3>4, <3>5, <3>6
    <3>. HIDE DEF n, c
    <3>. QED BY <2>1, <2>3, <3>1, <3>2, <3>3, <3>7
  <2>. QED BY <2>2, <2>3
<1>11. GreedyOutput'
  BY <1>1, <1>9 DEF AnswerInv, GreedyOutput, GreedyAnswer
<1>12. FeedInv'
  BY <1>1 DEF FeedInv
<1>. QED BY <1>10, <1>11, <1>12 DEF AnswerInv


\* A token that a pass places is the next one of its request's story.
LEMMA PlacedContinues ==
    ASSUME ServerInv, AnswerInv, pc = "append", todo # <<>>,
           NEW s, todo[1].seq = s, ~WholePromptHit(s)
    PROVE  todo[1].tok = Story(s)[logical_token_count[s] + 1]
<1>1. /\ s \in Alive
      /\ phase = "sample" => active_prefill_req = {s}
      /\ phase \in {"sample", "sampleAll"}
  BY PassMember
<1>2. /\ Prompt[s] \in Seq(Tokens) /\ generated_tokens[s] \in Seq(Tokens)
      /\ Len(Prompt[s]) \in Nat /\ Len(generated_tokens[s]) \in Nat
      /\ logical_token_count[s] \in Nat /\ Left(s) \in Nat /\ s \in Seqs
      /\ phase \in Sampling /\ s \in active_prefill_req =>
             logical_token_count[s] + Left(s) <= Len(Prompt[s])
      /\ s \in Sampled =>
             logical_token_count[s] + Left(s)
                 = Len(Prompt[s]) + Len(generated_tokens[s])
  BY <1>1, TextFits
<1>3. /\ \A i \in 1 .. Len(Prompt[s]) : Story(s)[i] = Prompt[s][i]
      /\ generated_tokens[s] # <<>> =>
             Story(s)[Len(Prompt[s]) + Len(generated_tokens[s])] = Last(generated_tokens[s])
  BY <1>2, StoryAt DEF Story
<1>4. 1 \in DOMAIN todo /\ Len(todo) \in Nat \ {0}
  <2>. DEFINE S == [seq : Seqs, tok : Tokens]
  <2>1. todo \in Seq(S)
    BY DEF ServerInv, MemoryInv, TypeOK
  <2>. HIDE DEF S
  <2>2. Len(todo) \in Nat \ {0} /\ DOMAIN todo = 1 .. Len(todo)
    BY <2>1, EmptySeq
  <2>. QED BY <2>2
<1>5. CASE phase = "sample"
  <2>1. Left(s) = Len(todo)
    BY <1>1, <1>5 DEF Left
  <2>2. logical_token_count[s] + 1 \in 1 .. Len(Prompt[s])
    BY <1>1, <1>2, <1>4, <1>5, <2>1 DEF Sampling
  <2>3. todo[1].tok = Prompt[s][logical_token_count[s] + 1]
    BY <1>1, <1>4, <1>5 DEF AnswerInv, FeedInv
  <2>. QED BY <1>3, <2>2, <2>3
<1>6. CASE phase = "sampleAll"
  <2>1. s \in ToSet(decode_reqs)
    BY <1>4, <1>6 DEF ServerInv, CallInv
  <2>2. s \in Sampled /\ Left(s) = 1
    BY <1>4, <1>6, <2>1 DEF Sampled, Sampling, Left
  <2>3. generated_tokens[s] # <<>>
    BY <1>6, <2>1, DecodedHaveTokens DEF Decoding
  <2>4. todo[1].tok = Last(generated_tokens[s])
    BY <1>4, <1>6 DEF AnswerInv, FeedInv
  <2>. QED BY <1>2, <1>3, <2>2, <2>3, <2>4
<1>. QED BY <1>1, <1>5, <1>6

\* The steps inside a call place what the pass was given, in its order.
LEMMA CallAnswers ==
    ASSUME ServerInv, AnswerInv, Call
    PROVE  AnswerInv'
<1>0. UNCHANGED schedVars
  BY DEF Call
<1>1. UNCHANGED <<phase, active_prefill_req, prefill_chunk, prefill_idx,
                  generated_tokens>>
  BY <1>0 DEF schedVars, stepVars, requestVars
<1>2. /\ Alive' = Alive /\ \A r : Story(r)' = Story(r)
      /\ \A r : WholePromptHit(r)' <=> WholePromptHit(r)
  BY <1>0, <1>1, SchedulerFrame DEF Story, WholePromptHit
<1>3. GreedyOutput'
  BY <1>1 DEF AnswerInv, GreedyOutput, GreedyAnswer, WholePromptHit
<1>4. TextInv /\ FeedInv /\ Alive \subseteq Seqs
  BY DEF AnswerInv, Alive
<1>5. /\ logical_token_count \in [Seqs -> Nat] /\ text \in [Seqs -> Seq(Tokens)]
      /\ \A r \in Seqs : Len(text[r]) = logical_token_count[r]
      /\ todo \in Seq([seq : Seqs, tok : Tokens])
  BY DEF ServerInv, MemoryInv, TypeOK, TableShape
<1>6. ASSUME UNCHANGED <<logical_token_count, text, todo>>
      PROVE  TextInv' /\ FeedInv'
  <2>1. TextInv'
    BY <1>2, <1>4, <1>6 DEF TextInv
  <2>2. FeedInv'
    BY <1>1, <1>4, <1>6 DEF FeedInv, WholePromptHit
  <2>. QED BY <2>1, <2>2
<1>7. ASSUME NEW s \in Seqs, NEW tok \in Tokens,
             pc = "append", todo # <<>>, todo[1].seq = s, todo[1].tok = tok,
             todo' = Tail(todo),
             logical_token_count' = [logical_token_count EXCEPT ![s] = @ + 1],
             text' = [text EXCEPT ![s] = Append(@, tok)]
      PROVE  TextInv' /\ FeedInv'
  <2>1. \A i \in DOMAIN todo' :
            i + 1 \in DOMAIN todo /\ todo'[i] = todo[i + 1] /\ i \in Nat
    <3>. DEFINE S == [seq : Seqs, tok : Tokens]
    <3>1. todo \in Seq(S)
      BY <1>5
    <3>. HIDE DEF S
    <3>2. Tail(todo) \in Seq(S)
      BY <1>7, <3>1, TailMember
    <3>3. \A i \in DOMAIN Tail(todo) : i \in Nat
      BY <3>2
    <3>. QED BY <1>7, <3>1, <3>3, TailMember
  <2>2. TextInv'
    <3>. SUFFICES ASSUME NEW r \in Alive, ~WholePromptHit(r),
                         NEW i \in 1 .. logical_token_count'[r]
                  PROVE  text'[r][i] = Story(r)[i]
      BY <1>2 DEF TextInv
    <3>1. CASE r # s
      BY <1>4, <1>5, <1>7, <3>1 DEF TextInv
    <3>2. CASE r = s
      <4>1. tok = Story(s)[logical_token_count[s] + 1]
        BY <1>7, <3>2, PlacedContinues
      <4>2. /\ text'[s] = Append(text[s], tok)
            /\ logical_token_count'[s] = logical_token_count[s] + 1
            /\ logical_token_count[s] \in Nat
        BY <1>5, <1>7
      <4>3. i = logical_token_count[s] + 1 \/ i \in 1 .. logical_token_count[s]
        BY <3>2, <4>2
      <4>4. ASSUME i = logical_token_count[s] + 1 PROVE text'[s][i] = tok
        BY <1>5, <4>2, <4>4
      <4>5. ASSUME i \in 1 .. logical_token_count[s] PROVE text'[s][i] = text[s][i]
        BY <1>5, <4>2, <4>5
      <4>. QED BY <1>4, <3>2, <4>1, <4>3, <4>4, <4>5 DEF TextInv
    <3>. QED BY <3>1, <3>2
  <2>3. FeedInv'
    <3>1. ASSUME phase = "sample", NEW r \in active_prefill_req, NEW i \in DOMAIN todo'
          PROVE  todo'[i].tok = Prompt[r][logical_token_count'[r] + i]
      <4>1. r = s
        BY <1>7, <3>1, PassMember
      <4>2. logical_token_count'[s] = logical_token_count[s] + 1
            /\ logical_token_count[s] \in Nat
        BY <1>5, <1>7
      <4>3. todo[i + 1].tok = Prompt[s][logical_token_count[s] + (i + 1)]
        BY <1>4, <2>1, <3>1, <4>1 DEF FeedInv
      <4>4. logical_token_count[s] + (i + 1) = logical_token_count'[s] + i
        BY <2>1, <4>2
      <4>. QED BY <2>1, <4>1, <4>3, <4>4
    <3>2. ASSUME phase = "sampleAll", NEW i \in DOMAIN todo',
                 NEW r, r = todo'[i].seq, ~WholePromptHit(r)
          PROVE  todo'[i].tok = Last(generated_tokens[r])
      BY <1>4, <2>1, <3>2 DEF FeedInv
    <3>3. phase' # "prefill"
      BY <1>1, <1>7, PassMember
    <3>. QED BY <1>1, <1>2, <3>1, <3>2, <3>3 DEF FeedInv
  <2>. QED BY <2>2, <2>3
<1>8. ASSUME NEW s \in Seqs, pc = "release", releasing = {s},
             logical_token_count' = [logical_token_count EXCEPT ![s] = 0],
             text' = [text EXCEPT ![s] = <<>>]
      PROVE  TextInv' /\ FeedInv'
  <2>1. s \notin Alive
    BY <1>8 DEF ServerInv, PlaceInv, Alive
  <2>2. \A r \in Alive : /\ logical_token_count'[r] = logical_token_count[r]
                         /\ text'[r] = text[r]
    BY <1>4, <1>5, <1>8, <2>1
  <2>3. TextInv'
    BY <1>2, <1>4, <2>2 DEF TextInv
  <2>4. phase' = "reap"
    BY <1>1, <1>8 DEF ServerInv, CallInv
  <2>. QED BY <2>3, <2>4 DEF FeedInv
<1>9. TextInv' /\ FeedInv'
  BY <1>6, <1>7, <1>8, CallSplits
<1>. QED BY <1>3, <1>9 DEF AnswerInv

\* What the kernels read of a request whose pass is complete is its story.
LEMMA ReadsItsStory ==
    ASSUME ServerInv, TextInv, ReadAt, pc = "idle", phase # "prefill",
           NEW r \in Sampled, r \in Alive, ~WholePromptHit(r)
    PROVE  /\ TextRead(r) = Story(r)
           /\ logical_token_count[r] = Len(Prompt[r]) + Len(generated_tokens[r])
<1>1. /\ r \in Seqs /\ Prompt[r] \in Seq(Tokens) /\ generated_tokens[r] \in Seq(Tokens)
      /\ logical_token_count[r] \in Nat
      /\ logical_token_count[r] + Left(r) = Len(Prompt[r]) + Len(generated_tokens[r])
  BY TextFits
<1>2. Left(r) = 0 /\ releasing = {}
  BY AtRest
<1>3. logical_token_count[r] = Len(Prompt[r]) + Len(generated_tokens[r])
  <2>1. logical_token_count[r] + 0 = Len(Prompt[r]) + Len(generated_tokens[r])
    BY <1>1, <1>2
  <2>2. logical_token_count[r] + 0 = logical_token_count[r]
    BY <1>1
  <2>. QED BY <2>1, <2>2
<1>. DEFINE n == logical_token_count[r]
<1>4. Story(r) \in Seq(Tokens) /\ Len(Story(r)) = n
  BY <1>1, <1>3, StoryAt DEF Story
<1>5. kv_len[r] = n
  BY <1>1, <1>2 DEF ServerInv, ShareInv, LenInv
<1>6. text[r] \in Seq(Tokens) /\ Len(text[r]) = n
  BY <1>1 DEF ServerInv, MemoryInv, TypeOK, TableShape
<1>7. Readback
  BY ReadAtIsReadback DEF ServerInv
<1>8. ASSUME NEW i \in 1 .. n PROVE Last(kv[Slot(r, i)]) = Story(r)[i]
  <2>1. kv[Slot(r, i)] = SubSeq(text[r], 1, i)
    BY <1>1, <1>5, <1>7 DEF Readback
  <2>2. /\ Len(SubSeq(text[r], 1, i)) = i /\ SubSeq(text[r], 1, i)[i] = text[r][i]
    <3>. DEFINE q == text[r]
    <3>1. q \in Seq(Tokens) /\ i \in Nat \ {0} /\ i <= Len(q)
      BY <1>1, <1>6
    <3>. HIDE DEF q
    <3>2. \A x \in 1 .. i : q[x] \in Tokens
      BY <3>1
    <3>3. /\ Len(SubSeq(q, 1, i)) = IF 1 <= i THEN i - 1 + 1 ELSE 0
          /\ \A x \in 1 .. i - 1 + 1 : SubSeq(q, 1, i)[x] = q[1 + x - 1]
      BY <3>1, <3>2, SubSeqProperties
    <3>4. i \in 1 .. i - 1 + 1 /\ 1 + i - 1 = i /\ 1 <= i /\ i - 1 + 1 = i
      BY <3>1
    <3>5. Len(SubSeq(q, 1, i)) = i /\ SubSeq(q, 1, i)[i] = q[i]
      BY <3>3, <3>4
    <3>. QED BY <3>5 DEF q
  <2>3. text[r][i] = Story(r)[i]
    BY DEF TextInv
  <2>. QED BY <2>1, <2>2, <2>3 DEF Last
<1>9. TextRead(r) = [i \in 1 .. n |-> Story(r)[i]]
  BY <1>5, <1>8 DEF TextRead
<1>10. Story(r) = [i \in 1 .. n |-> Story(r)[i]]
  BY <1>4
<1>. QED BY <1>3, <1>9, <1>10


\* A token more leaves what was answered before it as it was.
LEMMA AnswerGrows ==
    ASSUME NEW g \in Seq(Tokens), NEW x \in Tokens
    PROVE  /\ DOMAIN Append(g, x) = 1 .. Len(g) + 1 /\ DOMAIN g = 1 .. Len(g)
           /\ Append(g, x)[Len(g) + 1] = x
           /\ SubSeq(Append(g, x), 1, Len(g)) = g
           /\ \A i \in 1 .. Len(g) :
                  /\ Append(g, x)[i] = g[i]
                  /\ SubSeq(Append(g, x), 1, i - 1) = SubSeq(g, 1, i - 1)
<1>1. /\ DOMAIN Append(g, x) = 1 .. Len(g) + 1 /\ DOMAIN g = 1 .. Len(g)
      /\ Append(g, x)[Len(g) + 1] = x
      /\ \A i \in 1 .. Len(g) : Append(g, x)[i] = g[i]
      /\ Len(g) \in Nat
  OBVIOUS
<1>2. Append(g, x) = g \o <<x>> /\ <<x>> \in Seq(Tokens)
  BY AppendIsConcat
<1>3. \A n \in 0 .. Len(g) : SubSeq(Append(g, x), 1, n) = SubSeq(g, 1, n)
  <2>1. ASSUME NEW n \in 0 .. Len(g) PROVE SubSeq(g \o <<x>>, 1, n) = SubSeq(g, 1, n)
    BY <1>1, <1>2, PrefixStays
  <2>. QED BY <1>2, <2>1
<1>4. SubSeq(g, 1, Len(g)) = g
  BY SubSeqFull
<1>5. Len(g) \in 0 .. Len(g) /\ \A i \in 1 .. Len(g) : i - 1 \in 0 .. Len(g)
  BY <1>1
<1>. QED BY <1>1, <1>3, <1>4, <1>5

\* The requests that get a token are still in the batch.
LEMMA SampledRun ==
    ASSUME ServerInv, NEW r \in Sampled
    PROVE  r \in Seqs /\ r \in Alive /\ is_prefill_done[r]
<1>1. /\ running_batch \in Seq(Seqs) /\ decode_reqs \in Seq(Seqs)
      /\ \A q \in ToSet(running_batch) : q \in Seqs /\ is_prefill_done[q]
  BY DecodedOnce
<1>2. \/ phase \in Sampling /\ r \in active_prefill_req /\ is_prefill_done[r]
      \/ phase = "sampleAll" /\ r \in ToSet(decode_reqs)
  BY DEF Sampled
<1>3. CASE phase \in Sampling /\ r \in active_prefill_req /\ is_prefill_done[r]
  <2>1. Len(running_batch) = Len(decode_reqs) + 1 /\ r = Newest
    BY <1>3 DEF ServerInv, CallInv
  <2>2. Len(running_batch) \in 1 .. Len(running_batch)
    BY <1>1, <2>1
  <2>3. r \in ToSet(running_batch)
    BY <1>1, <2>1, <2>2 DEF ToSet, Newest
  <2>. QED BY <1>1, <2>3 DEF Alive
<1>4. CASE phase = "sampleAll" /\ r \in ToSet(decode_reqs)
  <2>1. r \in ToSet(running_batch)
    BY <1>4, DecodedOnce DEF Decoding
  <2>. QED BY <1>1, <2>1 DEF Alive
<1>. QED BY <1>2, <1>3, <1>4

\* The positions of a text are positions of its story.
LEMMA TextInside ==
    ASSUME ServerInv, NEW r \in Alive, ~WholePromptHit(r)
    PROVE  \A i \in 1 .. logical_token_count[r] :
               i \in 1 .. Len(Prompt[r]) + Len(generated_tokens[r])
<1>. DEFINE n == logical_token_count[r]
            m == Len(Prompt[r]) + Len(generated_tokens[r])
<1>1. n \in Nat /\ m \in Nat /\ n <= m
  <2>. DEFINE p == Len(Prompt[r])
              g == Len(generated_tokens[r])
  <2>1. n \in Nat /\ p \in Nat /\ g \in Nat /\ n <= p + g
    <3>. HIDE DEF n, p, g
    <3>. QED BY TextFits DEF n, p, g
  <2>. HIDE DEF n, p, g
  <2>2. p + g \in Nat
    BY <2>1
  <2>. QED BY <2>1, <2>2 DEF p, g
<1>. HIDE DEF n, m
<1>2. \A i \in 1 .. n : i \in 1 .. m
  BY <1>1
<1>. QED BY <1>2 DEF n, m

\* A token that is sampled is the model's choice after prompt and answer.
LEMMA SampleAnswers ==
    ASSUME ServerInv, AnswerInv, ReadAt, ModelChooses, SampleFirst \/ SampleAll
    PROVE  AnswerInv'
<1>. DEFINE next(r) == argmax(TextRead(r))
<1>1. /\ pc = "idle" /\ phase' \in {"decode", "reply"}
      /\ phase = "prefill" => active_prefill_req = {}
      /\ UNCHANGED <<memVars, running_batch, prefill_idx, is_prefill_done>>
  BY DEF SampleFirst, SampleAll
<1>2. Generate(Sampled)
  <2>1. CASE SampleFirst
    <3>1. phase \in Sampling /\ Generate({r \in active_prefill_req : is_prefill_done[r]})
      BY <2>1 DEF SampleFirst, Sampling
    <3>2. Sampled = {r \in active_prefill_req : is_prefill_done[r]}
      BY <3>1 DEF Sampled, Sampling
    <3>. QED BY <3>1, <3>2
  <2>2. CASE SampleAll
    <3>1. /\ phase \in Decoding /\ Generate(ToSet(decode_reqs))
          /\ phase = "decode" => decode_reqs = <<>>
      BY <2>2 DEF SampleAll, Decoding
    <3>2. phase = "decode" => ToSet(decode_reqs) = {}
      BY <3>1 DEF ToSet
    <3>3. Sampled = ToSet(decode_reqs)
      BY <3>1, <3>2 DEF Sampled, Decoding, Sampling
    <3>. QED BY <3>1, <3>3
  <2>. QED BY <2>1, <2>2
<1>3. /\ generated_tokens \in [Seqs -> Seq(Tokens)]
      /\ \A r \in Seqs : Prompt[r] \in Seq(Tokens)
      /\ \A r : next(r) \in Tokens
  BY SchedulerAssumption DEF ServerInv, ValueInv, ModelChooses
<1>4. \A r \in Seqs : generated_tokens'[r] = IF r \in Sampled
                                             THEN Append(generated_tokens[r], next(r))
                                             ELSE generated_tokens[r]
  BY <1>2 DEF Generate
<1>5. /\ Alive' = Alive /\ Alive \subseteq Seqs
      /\ \A r : WholePromptHit(r)' <=> WholePromptHit(r)
      /\ UNCHANGED <<text, logical_token_count>>
  BY <1>1 DEF Alive, WholePromptHit, memVars, ghostVars, seqVars
<1>6. ASSUME NEW r \in Seqs, r \in Sampled, ~WholePromptHit(r)
      PROVE  next(r) = argmax(Prompt[r] \o generated_tokens[r])
  <2>1. phase # "prefill"
    <3>1. phase = "prefill" => Sampled = {}
      BY <1>1 DEF Sampled, Sampling
    <3>. QED BY <1>6, <3>1
  <2>2. TextRead(r) = Story(r)
    BY <1>1, <1>6, <2>1, SampledRun, ReadsItsStory DEF AnswerInv
  <2>. QED BY <2>2 DEF Story
<1>. HIDE DEF next
<1>7. TextInv'
  <2>. SUFFICES ASSUME NEW r \in Alive, ~WholePromptHit(r),
                       NEW i \in 1 .. logical_token_count[r]
                PROVE  text[r][i] = Story(r)'[i]
    BY <1>5 DEF TextInv
  <2>1. text[r][i] = Story(r)[i]
    BY DEF AnswerInv, TextInv
  <2>2. i \in 1 .. Len(Prompt[r]) + Len(generated_tokens[r])
    BY TextInside
  <2>3. Story(r)' = IF r \in Sampled THEN Prompt[r] \o Append(generated_tokens[r], next(r))
                                     ELSE Story(r)
    BY <1>4, <1>5 DEF Story
  <2>4. (Prompt[r] \o Append(generated_tokens[r], next(r)))[i] = Story(r)[i]
    <3>1. PICK p \in Seq(Tokens), g \in Seq(Tokens), x \in Tokens :
              p = Prompt[r] /\ g = generated_tokens[r] /\ x = next(r)
      BY <1>3, <1>5
    <3>2. i \in 1 .. Len(p) + Len(g)
      BY <2>2, <3>1
    <3>3. (p \o Append(g, x))[i] = (p \o g)[i]
      BY <3>2, StoryAt
    <3>. QED BY <3>1, <3>3 DEF Story
  <2>. QED BY <2>1, <2>3, <2>4
<1>8. GreedyOutput'
  <2>. SUFFICES ASSUME NEW r \in Seqs, ~WholePromptHit(r) PROVE GreedyAnswer(r)'
    BY <1>5 DEF GreedyOutput
  <2>1. \A i \in DOMAIN generated_tokens[r] :
            generated_tokens[r][i] =
                argmax(Prompt[r] \o SubSeq(generated_tokens[r], 1, i - 1))
    BY DEF AnswerInv, GreedyOutput, GreedyAnswer
  <2>2. CASE r \notin Sampled
    BY <1>4, <2>1, <2>2 DEF GreedyAnswer
  <2>3. CASE r \in Sampled
    <3>1. PICK g \in Seq(Tokens), x \in Tokens :
              /\ g = generated_tokens[r] /\ x = next(r)
              /\ generated_tokens'[r] = Append(g, x)
      BY <1>3, <1>4, <2>3
    <3>2. x = argmax(Prompt[r] \o g)
      BY <1>6, <2>3, <3>1
    <3>3. ASSUME NEW i \in 1 .. Len(g) + 1
          PROVE  Append(g, x)[i] = argmax(Prompt[r] \o SubSeq(Append(g, x), 1, i - 1))
      <4>1. i \in 1 .. Len(g) \/ (i = Len(g) + 1 /\ i - 1 = Len(g))
        BY LenProperties
      <4>2. CASE i \in 1 .. Len(g)
        BY <2>1, <3>1, <4>2, AnswerGrows
      <4>3. CASE i = Len(g) + 1 /\ i - 1 = Len(g)
        <5>1. Append(g, x)[i] = x
          BY <4>3, AnswerGrows
        <5>2. SubSeq(Append(g, x), 1, i - 1) = g
          BY <4>3, AnswerGrows
        <5>. QED BY <3>2, <5>1, <5>2
      <4>. QED BY <4>1, <4>2, <4>3
    <3>4. DOMAIN Append(g, x) = 1 .. Len(g) + 1
      BY AnswerGrows
    <3>. QED BY <3>1, <3>3, <3>4 DEF GreedyAnswer
  <2>. QED BY <2>2, <2>3
<1>9. FeedInv'
  BY <1>1 DEF FeedInv
<1>. QED BY <1>7, <1>8, <1>9 DEF AnswerInv

\* The answers of a new server are empty, and so are the texts.
LEMMA AnswerInit == ServerInit => AnswerInv
<1>. SUFFICES ASSUME ServerInit PROVE AnswerInv
  OBVIOUS
<1>1. /\ \A r \in Seqs : logical_token_count[r] = 0 /\ generated_tokens[r] = <<>>
      /\ phase = "drain" /\ Alive \subseteq Seqs
  BY DEF ServerInit, Init, Alive
<1>2. TextInv
  <2>1. 1 .. 0 = {}
    OBVIOUS
  <2>. QED BY <1>1, <2>1 DEF TextInv
<1>3. GreedyOutput
  <2>1. DOMAIN <<>> = {}
    OBVIOUS
  <2>. QED BY <1>1, <2>1 DEF GreedyOutput, GreedyAnswer
<1>. QED BY <1>1, <1>2, <1>3 DEF AnswerInv, FeedInv

\* Every step of the server keeps texts and answers together.
LEMMA AnswerKept ==
    ASSUME ServerInv, AnswerInv, ReadAt, ModelChooses, [ServerNext]_serverVars
    PROVE  AnswerInv'
<1>1. ASSUME UNCHANGED serverVars PROVE AnswerInv'
  <2>1. UNCHANGED <<text, logical_token_count, generated_tokens, phase, prefill_idx,
                    active_prefill_req, prefill_chunk, todo, is_prefill_done,
                    running_batch>>
    BY <1>1 DEF serverVars, schedVars, memVars, ctlVars, ghostVars, seqVars, stepVars,
                requestVars
  <2>2. Alive' \subseteq Alive /\ \A r \in Seqs : WholePromptHit(r) => WholePromptHit(r)'
    BY <2>1 DEF Alive, WholePromptHit
  <2>3. FeedInv'
    BY <2>1 DEF AnswerInv, FeedInv, WholePromptHit
  <2>. QED BY <2>1, <2>2, <2>3, AnswersFrame DEF AnswerInv
<1>2. ASSUME ServerNext PROVE AnswerInv'
  BY <1>2, OthersAnswer, HitAnswers, CallAnswers, SampleAnswers
     DEF ServerNext, EngineStep, ListenerStep
<1>. QED BY <1>1, <1>2

(* Every request reads the KV entries of its own text, whatever blocks it  *)
(* shares and whatever was evicted, if no two of the texts that occur have *)
(* the same hash, block by block.                                          *)
THEOREM ServerReadsItsText ==
    ASSUME ModelChooses, NEW Corpus, NoCollisions(Corpus)
    PROVE  ServerSpec /\ []InCorpus(Corpus) => []Readback
<1>. DEFINE Inv(T) == ServerInv /\ ReadInv(T)
<1>1. PICK T : Decodes(T, Corpus)
  BY DEF NoCollisions
<1>2. ServerInit => Inv(T)
  BY <1>1, ServerInitInv, ReadInit DEF ServerInit
<1>3. Inv(T) /\ InCorpus(Corpus) /\ InCorpus(Corpus)' /\ [ServerNext]_serverVars => Inv(T)'
  BY <1>1, ServerStep, ServerStepsMemory, ReadKept DEF ServerInv
<1>4. Inv(T) => Readback
  BY ReadAtIsReadback DEF ServerInv, ReadInv
<1>. HIDE DEF Inv
<1>. QED BY <1>2, <1>3, <1>4, PTL DEF ServerSpec

(* Under the same hypothesis a client is answered the greedy continuation  *)
(* of its prompt: neither the sharing of blocks nor the eviction, neither  *)
(* the chunks of its prefill nor the other requests of its batches show.   *)
THEOREM AnswersAreGreedy ==
    ASSUME ModelChooses, NEW Corpus, NoCollisions(Corpus)
    PROVE  ServerSpec /\ []InCorpus(Corpus) => []GreedyOutput
<1>. DEFINE Inv(T) == ServerInv /\ ReadInv(T) /\ AnswerInv
<1>1. PICK T : Decodes(T, Corpus)
  BY DEF NoCollisions
<1>2. ServerInit => Inv(T)
  BY <1>1, ServerInitInv, ReadInit, AnswerInit DEF ServerInit
<1>3. Inv(T) /\ InCorpus(Corpus) /\ InCorpus(Corpus)' /\ [ServerNext]_serverVars => Inv(T)'
  BY <1>1, ServerStep, ServerStepsMemory, ReadKept, AnswerKept DEF ServerInv, ReadInv
<1>4. Inv(T) => GreedyOutput
  BY DEF AnswerInv
<1>. HIDE DEF Inv
<1>. QED BY <1>2, <1>3, <1>4, PTL DEF ServerSpec
=============================================================================
