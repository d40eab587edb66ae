--------------------------- MODULE RetrievalProofs ---------------------------
(***************************************************************************)
(* Proofs about Retrieval for any number of gateways, any questions and    *)
(* answers, words of any size, and dimensions that need not agree.         *)
(***************************************************************************)
EXTENDS Retrieval, ListLemmas

Values == Nat \cup Tokens \cup Client \cup (Client \X Nat)
Bytes == Values \X Nat

(* s is how t begins.                                                      *)
Begins(s, t) == \E u \in Seq(Bytes) : t = s \o u

(* The three messages: the query, the answer and the prompt.               *)
Query(c) == Meta(c) \o Vector(c, SentDims)
Reply(c) == Word(Len(answer[c])) \o Words(answer[c])
Message(c) == Word(Len(Prompt(c))) \o Words(Prompt(c))

Early == {"question", "vector", "size", "payload"}
Later == {"connect", "length", "tokens", "stream", "done"}
Searched == {"search", "send", "array", "close"}

StreamTypes ==
    /\ pc \in [Client -> Early \cup Later \cup {"failed"}]
    /\ context \in [Client -> Seq(Tokens)]
    /\ wanted \in [Client -> Nat]
    /\ dbUp \in [Client -> Seq(Bytes)] /\ dbDown \in [Client -> Seq(Bytes)]
    /\ dbEnd \in [Client -> {"open", "fin", "rst"}]
    /\ alive \in BOOLEAN
    /\ handler \in [Client -> {"none", "query", "closed"} \cup Searched]
    /\ received \in [Client -> Seq(Bytes)]
    /\ answer \in [Client -> Seq(Tokens)]
    /\ infUp \in [Client -> Seq(Bytes)]
    /\ infEnd \in [Client -> BOOLEAN]
    /\ backlog \in Seq(Client)
    /\ listener \in [conn : Client \cup {"none"}, got : Seq(Bytes), need : Nat]
    /\ incoming \subseteq [conn : Client, tokens : Seq(Tokens)]

(* What a handler has read and what is on its way to it are together how   *)
(* the query of its client begins.                                         *)
QueryOf(c) ==
    /\ Begins(received[c] \o dbUp[c], Query(c))
    /\ pc[c] = "question" => received[c] = <<>>
    /\ pc[c] = "vector" => received[c] \o dbUp[c] = Meta(c)
    /\ handler[c] \in Searched => Len(received[c]) = QueryBytes

(* What the handler has sent: the gateway may have read the length of it.  *)
Sent(c) ==
    IF pc[c] = "payload" THEN Word(wanted[c]) \o dbDown[c] ELSE dbDown[c]

(* The answer is sent in two pieces, and only a handler that has sent both *)
(* closes the connection in order, unless the database ends.               *)
ReplyOf(c) ==
    /\ pc[c] = "question" => handler[c] = "none"
    /\ pc[c] \in Early =>
           /\ handler[c] \in {"none", "query", "search", "send"} => Sent(c) = <<>>
           /\ handler[c] = "array" => Sent(c) = Word(Len(answer[c]))
           /\ handler[c] = "close" => Sent(c) = Reply(c)
           /\ handler[c] = "closed" =>
                  /\ Sent(c) \in {<<>>, Word(Len(answer[c])), Reply(c)}
                  /\ Sent(c) = Reply(c) \/ dbEnd[c] = "rst" \/ ~alive
           /\ handler[c] # "closed" => dbEnd[c] = "open"
           /\ context[c] = <<>>
    /\ pc[c] \in Later =>
           /\ handler[c] \in {"array", "close", "closed"}
           /\ context[c] = answer[c] \/ (context[c] = <<>> /\ ~alive)

Reading(c) == c \in ToSet(backlog) \/ listener.conn = c
Got(c) == IF listener.conn = c THEN listener.got ELSE <<>>

(* A connection is read once, by the listener; the prompt is in two places: *)
(* what the listener has got and what is on its way.                       *)
PromptOf(c) ==
    /\ listener.conn = c => c \notin ToSet(backlog)
    /\ pc[c] \in Early \cup {"connect"} =>
           ~Reading(c) /\ infUp[c] = <<>> /\ ~infEnd[c]
    /\ pc[c] = "length" => Reading(c) /\ Got(c) = <<>> /\ infUp[c] = <<>>
    /\ pc[c] = "tokens" => Reading(c) /\ Got(c) \o infUp[c] = Word(Len(Prompt(c)))
    /\ Reading(c) => Begins(Got(c) \o infUp[c], Message(c)) /\ ~infEnd[c]

RequestInv ==
    \A r \in incoming :
        /\ r.tokens = Prompt(r.conn) /\ ~infEnd[r.conn] /\ ~Reading(r.conn)
        /\ pc[r.conn] \in {"stream", "done", "failed"}

(* The call of recv_ints reads the length, then the array of that length.  *)
ListenerInv ==
    /\ IsInjective(backlog)
    /\ listener.conn # "none" =>
           \/ listener.need = WordSize /\ Len(listener.got) < WordSize
           \/ /\ listener.need = Announced(Len(Prompt(listener.conn)))
              /\ Len(listener.got) >= WordSize /\ Len(listener.got) < listener.need

RetrievalInv ==
    /\ StreamTypes
    /\ \A c \in Client : QueryOf(c) /\ ReplyOf(c) /\ PromptOf(c)
    /\ RequestInv
    /\ ListenerInv

-----------------------------------------------------------------------------
(* The recursion in FlattenSeq has a solution, for any number of parts.    *)
LEMMA FlattenRuns ==
    ASSUME NEW ss, NEW m \in Nat
    PROVE  \E F : F = [i \in 1 .. m |-> IF i = 1 THEN ss[i] ELSE F[i - 1] \o ss[i]]
<1>. DEFINE Turn(F, n) ==
                [i \in 1 .. n |-> IF i = 1 THEN ss[i] ELSE F[i - 1] \o ss[i]]
            T == {n \in Nat : \E F : F = Turn(F, n)}
<1>1. 0 \in T
  <2>1. [i \in 1 .. 0 |-> 0] = Turn([i \in 1 .. 0 |-> 0], 0)
    OBVIOUS
  <2>. QED BY <2>1
<1>2. ASSUME NEW n \in T PROVE n + 1 \in T
  <2>1. PICK F : F = Turn(F, n)
    OBVIOUS
  <2>. DEFINE last == IF n = 0 THEN ss[1] ELSE F[n] \o ss[n + 1]
              G == [i \in 1 .. n + 1 |-> IF i = n + 1 THEN last ELSE F[i]]
  <2>2. ASSUME NEW i \in 1 .. n + 1 PROVE G[i] = Turn(G, n + 1)[i]
    <3>1. i \in 1 .. n \/ i = n + 1
      OBVIOUS
    <3>2. CASE i \in 1 .. n
      <4>1. F[i] = IF i = 1 THEN ss[i] ELSE F[i - 1] \o ss[i]
        BY <2>1, <3>2
      <4>2. i # n + 1 /\ (i # 1 => i - 1 \in 1 .. n + 1 /\ i - 1 # n + 1)
        BY <3>2
      <4>. QED BY <4>1, <4>2
    <3>3. CASE i = n + 1
      <4>1. n # 0 => n \in 1 .. n + 1 /\ n # n + 1 /\ (n + 1) - 1 = n /\ n + 1 # 1
        OBVIOUS
      <4>2. n = 0 => n + 1 = 1
        OBVIOUS
      <4>. QED BY <3>3, <4>1, <4>2
    <3>. QED BY <3>1, <3>2, <3>3
  <2>3. G = Turn(G, n + 1)
    <3>1. G = [i \in 1 .. n + 1 |-> G[i]]
      OBVIOUS
    <3>2. Turn(G, n + 1) = [i \in 1 .. n + 1 |-> Turn(G, n + 1)[i]]
      OBVIOUS
    <3>. HIDE DEF G, Turn
    <3>. QED BY <2>2, <3>1, <3>2
  <2>4. n + 1 \in Nat
    OBVIOUS
  <2>. HIDE DEF G, Turn
  <2>. QED BY <2>3, <2>4
<1>3. Nat \subseteq T
  <2>. HIDE DEF T
  <2>. QED BY <1>1, <1>2, SetInduction
<1>. QED BY <1>3

(* F is a run of that recursion over the first n parts.                    *)
Runs(F, ss, n) ==
    \A i \in 1 .. n : F[i] = IF i = 1 THEN ss[i] ELSE F[i - 1] \o ss[i]

(* A run of the recursion over more parts goes through the run over fewer. *)
LEMMA FlattenAgrees ==
    ASSUME NEW ss, NEW tt, NEW F, NEW G, NEW m \in Nat, NEW n \in Nat, m <= n,
           \A i \in 1 .. m : ss[i] = tt[i], Runs(F, ss, m), Runs(G, tt, n)
    PROVE  \A i \in 1 .. m : F[i] = G[i]
<1>. DEFINE T == {k \in Nat : k \in 1 .. m => F[k] = G[k]}
<1>1. 0 \in T
  OBVIOUS
<1>2. ASSUME NEW k \in T PROVE k + 1 \in T
  <2>. SUFFICES ASSUME k + 1 \in 1 .. m PROVE F[k + 1] = G[k + 1]
    OBVIOUS
  <2>1. /\ k + 1 \in 1 .. n /\ (k + 1) - 1 = k /\ (k # 0 => k + 1 # 1 /\ k \in 1 .. m)
        /\ (k = 0 => k + 1 = 1)
    OBVIOUS
  <2>2. F[k + 1] = IF k + 1 = 1 THEN ss[k + 1] ELSE F[(k + 1) - 1] \o ss[k + 1]
    BY DEF Runs
  <2>3. G[k + 1] = IF k + 1 = 1 THEN tt[k + 1] ELSE G[(k + 1) - 1] \o tt[k + 1]
    BY <2>1 DEF Runs
  <2>4. k # 0 => F[k] = G[k]
    BY <2>1
  <2>5. ss[k + 1] = tt[k + 1]
    OBVIOUS
  <2>. QED BY <2>1, <2>2, <2>3, <2>4, <2>5
<1>3. Nat \subseteq T
  <2>. HIDE DEF T
  <2>. QED BY <1>1, <1>2, SetInduction
<1>. TAKE i \in 1 .. m
<1>4. i \in Nat
  OBVIOUS
<1>5. i \in T
  <2>. HIDE DEF T
  <2>. QED BY <1>3, <1>4
<1>. QED BY <1>5

(* What FlattenSeq computes: the last value of its recursion.              *)
LEMMA FlattenLast ==
    ASSUME NEW ss, Len(ss) \in Nat, Len(ss) # 0
    PROVE  \E F : Runs(F, ss, Len(ss)) /\ FlattenSeq(ss) = F[Len(ss)]
<1>. DEFINE Turn(F) ==
                [i \in 1 .. Len(ss) |-> IF i = 1 THEN ss[i] ELSE F[i - 1] \o ss[i]]
            flatten == CHOOSE F : F = Turn(F)
<1>1. \E F : F = Turn(F)
  BY FlattenRuns
<1>2. flatten = Turn(flatten)
  <2>. HIDE DEF Turn
  <2>. QED BY <1>1
<1>3. FlattenSeq(ss) = flatten[Len(ss)]
  BY DEF FlattenSeq
<1>4. Runs(flatten, ss, Len(ss))
  <2>. HIDE DEF flatten
  <2>. QED BY <1>2 DEF Runs
<1>. QED BY <1>3, <1>4

(* FlattenSeq, part by part.                                               *)
LEMMA FlattenAppend ==
    ASSUME NEW S, NEW ss \in Seq(Seq(S)), NEW e \in Seq(S)
    PROVE  FlattenSeq(Append(ss, e)) = IF ss = <<>> THEN e ELSE FlattenSeq(ss) \o e
<1>. DEFINE longer == Append(ss, e)
            parts == Len(ss)
<1>1. /\ parts \in Nat /\ Len(longer) = parts + 1 /\ longer[parts + 1] = e
      /\ \A i \in 1 .. parts : ss[i] = longer[i]
      /\ ss = <<>> <=> parts = 0
  BY AppendProperties, EmptySeq
<1>. HIDE DEF longer, parts
<1>2. Len(longer) \in Nat /\ Len(longer) # 0
  BY <1>1
<1>3. PICK G : Runs(G, longer, Len(longer)) /\ FlattenSeq(longer) = G[Len(longer)]
  BY <1>2, FlattenLast
<1>4. CASE ss = <<>>
  BY <1>1, <1>3, <1>4 DEF longer, Runs
<1>5. CASE ss # <<>>
  <2>1. PICK F : Runs(F, ss, Len(ss)) /\ FlattenSeq(ss) = F[Len(ss)]
    BY <1>1, <1>5, FlattenLast DEF parts
  <2>2. /\ Runs(F, ss, parts) /\ Runs(G, longer, parts + 1)
        /\ parts \in Nat /\ parts + 1 \in Nat /\ parts <= parts + 1
    BY <1>1, <1>3, <2>1 DEF parts
  <2>3. \A i \in 1 .. parts : F[i] = G[i]
    BY <1>1, <2>2, FlattenAgrees
  <2>4. parts \in 1 .. parts /\ parts + 1 \in 1 .. parts + 1 /\ parts + 1 # 1 /\ (parts + 1) - 1 = parts
    BY <1>1, <1>5
  <2>5. G[parts + 1] = G[parts] \o longer[parts + 1]
    BY <2>2, <2>4 DEF Runs
  <2>. QED BY <1>1, <1>3, <1>5, <2>1, <2>3, <2>4, <2>5 DEF longer, parts
<1>. QED BY <1>4, <1>5 DEF longer

(* A word is WordSize bytes.                                               *)
LEMMA WordBytes ==
    ASSUME NEW v \in Values
    PROVE  /\ Word(v) \in Seq(Bytes)
           /\ Len(Word(v)) = WordSize
           /\ \A k \in 1 .. WordSize : Word(v)[k] = <<v, k>>
<1>. USE WordAssumption DEF Word, Bytes
<1>1. \A k \in 1 .. WordSize : <<v, k>> \in Values \X Nat
  OBVIOUS
<1>. QED BY <1>1

(* Words, word by word.                                                    *)
LEMMA WordsEmpty == Words(<<>>) = <<>>
<1>1. [i \in DOMAIN <<>> |-> Word(<<>>[i])] = <<>>
  OBVIOUS
<1>. QED BY <1>1 DEF Words, FlattenSeq

(* One more word is one more word of bytes at the end.                     *)
LEMMA WordsAppend ==
    ASSUME NEW vs \in Seq(Values), NEW v \in Values
    PROVE  Words(Append(vs, v)) = Words(vs) \o Word(v)
<1>. DEFINE ss == [i \in DOMAIN vs |-> Word(vs[i])]
            ws == Append(vs, v)
            tt == [i \in DOMAIN ws |-> Word(ws[i])]
<1>1. /\ DOMAIN vs = 1 .. Len(vs) /\ Len(vs) \in Nat /\ \A i \in 1 .. Len(vs) : vs[i] \in Values
      /\ DOMAIN ws = 1 .. Len(vs) + 1 /\ ws[Len(vs) + 1] = v
      /\ \A i \in 1 .. Len(vs) : ws[i] = vs[i]
  BY AppendProperties
<1>2. Word(v) \in Seq(Bytes) /\ \A i \in 1 .. Len(vs) : Word(vs[i]) \in Seq(Bytes)
  BY <1>1, WordBytes
<1>. HIDE DEF ws
<1>3. ss \in Seq(Seq(Bytes)) /\ Len(ss) = Len(vs)
  BY <1>1, <1>2
<1>4. tt = Append(ss, Word(v))
  <2>1. /\ Append(ss, Word(v)) \in Seq(Seq(Bytes)) /\ Len(Append(ss, Word(v))) = Len(vs) + 1
        /\ Append(ss, Word(v))[Len(vs) + 1] = Word(v)
        /\ \A i \in 1 .. Len(vs) : Append(ss, Word(v))[i] = Word(vs[i])
    <3>1. \A i \in 1 .. Len(vs) : ss[i] = Word(vs[i])
      BY <1>1
    <3>. HIDE DEF ss
    <3>. QED BY <1>2, <1>3, <3>1, AppendProperties
  <2>2. \A i \in 1 .. Len(vs) + 1 : tt[i] = Word(ws[i]) /\ Word(ws[i]) \in Seq(Bytes)
    BY <1>1, <1>2
  <2>3. tt \in Seq(Seq(Bytes)) /\ Len(tt) = Len(vs) + 1
    BY <1>1, <2>2
  <2>4. \A i \in 1 .. Len(vs) + 1 : tt[i] = Append(ss, Word(v))[i]
    BY <1>1, <2>1, <2>2
  <2>. HIDE DEF tt, ss
  <2>. QED BY <2>1, <2>3, <2>4, SeqEqual
<1>5. CASE ss = <<>>
  <2>1. FlattenSeq(ss) = <<>>
    BY <1>5 DEF FlattenSeq
  <2>2. FlattenSeq(tt) = Word(v)
    <3>. HIDE DEF ss, tt
    <3>. QED BY <1>2, <1>3, <1>4, <1>5, FlattenAppend
  <2>. QED BY <1>2, <2>1, <2>2, ConcatEmptySeq DEF Words, ws
<1>6. CASE ss # <<>>
  <2>1. FlattenSeq(tt) = FlattenSeq(ss) \o Word(v)
    <3>. HIDE DEF ss, tt
    <3>. QED BY <1>2, <1>3, <1>4, <1>6, FlattenAppend
  <2>. QED BY <2>1 DEF Words, ws
<1>. QED BY <1>5, <1>6

(* Products of numbers grow with their factors.                            *)
LEMMA Products ==
    ASSUME NEW w \in Nat \ {0}, NEW i \in Nat, NEW n \in Nat
    PROVE  /\ w * n \in Nat /\ n * w = w * n
           /\ w * (n + 1) = w * n + w
           /\ i < n => w * i + w <= w * n
           /\ (w * n) \div w = n
<1>1. w * n \in Nat /\ n * w = w * n /\ w * (n + 1) = w * n + w
  OBVIOUS
<1>2. ASSUME i < n PROVE w * i + w <= w * n
  <2>1. PICK d \in Nat : n = i + 1 + d
    <3>1. n - i - 1 \in Nat /\ n = i + 1 + (n - i - 1)
      BY <1>2
    <3>. QED BY <3>1
  <2>2. w * n = w * i + w + w * d
    BY <2>1
  <2>3. w * d \in Nat /\ w * i \in Nat
    OBVIOUS
  <2>. QED BY <2>2, <2>3
<1>3. (w * n) \div w = n
  OBVIOUS
<1>. QED BY <1>1, <1>2, <1>3

(* The bytes of a list of words: how many there are, and where a word starts. *)
LEMMA WordsBytes ==
    ASSUME NEW vs \in Seq(Values)
    PROVE  /\ Words(vs) \in Seq(Bytes)
           /\ Len(Words(vs)) = WordSize * Len(vs)
           /\ \A i \in 1 .. Len(vs) : Words(vs)[WordSize * (i - 1) + 1] = <<vs[i], 1>>
<1>. DEFINE Fine(ws) ==
                /\ Words(ws) \in Seq(Bytes)
                /\ Len(Words(ws)) = WordSize * Len(ws)
                /\ \A i \in 1 .. Len(ws) :
                       Words(ws)[WordSize * (i - 1) + 1] = <<ws[i], 1>>
            T == {n \in Nat : \A ws \in Seq(Values) : Len(ws) = n => Fine(ws)}
<1>. USE WordAssumption
<1>1. 0 \in T
  <2>1. Fine(<<>>)
    <3>1. <<>> \in Seq(Bytes) /\ Len(<<>>) = 0 /\ WordSize * 0 = 0 /\ 1 .. 0 = {}
      OBVIOUS
    <3>. QED BY <3>1, WordsEmpty
  <2>2. \A ws \in Seq(Values) : Len(ws) = 0 => ws = <<>>
    BY EmptySeq
  <2>. HIDE DEF Fine
  <2>. QED BY <2>1, <2>2
<1>2. ASSUME NEW n \in T PROVE n + 1 \in T
  <2>0. n \in Nat /\ n + 1 \in Nat
    OBVIOUS
  <2>. SUFFICES ASSUME NEW ws \in Seq(Values), Len(ws) = n + 1 PROVE Fine(ws)
    <3>. HIDE DEF Fine
    <3>. QED BY <2>0
  <2>1. PICK us \in Seq(Values), v \in Values : ws = Append(us, v)
    <3>1. ws # <<>>
      OBVIOUS
    <3>. QED BY <3>1, SequenceEmptyOrAppend
  <2>2. /\ Len(us) = n /\ ws[n + 1] = v /\ \A i \in 1 .. n : ws[i] = us[i]
    BY <2>1, AppendProperties
  <2>3. Fine(us)
    BY <2>2
  <2>4. Words(ws) = Words(us) \o Word(v)
    BY <2>1, WordsAppend
  <2>5. /\ Word(v) \in Seq(Bytes) /\ Len(Word(v)) = WordSize /\ Word(v)[1] = <<v, 1>>
    <3>1. 1 \in 1 .. WordSize
      OBVIOUS
    <3>. QED BY <3>1, WordBytes
  <2>6. PICK a, b : a = Words(us) /\ b = Word(v)
    OBVIOUS
  <2>7. /\ a \in Seq(Bytes) /\ b \in Seq(Bytes) /\ Len(a) = WordSize * n
        /\ Len(b) = WordSize /\ b[1] = <<v, 1>> /\ Words(ws) = a \o b
        /\ \A i \in 1 .. n : a[WordSize * (i - 1) + 1] = <<us[i], 1>>
    BY <2>2, <2>3, <2>4, <2>5, <2>6
  <2>8. a \o b \in Seq(Bytes) /\ Len(a \o b) = WordSize * (n + 1)
    <3>1. a \o b \in Seq(Bytes) /\ Len(a \o b) = Len(a) + Len(b)
      BY <2>7, ConcatProperties
    <3>2. WordSize * (n + 1) = WordSize * n + WordSize
      BY <2>0, Products
    <3>. QED BY <2>7, <3>1, <3>2
  <2>9. ASSUME NEW i \in 1 .. n + 1
        PROVE  (a \o b)[WordSize * (i - 1) + 1] = <<ws[i], 1>>
    <3>1. CASE i = n + 1
      <4>1. /\ WordSize * (i - 1) + 1 = Len(a) + 1
            /\ Len(a) \in Nat /\ Len(b) >= 1
        BY <2>7, <3>1, Products
      <4>2. (a \o b)[Len(a) + 1] = b[1]
        <5>1. Len(a) + 1 \in 1 .. Len(a) + Len(b) /\ ~(Len(a) + 1 <= Len(a))
              /\ (Len(a) + 1) - Len(a) = 1
          BY <2>7, <4>1
        <5>. QED BY <2>7, <5>1, ConcatProperties
      <4>. QED BY <2>2, <2>7, <3>1, <4>1, <4>2
    <3>2. CASE i \in 1 .. n
      <4>1. PICK j : j = i - 1
        OBVIOUS
      <4>2. j \in Nat /\ j < n
        BY <3>2, <4>1
      <4>3. WordSize * j + 1 \in 1 .. Len(a)
        <5>1. WordSize * j + WordSize <= WordSize * n /\ WordSize * j \in Nat
          BY <4>2, Products
        <5>. QED BY <2>7, <5>1
      <4>4. (a \o b)[WordSize * j + 1] = a[WordSize * j + 1]
        <5>1. WordSize * j + 1 \in 1 .. Len(a) + Len(b) /\ WordSize * j + 1 <= Len(a)
          BY <2>7, <4>3
        <5>. QED BY <2>7, <5>1, ConcatProperties
      <4>. QED BY <2>2, <2>7, <3>2, <4>1, <4>4
    <3>3. i = n + 1 \/ i \in 1 .. n
      BY <2>0
    <3>. QED BY <3>1, <3>2, <3>3
  <2>. QED BY <2>2, <2>6, <2>7, <2>8, <2>9
<1>3. Nat \subseteq T
  <2>. HIDE DEF T
  <2>. QED BY <1>1, <1>2, SetInduction
<1>4. Len(vs) \in T
  <2>. HIDE DEF T
  <2>. QED BY <1>3
<1>. QED BY <1>4

(* The bytes of two lists of words, one after the other.                   *)
LEMMA WordsConcat ==
    ASSUME NEW vs \in Seq(Values), NEW ws \in Seq(Values)
    PROVE  Words(vs \o ws) = Words(vs) \o Words(ws)
<1>. DEFINE Fine(us) == Words(vs \o us) = Words(vs) \o Words(us)
            T == {n \in Nat : \A us \in Seq(Values) : Len(us) = n => Fine(us)}
<1>1. 0 \in T
  <2>1. Fine(<<>>)
    BY WordsEmpty, WordsBytes, ConcatEmptySeq
  <2>2. \A us \in Seq(Values) : Len(us) = 0 => us = <<>>
    BY EmptySeq
  <2>. HIDE DEF Fine
  <2>. QED BY <2>1, <2>2
<1>2. ASSUME NEW n \in T PROVE n + 1 \in T
  <2>0. n \in Nat /\ n + 1 \in Nat
    OBVIOUS
  <2>. SUFFICES ASSUME NEW xs \in Seq(Values), Len(xs) = n + 1 PROVE Fine(xs)
    <3>. HIDE DEF Fine
    <3>. QED BY <2>0
  <2>1. PICK us \in Seq(Values), v \in Values : xs = Append(us, v)
    <3>1. xs # <<>>
      OBVIOUS
    <3>. QED BY <3>1, SequenceEmptyOrAppend
  <2>2. Len(us) = n
    BY <2>1, AppendProperties
  <2>3. Fine(us)
    BY <2>2
  <2>4. vs \o us \in Seq(Values) /\ <<v>> \in Seq(Values)
    BY ConcatProperties
  <2>5. vs \o xs = Append(vs \o us, v)
    <3>1. vs \o xs = vs \o (us \o <<v>>)
      BY <2>1, AppendIsConcat
    <3>2. vs \o (us \o <<v>>) = (vs \o us) \o <<v>>
      BY <2>4, ConcatAssociative
    <3>. QED BY <2>4, <3>1, <3>2, AppendIsConcat
  <2>6. /\ Words(vs \o xs) = Words(vs \o us) \o Word(v)
        /\ Words(xs) = Words(us) \o Word(v)
    BY <2>1, <2>4, <2>5, WordsAppend
  <2>7. /\ Words(vs) \in Seq(Bytes) /\ Words(us) \in Seq(Bytes) /\ Word(v) \in Seq(Bytes)
    BY WordsBytes, WordBytes
  <2>8. (Words(vs) \o Words(us)) \o Word(v) = Words(vs) \o (Words(us) \o Word(v))
    <3>1. PICK a, b, c : a = Words(vs) /\ b = Words(us) /\ c = Word(v)
      OBVIOUS
    <3>2. a \in Seq(Bytes) /\ b \in Seq(Bytes) /\ c \in Seq(Bytes)
      BY <2>7, <3>1
    <3>3. (a \o b) \o c = a \o (b \o c)
      BY <3>2, ConcatAssociative
    <3>. QED BY <3>1, <3>3
  <2>. QED BY <2>3, <2>6, <2>8
<1>3. Nat \subseteq T
  <2>. HIDE DEF T
  <2>. QED BY <1>1, <1>2, SetInduction
<1>4. Len(ws) \in T
  <2>. HIDE DEF T
  <2>. QED BY <1>3
<1>. QED BY <1>4

(* What the bytes of words spell.                                          *)
LEMMA IntsOfWords ==
    ASSUME NEW vs \in Seq(Values)
    PROVE  Ints(Words(vs)) = vs
<1>. USE WordAssumption
<1>1. /\ Len(Words(vs)) = WordSize * Len(vs) /\ Len(vs) \in Nat
      /\ \A i \in 1 .. Len(vs) : Words(vs)[WordSize * (i - 1) + 1] = <<vs[i], 1>>
  BY WordsBytes
<1>2. (WordSize * Len(vs)) \div WordSize = Len(vs)
  BY <1>1, Products
<1>3. Ints(Words(vs)) = [i \in 1 .. Len(vs) |-> vs[i]]
  BY <1>1, <1>2 DEF Ints
<1>. QED BY <1>3

(* The bytes of one word spell its value.                                  *)
LEMMA IntOfWord ==
    ASSUME NEW v \in Values
    PROVE  Ints(Word(v))[1] = v
<1>. USE WordAssumption
<1>1. Len(Word(v)) = WordSize /\ Word(v)[1] = <<v, 1>>
  BY WordBytes
<1>2. WordSize \div WordSize = 1 /\ WordSize * (1 - 1) + 1 = 1
  <2>1. WordSize * 1 = WordSize /\ (WordSize * 1) \div WordSize = 1
    BY Products
  <2>. QED BY <2>1
<1>3. Ints(Word(v))[1] = Word(v)[WordSize * (1 - 1) + 1][1]
  BY <1>1, <1>2 DEF Ints
<1>. QED BY <1>1, <1>2, <1>3

-----------------------------------------------------------------------------
(* A stream cut in two.                                                    *)
LEMMA StreamCut ==
    ASSUME NEW s \in Seq(Bytes), NEW k \in 0 .. Len(s)
    PROVE  /\ SubSeq(s, 1, k) \in Seq(Bytes) /\ Len(SubSeq(s, 1, k)) = k
           /\ SubSeq(s, k + 1, Len(s)) \in Seq(Bytes)
           /\ s = SubSeq(s, 1, k) \o SubSeq(s, k + 1, Len(s))
<1>1. Len(s) \in Nat /\ \A i \in 1 .. Len(s) : s[i] \in Bytes
  OBVIOUS
<1>2. /\ SubSeq(s, 1, k) \in Seq(Bytes) /\ Len(SubSeq(s, 1, k)) = k
      /\ SubSeq(s, k + 1, Len(s)) \in Seq(Bytes)
  BY <1>1, SubSeqProperties
<1>3. SubSeq(s, 1, k) \o SubSeq(s, k + 1, Len(s)) = SubSeq(s, 1, Len(s))
  <2>1. 1 \in 1 .. Len(s) + 1 /\ k \in 1 - 1 .. Len(s) /\ Len(s) \in k .. Len(s)
    BY <1>1
  <2>. QED BY <2>1, ConcatAdjacentSubSeq
<1>. QED BY <1>2, <1>3, SubSeqFull

(* Reading moves bytes from one end to the other, and changes nothing.     *)
LEMMA StreamMoves ==
    ASSUME NEW a \in Seq(Bytes), NEW s \in Seq(Bytes), NEW k \in 0 .. Len(s)
    PROVE  /\ a \o SubSeq(s, 1, k) \in Seq(Bytes)
           /\ Len(a \o SubSeq(s, 1, k)) = Len(a) + k
           /\ (a \o SubSeq(s, 1, k)) \o SubSeq(s, k + 1, Len(s)) = a \o s
<1>. DEFINE l == SubSeq(s, 1, k)
            r == SubSeq(s, k + 1, Len(s))
<1>1. l \in Seq(Bytes) /\ Len(l) = k /\ r \in Seq(Bytes) /\ s = l \o r
  BY StreamCut
<1>. HIDE DEF l, r
<1>2. a \o l \in Seq(Bytes) /\ Len(a \o l) = Len(a) + k
  BY <1>1, ConcatProperties
<1>3. (a \o l) \o r = a \o s
  BY <1>1, ConcatAssociative
<1>. QED BY <1>2, <1>3 DEF l, r

(* How a beginning of a beginning, and what follows it, begin.             *)
LEMMA BeginsLess ==
    ASSUME NEW a \in Seq(Bytes), NEW b \in Seq(Bytes), NEW t, Begins(a \o b, t)
    PROVE  Begins(a, t)
<1>1. PICK u \in Seq(Bytes) : t = (a \o b) \o u
  BY DEF Begins
<1>2. t = a \o (b \o u) /\ b \o u \in Seq(Bytes)
  BY <1>1, ConcatAssociative, ConcatProperties
<1>. QED BY <1>2 DEF Begins

(* So does a stream that is cut short.                                     *)
LEMMA BeginsCut ==
    ASSUME NEW a \in Seq(Bytes), NEW b \in Seq(Bytes), NEW t, Begins(a \o b, t),
           NEW n \in 0 .. Len(b)
    PROVE  Begins(a \o SubSeq(b, 1, n), t)
<1>. DEFINE l == SubSeq(b, 1, n)
            r == SubSeq(b, n + 1, Len(b))
<1>1. l \in Seq(Bytes) /\ r \in Seq(Bytes) /\ b = l \o r
  BY StreamCut
<1>. HIDE DEF l, r
<1>2. a \o b = (a \o l) \o r /\ a \o l \in Seq(Bytes)
  BY <1>1, ConcatAssociative, ConcatProperties
<1>3. Begins(a \o l, t)
  BY <1>1, <1>2, BeginsLess
<1>. QED BY <1>3 DEF l

(* A stream begins in one way, up to a given length.                       *)
LEMMA BeginsSame ==
    ASSUME NEW s \in Seq(Bytes), NEW r \in Seq(Bytes), NEW t,
           Begins(s, t), Begins(r, t), Len(s) = Len(r)
    PROVE  s = r
<1>1. PICK u \in Seq(Bytes) : t = s \o u
  BY DEF Begins
<1>2. PICK w \in Seq(Bytes) : t = r \o w
  BY DEF Begins
<1>3. /\ \A i \in 1 .. Len(s) : (s \o u)[i] = s[i]
      /\ \A i \in 1 .. Len(r) : (r \o w)[i] = r[i]
  BY ConcatProperties
<1>4. \A i \in 1 .. Len(s) : s[i] = r[i]
  BY <1>1, <1>2, <1>3
<1>. QED BY <1>4, SeqEqual

(* How a message begins is no longer than it, and is all of it if as long. *)
LEMMA BeginsLength ==
    ASSUME NEW s \in Seq(Bytes), NEW t \in Seq(Bytes), Begins(s, t)
    PROVE  Len(s) <= Len(t) /\ (Len(s) = Len(t) => s = t)
<1>1. PICK u \in Seq(Bytes) : t = s \o u
  BY DEF Begins
<1>2. Len(t) = Len(s) + Len(u) /\ Len(u) \in Nat /\ Len(s) \in Nat
  BY <1>1, ConcatProperties
<1>3. Len(u) = 0 => u = <<>>
  BY EmptySeq
<1>. QED BY <1>1, <1>2, <1>3, ConcatEmptySeq

-----------------------------------------------------------------------------
(* A list of tokens is a list of values.                                   *)
LEMMA TokenValues ==
    ASSUME NEW s \in Seq(Tokens)
    PROVE  s \in Seq(Values) /\ Len(s) \in Nat /\ Len(s) \in Values
<1>1. Tokens \subseteq Values /\ Nat \subseteq Values
  BY DEF Values
<1>. QED BY <1>1, SeqMonotonic

(* A query is the words of its meta data and of its vector.                *)
LEMMA QueryBytesAre ==
    ASSUME NEW c \in Client, NEW d \in Nat
    PROVE  /\ Meta(c) \in Seq(Bytes) /\ Len(Meta(c)) = WordSize * MetaWords
           /\ Vector(c, d) \in Seq(Bytes) /\ Len(Vector(c, d)) = WordSize * d
           /\ Meta(c) \o Vector(c, d) \in Seq(Bytes)
           /\ Len(Meta(c) \o Vector(c, d)) = WordSize * (MetaWords + d)
<1>. USE WordAssumption, RetrievalAssumption
<1>. DEFINE m == [i \in 1 .. MetaWords |-> c]
            v == [i \in 1 .. d |-> <<c, i>>]
<1>1. m \in Seq(Values) /\ Len(m) = MetaWords /\ MetaWords \in Nat
  BY DEF Values
<1>2. v \in Seq(Values) /\ Len(v) = d
  <2>1. \A i \in 1 .. d : <<c, i>> \in Values
    BY DEF Values
  <2>. QED BY <2>1
<1>. HIDE DEF m, v
<1>3. PICK a, b : a = Words(m) /\ b = Words(v)
  OBVIOUS
<1>4. /\ a \in Seq(Bytes) /\ Len(a) = WordSize * MetaWords
      /\ b \in Seq(Bytes) /\ Len(b) = WordSize * d
  BY <1>1, <1>2, <1>3, WordsBytes
<1>5. a \o b \in Seq(Bytes) /\ Len(a \o b) = Len(a) + Len(b)
  BY <1>4, ConcatProperties
<1>6. WordSize * (MetaWords + d) = WordSize * MetaWords + WordSize * d
  BY <1>1
<1>. QED BY <1>3, <1>4, <1>5, <1>6 DEF Meta, Vector, m, v

(* The vector that the server reads is how the gateway's begins.           *)
LEMMA VectorBegins ==
    ASSUME NEW c \in Client, NEW d \in Nat, NEW e \in Nat, d <= e
    PROVE  \E u \in Seq(Bytes) : Vector(c, e) = Vector(c, d) \o u
<1>. DEFINE v == [i \in 1 .. d |-> <<c, i>>]
            w == [i \in 1 .. e |-> <<c, i>>]
            r == [i \in 1 .. e - d |-> <<c, i + d>>]
<1>0. \A i \in Nat : <<c, i>> \in Values
  BY DEF Values
<1>1. v \in Seq(Values) /\ Len(v) = d /\ w \in Seq(Values) /\ Len(w) = e
  BY <1>0
<1>2. r \in Seq(Values) /\ Len(r) = e - d
  <2>1. e - d \in Nat /\ \A i \in 1 .. e - d : i + d \in Nat
    OBVIOUS
  <2>. QED BY <1>0, <2>1
<1>3. w = v \o r
  <2>1. /\ v \o r \in Seq(Values) /\ Len(v \o r) = e
        /\ \A i \in 1 .. e : (v \o r)[i] = IF i <= d THEN v[i] ELSE r[i - d]
    <3>. HIDE DEF v, r
    <3>1. /\ v \o r \in Seq(Values) /\ Len(v \o r) = Len(v) + Len(r)
          /\ \A i \in 1 .. Len(v) + Len(r) :
                 (v \o r)[i] = IF i <= Len(v) THEN v[i] ELSE r[i - Len(v)]
      BY <1>1, <1>2, ConcatProperties
    <3>2. Len(v) + Len(r) = e
      BY <1>1, <1>2
    <3>. QED BY <1>1, <3>1, <3>2
  <2>2. ASSUME NEW i \in 1 .. e PROVE w[i] = (v \o r)[i]
    <3>1. CASE i <= d
      <4>1. w[i] = <<c, i>> /\ v[i] = <<c, i>>
        BY <3>1
      <4>. HIDE DEF v, w, r
      <4>. QED BY <2>1, <3>1, <4>1
    <3>2. CASE ~(i <= d)
      <4>1. i - d \in 1 .. e - d /\ (i - d) + d = i
        BY <3>2
      <4>2. w[i] = <<c, i>> /\ r[i - d] = <<c, i>>
        BY <4>1
      <4>. HIDE DEF v, w, r
      <4>. QED BY <2>1, <3>2, <4>2
    <3>. QED BY <3>1, <3>2
  <2>. HIDE DEF v, w, r
  <2>. QED BY <1>1, <2>1, <2>2, SeqEqual
<1>. HIDE DEF v, w, r
<1>4. Words(w) = Words(v) \o Words(r) /\ Words(r) \in Seq(Bytes)
  BY <1>1, <1>2, <1>3, WordsConcat, WordsBytes
<1>. QED BY <1>4 DEF Vector, v, w

(* Enough bytes of a query are the query that the server expects.          *)
LEMMA QueryRead ==
    ASSUME NEW c \in Client, NEW s \in Seq(Bytes),
           Begins(s, Query(c)), Len(s) = QueryBytes
    PROVE  s = Meta(c) \o Vector(c, ExpectedDims)
<1>. USE WordAssumption
<1>0. MetaWords \in Nat /\ SentDims \in Nat /\ ExpectedDims \in Nat
  BY RetrievalAssumption
<1>1. PICK m, v, x : m = Meta(c) /\ v = Vector(c, SentDims) /\ x = Vector(c, ExpectedDims)
  OBVIOUS
<1>2. /\ m \in Seq(Bytes) /\ v \in Seq(Bytes) /\ x \in Seq(Bytes)
      /\ m \o v \in Seq(Bytes) /\ Len(m \o v) = WordSize * (MetaWords + SentDims)
      /\ m \o x \in Seq(Bytes) /\ Len(m \o x) = WordSize * (MetaWords + ExpectedDims)
  BY <1>0, <1>1, QueryBytesAre
<1>3. Len(s) = Len(m \o x)
  BY <1>0, <1>2, Products DEF QueryBytes
<1>4. ExpectedDims <= SentDims
  <2>. SUFFICES ASSUME ~(ExpectedDims <= SentDims) PROVE FALSE
    OBVIOUS
  <2>1. MetaWords + SentDims < MetaWords + ExpectedDims
    BY <1>0
  <2>2. WordSize * (MetaWords + SentDims) + WordSize <= WordSize * (MetaWords + ExpectedDims)
    <3>1. PICK i, n : i = MetaWords + SentDims /\ n = MetaWords + ExpectedDims
      OBVIOUS
    <3>2. i \in Nat /\ n \in Nat /\ i < n
      BY <1>0, <2>1, <3>1
    <3>. QED BY <3>1, <3>2, Products
  <2>3. Len(s) <= Len(m \o v)
    BY <1>1, <1>2, BeginsLength DEF Query
  <2>4. PICK a, b : a = Len(m \o v) /\ b = Len(m \o x)
    OBVIOUS
  <2>5. a \in Nat /\ b \in Nat /\ a + WordSize <= b /\ b <= a
    BY <1>2, <1>3, <2>2, <2>3, <2>4
  <2>. QED BY <2>5
<1>5. PICK u \in Seq(Bytes) : v = x \o u
  BY <1>0, <1>1, <1>4, VectorBegins
<1>6. m \o v = (m \o x) \o u
  <2>1. (m \o x) \o u = m \o (x \o u)
    BY <1>2, <1>5, ConcatAssociative
  <2>. QED BY <1>5, <2>1
<1>7. Begins(m \o x, Query(c))
  BY <1>1, <1>6 DEF Begins, Query
<1>. QED BY <1>1, <1>2, <1>3, <1>7, BeginsSame

(* The bytes of an answer and of a prompt: a length, and that many words.  *)
LEMMA LengthPrefixed ==
    ASSUME NEW s \in Seq(Tokens)
    PROVE  /\ Word(Len(s)) \in Seq(Bytes) /\ Len(Word(Len(s))) = WordSize
           /\ Words(s) \in Seq(Bytes) /\ Len(Words(s)) = WordSize * Len(s)
           /\ Word(Len(s)) \o Words(s) \in Seq(Bytes)
           /\ Len(Word(Len(s)) \o Words(s)) = WordSize + WordSize * Len(s)
           /\ Announced(Len(s)) = WordSize + WordSize * Len(s)
<1>. USE WordAssumption
<1>1. s \in Seq(Values) /\ Len(s) \in Nat /\ Len(s) \in Values
  BY TokenValues
<1>2. PICK a, b, n : a = Word(Len(s)) /\ b = Words(s) /\ n = Len(s)
  OBVIOUS
<1>3. a \in Seq(Bytes) /\ Len(a) = WordSize /\ b \in Seq(Bytes) /\ Len(b) = WordSize * n
  BY <1>1, <1>2, WordBytes, WordsBytes
<1>4. a \o b \in Seq(Bytes) /\ Len(a \o b) = Len(a) + Len(b)
  BY <1>3, ConcatProperties
<1>5. Announced(n) = WordSize + WordSize * n
  <2>1. n \in Nat
    BY <1>1, <1>2
  <2>. QED BY <2>1 DEF Announced
<1>. QED BY <1>2, <1>3, <1>4, <1>5

(* A prompt has at least one token, so that its array is not empty.        *)
LEMMA PromptTypes ==
    ASSUME StreamTypes, NEW c \in Client
    PROVE  Prompt(c) \in Seq(Tokens) /\ Len(Prompt(c)) \in Nat \ {0}
<1>. USE RetrievalAssumption
<1>1. PICK a, b, q : a = <<BOS>> /\ b = context[c] /\ q = Question(c)
  OBVIOUS
<1>2. a \in Seq(Tokens) /\ b \in Seq(Tokens) /\ q \in Seq(Tokens) /\ Len(a) = 1
  BY <1>1 DEF StreamTypes
<1>3. a \o b \in Seq(Tokens) /\ Len(a \o b) = 1 + Len(b)
  BY <1>2, ConcatProperties
<1>4. Len(b) \in Nat /\ Len(q) \in Nat
  BY <1>2
<1>5. (a \o b) \o q \in Seq(Tokens) /\ Len((a \o b) \o q) = 1 + Len(b) + Len(q)
  <2>1. PICK d : d = a \o b
    OBVIOUS
  <2>2. d \o q \in Seq(Tokens) /\ Len(d \o q) = Len(d) + Len(q)
    BY <1>2, <1>3, <2>1, ConcatProperties
  <2>. QED BY <1>3, <1>4, <2>1, <2>2
<1>. QED BY <1>1, <1>5, <1>4 DEF Prompt

(* The first int that a stream spells is the word it starts with.          *)
LEMMA FirstInt ==
    ASSUME NEW v \in Values, NEW r \in Seq(Bytes)
    PROVE  /\ Word(v) \o r \in Seq(Bytes)
           /\ Len(Word(v) \o r) = WordSize + Len(r)
           /\ Ints(Word(v) \o r)[1] = v
           /\ SubSeq(Word(v) \o r, 1, WordSize) = Word(v)
           /\ SubSeq(Word(v) \o r, WordSize + 1, Len(Word(v) \o r)) = r
<1>. USE WordAssumption
<1>1. PICK a : a = Word(v)
  OBVIOUS
<1>2. a \in Seq(Bytes) /\ Len(a) = WordSize /\ a[1] = <<v, 1>>
  BY <1>1, WordBytes
<1>3. /\ a \o r \in Seq(Bytes) /\ Len(a \o r) = WordSize + Len(r)
      /\ (a \o r)[1] = <<v, 1>>
  <2>1. 1 \in 1 .. Len(a) + Len(r) /\ 1 <= Len(a)
    BY <1>2
  <2>. QED BY <1>2, <2>1, ConcatProperties
<1>4. Ints(a \o r)[1] = v
  <2>1. PICK n : n = Len(a \o r)
    OBVIOUS
  <2>2. n \in Nat /\ n >= WordSize
    BY <1>3, <2>1
  <2>3. 1 \in 1 .. n \div WordSize
    BY <2>2
  <2>4. WordSize * (1 - 1) + 1 = 1
    OBVIOUS
  <2>5. Ints(a \o r)[1] = (a \o r)[WordSize * (1 - 1) + 1][1]
    BY <2>1, <2>3 DEF Ints
  <2>. QED BY <1>3, <2>4, <2>5
<1>5. SubSeq(a \o r, 1, WordSize) = a
  <2>1. 1 \in 1 .. Len(a) /\ Len(a) \in 1 .. Len(a)
    BY <1>2
  <2>2. SubSeq(a \o r, 1, Len(a)) = SubSeq(a, 1, Len(a))
    BY <1>2, <2>1, SubSeqOfConcat1
  <2>. QED BY <1>2, <2>2, SubSeqFull
<1>6. SubSeq(a \o r, WordSize + 1, Len(a \o r)) = r
  <2>1. CASE Len(r) = 0
    <3>1. r = <<>> /\ Len(a \o r) < WordSize + 1
      BY <1>3, <2>1, EmptySeq
    <3>. QED BY <1>3, <3>1, SubSeqEmpty
  <2>2. CASE Len(r) # 0
    <3>1. /\ Len(a) + 1 \in Len(a) + 1 .. Len(a) + Len(r)
          /\ Len(a) + Len(r) \in Len(a) + 1 .. Len(a) + Len(r)
          /\ (Len(a) + 1) - Len(a) = 1 /\ (Len(a) + Len(r)) - Len(a) = Len(r)
      BY <1>2, <2>2
    <3>2. SubSeq(a \o r, Len(a) + 1, Len(a) + Len(r))
              = SubSeq(r, (Len(a) + 1) - Len(a), (Len(a) + Len(r)) - Len(a))
      BY <1>2, <3>1, SubSeqOfConcat2
    <3>3. SubSeq(a \o r, Len(a) + 1, Len(a) + Len(r)) = SubSeq(r, 1, Len(r))
      BY <3>1, <3>2
    <3>. QED BY <1>2, <1>3, <3>3, SubSeqFull
  <2>. QED BY <2>1, <2>2
<1>. QED BY <1>1, <1>3, <1>4, <1>5, <1>6

(* At first nothing is under way.                                          *)
LEMMA RetrievalInit == Init => RetrievalInv
<1>. SUFFICES ASSUME Init PROVE RetrievalInv
  OBVIOUS
<1>. USE RetrievalAssumption DEF Init, Waiting
<1>1. StreamTypes
  <2>1. /\ <<>> \in Seq(Bytes) /\ <<>> \in Seq(Tokens) /\ <<>> \in Seq(Client)
        /\ "question" \in Early
    BY DEF Early
  <2>. QED BY <2>1 DEF StreamTypes
<1>2. ToSet(<<>>) = {} /\ IsInjective(<<>>)
  BY DEF ToSet, IsInjective
<1>3. ASSUME NEW c \in Client PROVE QueryOf(c) /\ ReplyOf(c) /\ PromptOf(c)
  <2>1. pc[c] = "question" /\ handler[c] = "none" /\ received[c] = <<>> /\ dbUp[c] = <<>>
        /\ dbDown[c] = <<>> /\ dbEnd[c] = "open" /\ context[c] = <<>> /\ infUp[c] = <<>>
        /\ infEnd[c] = FALSE
    OBVIOUS
  <2>2. Begins(<<>>, Query(c))
    <3>1. Query(c) \in Seq(Bytes)
      BY QueryBytesAre DEF Query
    <3>2. Query(c) = <<>> \o Query(c)
      BY <3>1, ConcatEmptySeq
    <3>. QED BY <3>1, <3>2 DEF Begins
  <2>3. <<>> \o <<>> = <<>>
    <3>1. <<>> \in Seq(Bytes)
      OBVIOUS
    <3>. QED BY <3>1, ConcatEmptySeq
  <2>4. QueryOf(c)
    BY <2>1, <2>2, <2>3 DEF QueryOf, Searched
  <2>5. ReplyOf(c)
    BY <2>1 DEF ReplyOf, Sent, Later
  <2>6. ~Reading(c)
    BY <1>2 DEF Reading
  <2>7. PromptOf(c)
    BY <1>2, <2>1, <2>6 DEF PromptOf
  <2>. QED BY <2>4, <2>5, <2>7
<1>4. RequestInv /\ ListenerInv
  BY <1>2 DEF RequestInv, ListenerInv
<1>. QED BY <1>1, <1>3, <1>4 DEF RetrievalInv

-----------------------------------------------------------------------------
(* What the gateway may read in place of a length.                         *)
LEMMA SizeRead ==
    ASSUME RetrievalInv, NEW c \in Client, pc[c] = "size", dbDown[c] # <<>>
    PROVE  \E r \in {<<>>, Words(answer[c])} :
             /\ r \in Seq(Bytes) /\ dbDown[c] = Word(Len(answer[c])) \o r
             /\ Ints(dbDown[c])[1] = Len(answer[c])
             /\ SubSeq(dbDown[c], WordSize + 1, Len(dbDown[c])) = r
<1>1. answer[c] \in Seq(Tokens) /\ handler[c] \in {"none", "query", "closed"} \cup Searched
  BY DEF RetrievalInv, StreamTypes
<1>2. Len(answer[c]) \in Values
  BY <1>1, TokenValues
<1>3. /\ Words(answer[c]) \in Seq(Bytes) /\ Word(Len(answer[c])) \in Seq(Bytes)
      /\ <<>> \in Seq(Bytes)
  BY <1>1, LengthPrefixed
<1>4. dbDown[c] \in {Word(Len(answer[c])), Reply(c)}
  BY <1>1 DEF RetrievalInv, ReplyOf, Early, Sent, Searched
<1>5. PICK r \in {<<>>, Words(answer[c])} : dbDown[c] = Word(Len(answer[c])) \o r
  BY <1>3, <1>4, ConcatEmptySeq DEF Reply
<1>6. r \in Seq(Bytes)
  BY <1>3
<1>. QED BY <1>2, <1>5, <1>6, FirstInt

(* And in place of an array.                                               *)
LEMMA ArrayRead ==
    ASSUME RetrievalInv, NEW c \in Client, pc[c] = "payload"
    PROVE  /\ wanted[c] = Len(answer[c])
           /\ dbDown[c] \in {<<>>, Words(answer[c])}
           /\ handler[c] \in {"array", "close", "closed"}
           /\ Word(wanted[c]) \o dbDown[c] # <<>>
<1>1. /\ answer[c] \in Seq(Tokens) /\ handler[c] \in {"none", "query", "closed"} \cup Searched
      /\ wanted[c] \in Nat /\ dbDown[c] \in Seq(Bytes)
  BY DEF RetrievalInv, StreamTypes
<1>2. Len(answer[c]) \in Values /\ wanted[c] \in Values
  BY <1>1, TokenValues DEF Values
<1>3. /\ Words(answer[c]) \in Seq(Bytes) /\ Word(Len(answer[c])) \in Seq(Bytes)
      /\ <<>> \in Seq(Bytes)
  BY <1>1, LengthPrefixed
<1>4. PICK w, d : w = wanted[c] /\ d = dbDown[c]
  OBVIOUS
<1>5. /\ Word(w) \o d \in Seq(Bytes) /\ Len(Word(w) \o d) = WordSize + Len(d)
      /\ Ints(Word(w) \o d)[1] = w
      /\ SubSeq(Word(w) \o d, WordSize + 1, Len(Word(w) \o d)) = d
      /\ Len(d) \in Nat
  <2>1. w \in Values /\ d \in Seq(Bytes)
    BY <1>1, <1>2, <1>4
  <2>2. Len(d) \in Nat
    BY <2>1
  <2>. QED BY <2>1, <2>2, FirstInt
<1>6. Word(w) \o d # <<>>
  BY <1>5, WordAssumption
<1>7. /\ Word(w) \o d \in {Word(Len(answer[c])), Reply(c)}
      /\ handler[c] \in {"array", "close", "closed"}
  BY <1>1, <1>4, <1>6 DEF RetrievalInv, ReplyOf, Early, Sent, Searched
<1>8. PICK r \in {<<>>, Words(answer[c])} : Word(w) \o d = Word(Len(answer[c])) \o r
  BY <1>3, <1>7, ConcatEmptySeq DEF Reply
<1>9. r \in Seq(Bytes)
  BY <1>3
<1>10. /\ Ints(Word(Len(answer[c])) \o r)[1] = Len(answer[c])
       /\ SubSeq(Word(Len(answer[c])) \o r, WordSize + 1, Len(Word(Len(answer[c])) \o r)) = r
  BY <1>2, <1>9, FirstInt
<1>. QED BY <1>4, <1>5, <1>6, <1>7, <1>8, <1>10

(* A whole array is the answer.                                            *)
LEMMA WholeArray ==
    ASSUME RetrievalInv, NEW c \in Client, pc[c] = "payload",
           NEW k \in RecvSizes(dbDown[c], wanted[c] * WordSize),
           k = wanted[c] * WordSize
    PROVE  Ints(SubSeq(dbDown[c], 1, k)) = answer[c]
<1>1. dbDown[c] \in Seq(Bytes) /\ answer[c] \in Seq(Tokens) /\ wanted[c] \in Nat
  BY DEF RetrievalInv, StreamTypes
<1>2. wanted[c] = Len(answer[c]) /\ dbDown[c] \in {<<>>, Words(answer[c])}
  BY ArrayRead
<1>3. PICK s, n, w : s = dbDown[c] /\ n = Len(answer[c]) /\ w = Words(answer[c])
  OBVIOUS
<1>4. s \in Seq(Bytes) /\ Len(s) \in Nat /\ n \in Nat /\ WordSize \in Nat
  BY <1>1, <1>3, WordAssumption
<1>5. k = n * WordSize /\ n * WordSize \in Nat
  BY <1>2, <1>3, <1>4
<1>6. k \in 1 .. Len(s)
  <2>1. k \in 1 .. (IF Len(s) < n * WordSize THEN Len(s) ELSE n * WordSize)
    BY <1>2, <1>3 DEF RecvSizes
  <2>2. PICK m : m = n * WordSize
    OBVIOUS
  <2>. QED BY <1>4, <1>5, <2>1, <2>2
<1>7. s = w
  <2>1. s # <<>>
    <3>. SUFFICES ASSUME s = <<>> PROVE FALSE
      OBVIOUS
    <3>1. Len(s) = 0
      OBVIOUS
    <3>. QED BY <1>6, <3>1
  <2>. QED BY <1>2, <1>3, <2>1
<1>8. Len(w) = WordSize * n
  BY <1>1, <1>3, LengthPrefixed
<1>9. k = Len(s)
  BY <1>4, <1>5, <1>7, <1>8
<1>10. SubSeq(s, 1, k) = s
  BY <1>4, <1>9, SubSeqFull
<1>. QED BY <1>1, <1>3, <1>7, <1>10, TokenValues, IntsOfWords

(* What a handler may read of its query.                                   *)
LEMMA QueryStep ==
    ASSUME RetrievalInv, NEW c \in Client,
           NEW k \in RecvSizes(dbUp[c], QueryBytes - Len(received[c]))
    PROVE  /\ k \in 0 .. Len(dbUp[c])
           /\ SubSeq(dbUp[c], 1, k) \in Seq(Bytes)
           /\ SubSeq(dbUp[c], k + 1, Len(dbUp[c])) \in Seq(Bytes)
           /\ received[c] \o SubSeq(dbUp[c], 1, k) \in Seq(Bytes)
           /\ (received[c] \o SubSeq(dbUp[c], 1, k))
                  \o SubSeq(dbUp[c], k + 1, Len(dbUp[c])) = received[c] \o dbUp[c]
<1>1. dbUp[c] \in Seq(Bytes) /\ received[c] \in Seq(Bytes)
  BY DEF RetrievalInv, StreamTypes
<1>2. PICK a, s : a = received[c] /\ s = dbUp[c]
  OBVIOUS
<1>3. a \in Seq(Bytes) /\ s \in Seq(Bytes) /\ Len(s) \in Nat
  BY <1>1, <1>2
<1>4. k \in 0 .. Len(s)
  <2>1. PICK n : n = QueryBytes - Len(a)
    OBVIOUS
  <2>2. k \in 1 .. (IF Len(s) < n THEN Len(s) ELSE n)
    BY <1>2, <2>1 DEF RecvSizes
  <2>3. n \in Int
    <3>1. Len(a) \in Nat /\ QueryBytes \in Int
      BY <1>3, WordAssumption, RetrievalAssumption DEF QueryBytes
    <3>. QED BY <2>1, <3>1
  <2>. QED BY <1>3, <2>2, <2>3
<1>5. /\ a \o SubSeq(s, 1, k) \in Seq(Bytes)
      /\ (a \o SubSeq(s, 1, k)) \o SubSeq(s, k + 1, Len(s)) = a \o s
  BY <1>3, <1>4, StreamMoves
<1>6. SubSeq(s, k + 1, Len(s)) \in Seq(Bytes) /\ SubSeq(s, 1, k) \in Seq(Bytes)
  BY <1>3, <1>4, StreamCut
<1>. QED BY <1>2, <1>4, <1>5, <1>6

(* What the listener may read of a prompt.                                 *)
LEMMA PromptStep ==
    ASSUME RetrievalInv, NEW c \in Client, listener.conn = c,
           NEW k \in RecvSizes(infUp[c], listener.need - Len(listener.got)),
           NEW got, got = listener.got \o SubSeq(infUp[c], 1, k)
    PROVE  /\ k \in 0 .. Len(infUp[c]) /\ k # 0
           /\ SubSeq(infUp[c], k + 1, Len(infUp[c])) \in Seq(Bytes)
           /\ got \in Seq(Bytes) /\ Len(got) = Len(listener.got) + k
           /\ got \o SubSeq(infUp[c], k + 1, Len(infUp[c])) = listener.got \o infUp[c]
           /\ Len(got) <= listener.need
           /\ Begins(got, Message(c))
           /\ Len(got) = WordSize => got = Word(Len(Prompt(c)))
           /\ Len(got) = Announced(Len(Prompt(c))) => got = Message(c)
<1>1. infUp[c] \in Seq(Bytes) /\ listener.got \in Seq(Bytes) /\ listener.need \in Nat
  BY DEF RetrievalInv, StreamTypes
<1>2. PICK a, s, n : a = listener.got /\ s = infUp[c] /\ n = listener.need
  OBVIOUS
<1>3. a \in Seq(Bytes) /\ s \in Seq(Bytes) /\ Len(s) \in Nat /\ Len(a) \in Nat /\ n \in Nat
  BY <1>1, <1>2
<1>4. k \in 1 .. Len(s) /\ Len(a) + k <= n
  <2>1. k \in 1 .. (IF Len(s) < n - Len(a) THEN Len(s) ELSE n - Len(a))
    BY <1>2 DEF RecvSizes
  <2>. QED BY <1>3, <2>1
<1>5. k \in 0 .. Len(s) /\ k # 0
  BY <1>4
<1>6. /\ got \in Seq(Bytes) /\ Len(got) = Len(a) + k
      /\ got \o SubSeq(s, k + 1, Len(s)) = a \o s
  BY <1>2, <1>3, <1>5, StreamMoves
<1>7. SubSeq(s, k + 1, Len(s)) \in Seq(Bytes)
  BY <1>3, <1>5, StreamCut
<1>8. Begins(a \o s, Message(c))
  BY <1>2 DEF RetrievalInv, PromptOf, Reading, Got
<1>9. Begins(got, Message(c))
  BY <1>6, <1>7, <1>8, BeginsLess
<1>10. PICK p : p = Prompt(c)
  OBVIOUS
<1>11. /\ p \in Seq(Tokens) /\ Word(Len(p)) \in Seq(Bytes) /\ Len(Word(Len(p))) = WordSize
       /\ Words(p) \in Seq(Bytes) /\ Message(c) = Word(Len(p)) \o Words(p)
       /\ Message(c) \in Seq(Bytes) /\ Len(Message(c)) = Announced(Len(p))
  BY <1>10, PromptTypes, LengthPrefixed DEF RetrievalInv, Message
<1>12. Len(got) = WordSize => got = Word(Len(p))
  <2>1. Begins(Word(Len(p)), Message(c))
    BY <1>11 DEF Begins
  <2>. QED BY <1>6, <1>9, <1>11, <2>1, BeginsSame
<1>13. Len(got) = Announced(Len(p)) => got = Message(c)
  BY <1>6, <1>9, <1>11, BeginsLength
<1>. QED BY <1>2, <1>4, <1>5, <1>6, <1>7, <1>9, <1>10, <1>12, <1>13

-----------------------------------------------------------------------------
(* What the end of the database does to a connection.                      *)
Ended(c) ==
    /\ alive' = FALSE
    /\ handler[c] \in {"none", "closed"} =>
           handler'[c] = handler[c] /\ dbEnd'[c] = dbEnd[c]
    /\ handler[c] \notin {"none", "closed"} =>
           handler'[c] = "closed" /\ dbEnd'[c] \in {"fin", "rst"}

(* The end of the process is the end of every connection.                  *)
LEMMA EndsAll ==
    ASSUME DbDies, NEW c \in Client
    PROVE  Ended(c)
BY DEF DbDies, Ends, Ended

(* What belongs to a question that a step is not about.                    *)
Untouched(c) ==
    /\ pc'[c] = pc[c] /\ context'[c] = context[c] /\ wanted'[c] = wanted[c]
    /\ dbUp'[c] = dbUp[c] /\ dbDown'[c] = dbDown[c] /\ received'[c] = received[c]
    /\ answer'[c] = answer[c] /\ infUp'[c] = infUp[c]
    /\ \/ alive' = alive /\ handler'[c] = handler[c] /\ dbEnd'[c] = dbEnd[c]
       \/ Ended(c)

(* A gateway and its handler touch one question; the end of the database   *)
(* is all that the others may notice.                                      *)
LEMMA GatewayApart ==
    ASSUME StreamTypes, NEW d \in Client, Gateway(d) \/ Die(d),
           NEW c \in Client, c # d
    PROVE  Untouched(c) /\ UNCHANGED <<infEnd, listener, incoming>>
<1>. USE DEF StreamTypes, Untouched, dbVars, infVars, Goto, HandlerTo
<1>1. CASE AskDb(d)
  BY <1>1 DEF AskDb
<1>2. CASE SendVector(d)
  BY <1>2 DEF SendVector
<1>3. CASE Reset(d)
  BY <1>3 DEF Reset
<1>4. CASE RecvSize(d)
  BY <1>4 DEF RecvSize
<1>5. CASE RecvPayload(d)
  BY <1>5 DEF RecvPayload
<1>6. CASE AskEngine(d)
  BY <1>6 DEF AskEngine
<1>7. CASE SendPrompt(d)
  BY <1>7 DEF SendPrompt
<1>8. CASE Finish(d)
  BY <1>8 DEF Finish
<1>9. CASE Die(d)
  BY <1>9 DEF Die
<1>. QED BY <1>1, <1>2, <1>3, <1>4, <1>5, <1>6, <1>7, <1>8, <1>9 DEF Gateway

(* A handler touches one question, unless it ends the database.            *)
LEMMA HandlerApart ==
    ASSUME StreamTypes, NEW d \in Client, Handler(d), NEW c \in Client, c # d
    PROVE  Untouched(c) /\ UNCHANGED <<infEnd, listener, incoming, backlog>>
<1>. USE DEF StreamTypes, Untouched, dbVars, infVars, HandlerTo, Close
<1>0. DbDies => Ended(c)
  BY EndsAll
<1>1. CASE RecvQuery(d)
  BY <1>1 DEF RecvQuery
<1>2. CASE Search(d)
  BY <1>0, <1>2 DEF Search
<1>3. CASE SendAnswer(d)
  BY <1>0, <1>3 DEF SendAnswer
<1>4. CASE CloseDb(d)
  BY <1>4 DEF CloseDb
<1>. QED BY <1>1, <1>2, <1>3, <1>4 DEF Handler

-----------------------------------------------------------------------------
(* Every step keeps the types: a length is read where one was written, and *)
(* tokens where tokens were.                                               *)
LEMMA GatewayTypes ==
    ASSUME RetrievalInv, NEW c \in Client, Gateway(c) \/ Die(c)
    PROVE  StreamTypes'
<1>. USE DEF StreamTypes, dbVars, infVars, Goto
<1>0. StreamTypes
  BY DEF RetrievalInv
<1>10. \A l \in Later \cup Early \cup {"failed"} :
           [pc EXCEPT ![c] = l] \in [Client -> Early \cup Later \cup {"failed"}]
  BY <1>0
<1>11. {"vector", "size", "payload", "connect", "length", "tokens", "stream", "done",
        "failed"} \subseteq Later \cup Early \cup {"failed"}
  BY DEF Early, Later
<1>12. \A s \in Seq(Bytes) : [dbUp EXCEPT ![c] = s] \in [Client -> Seq(Bytes)]
  BY <1>0
<1>13. \A s \in Seq(Bytes) : [dbDown EXCEPT ![c] = s] \in [Client -> Seq(Bytes)]
  BY <1>0
<1>14. \A s \in Seq(Bytes) : [infUp EXCEPT ![c] = s] \in [Client -> Seq(Bytes)]
  BY <1>0
<1>1. CASE AskDb(c)
  <2>1. Meta(c) \in Seq(Bytes)
    <3>1. 0 \in Nat
      OBVIOUS
    <3>. QED BY <3>1, QueryBytesAre
  <2>2. pc' \in [Client -> Early \cup Later \cup {"failed"}]
    BY <1>1, <1>10, <1>11 DEF AskDb
  <2>3. dbUp' \in [Client -> Seq(Bytes)]
    BY <1>0, <1>1, <1>12, <2>1 DEF AskDb
  <2>4. handler' \in [Client -> {"none", "query", "closed"} \cup Searched]
    BY <1>0, <1>1 DEF AskDb, HandlerTo
  <2>. QED BY <1>0, <1>1, <2>2, <2>3, <2>4 DEF AskDb
<1>2. CASE SendVector(c)
  <2>1. dbUp[c] \o Vector(c, SentDims) \in Seq(Bytes)
    <3>1. Vector(c, SentDims) \in Seq(Bytes)
      BY RetrievalAssumption, QueryBytesAre
    <3>. QED BY <1>0, <3>1, ConcatProperties
  <2>. QED BY <1>0, <1>2, <1>10, <1>11, <1>12, <2>1 DEF SendVector
<1>3. CASE Reset(c)
  BY <1>0, <1>3, <1>10, <1>11 DEF Reset
<1>4. CASE RecvSize(c)
  <2>1. ASSUME NEW k \in RecvSizes(dbDown[c], WordSize)
        PROVE  SubSeq(dbDown[c], k + 1, Len(dbDown[c])) \in Seq(Bytes)
    <3>1. dbDown[c] \in Seq(Bytes) /\ Len(dbDown[c]) \in Nat
      BY <1>0
    <3>2. k \in 0 .. Len(dbDown[c])
      BY <3>1, WordAssumption DEF RecvSizes
    <3>. QED BY <3>1, <3>2, StreamCut
  <2>2. ASSUME NEW k \in RecvSizes(dbDown[c], WordSize)
        PROVE  Ints(dbDown[c])[1] \in Nat
    <3>1. dbDown[c] \in Seq(Bytes) /\ answer[c] \in Seq(Tokens)
      BY <1>0
    <3>2. dbDown[c] # <<>>
      <4>. SUFFICES ASSUME dbDown[c] = <<>> PROVE FALSE
        OBVIOUS
      <4>1. Len(dbDown[c]) = 0
        OBVIOUS
      <4>. QED BY <4>1, WordAssumption DEF RecvSizes
    <3>3. Ints(dbDown[c])[1] = Len(answer[c])
      BY <1>4, <3>2, SizeRead DEF RecvSize
    <3>. QED BY <3>1, <3>3
  <2>3. pc' \in [Client -> Early \cup Later \cup {"failed"}]
    BY <1>4, <1>10, <1>11 DEF RecvSize
  <2>4. dbDown' \in [Client -> Seq(Bytes)]
    <3>1. \/ dbDown' = dbDown
          \/ \E k \in RecvSizes(dbDown[c], WordSize) :
                 dbDown' = [dbDown EXCEPT ![c] =
                                SubSeq(dbDown[c], k + 1, Len(dbDown[c]))]
      BY <1>4 DEF RecvSize
    <3>2. ASSUME NEW k \in RecvSizes(dbDown[c], WordSize),
                 dbDown' = [dbDown EXCEPT ![c] =
                                SubSeq(dbDown[c], k + 1, Len(dbDown[c]))]
          PROVE  dbDown' \in [Client -> Seq(Bytes)]
      <4>1. PICK s : s = SubSeq(dbDown[c], k + 1, Len(dbDown[c]))
        OBVIOUS
      <4>. QED BY <1>13, <2>1, <3>2, <4>1
    <3>. QED BY <1>0, <3>1, <3>2
  <2>5. wanted' \in [Client -> Nat]
    BY <1>0, <1>4, <2>2 DEF RecvSize
  <2>. QED BY <1>0, <1>4, <2>3, <2>4, <2>5 DEF RecvSize
<1>5. CASE RecvPayload(c)
  <2>. DEFINE n == wanted[c] * WordSize
  <2>0. /\ dbDown[c] \in Seq(Bytes) /\ answer[c] \in Seq(Tokens) /\ Len(dbDown[c]) \in Nat
        /\ n \in Nat
    <3>1. wanted[c] \in Nat /\ WordSize \in Nat
      BY <1>0, WordAssumption
    <3>2. n \in Nat
      BY ONLY <3>1
    <3>. QED BY <1>0, <3>2
  <2>. HIDE DEF n
  <2>1. ASSUME NEW k \in RecvSizes(dbDown[c], n)
        PROVE  SubSeq(dbDown[c], k + 1, Len(dbDown[c])) \in Seq(Bytes)
    <3>1. k \in 0 .. Len(dbDown[c])
      BY <2>0 DEF RecvSizes
    <3>. QED BY <2>0, <3>1, StreamCut
  <2>2. ASSUME NEW k \in RecvSizes(dbDown[c], n), k = n
        PROVE  Ints(SubSeq(dbDown[c], 1, k)) = answer[c]
    BY <1>5, <2>2, WholeArray DEF RecvPayload, n
  <2>3. pc' \in [Client -> Early \cup Later \cup {"failed"}]
    BY <1>5, <1>10, <1>11 DEF RecvPayload
  <2>4. dbDown' \in [Client -> Seq(Bytes)]
    <3>1. \/ dbDown' = dbDown
          \/ \E k \in RecvSizes(dbDown[c], n) :
                 dbDown' = [dbDown EXCEPT ![c] =
                                SubSeq(dbDown[c], k + 1, Len(dbDown[c]))]
      BY <1>5 DEF RecvPayload, n
    <3>2. ASSUME NEW k \in RecvSizes(dbDown[c], n),
                 dbDown' = [dbDown EXCEPT ![c] =
                                SubSeq(dbDown[c], k + 1, Len(dbDown[c]))]
          PROVE  dbDown' \in [Client -> Seq(Bytes)]
      <4>1. PICK s : s = SubSeq(dbDown[c], k + 1, Len(dbDown[c]))
        OBVIOUS
      <4>. QED BY <1>13, <2>1, <3>2, <4>1
    <3>. QED BY <1>0, <3>1, <3>2
  <2>5. context' \in [Client -> Seq(Tokens)]
    BY <1>0, <1>5, <2>2 DEF RecvPayload, Unpacks, n
  <2>. QED BY <1>0, <1>5, <2>3, <2>4, <2>5 DEF RecvPayload
<1>6. CASE AskEngine(c)
  <2>1. Append(backlog, c) \in Seq(Client)
    BY <1>0, AppendProperties
  <2>. QED BY <1>0, <1>6, <1>10, <1>11, <2>1 DEF AskEngine
<1>7. CASE SendPrompt(c)
  <2>1. Word(Len(Prompt(c))) \in Seq(Bytes) /\ Words(Prompt(c)) \in Seq(Bytes)
    BY <1>0, PromptTypes, LengthPrefixed
  <2>2. infUp[c] \o Words(Prompt(c)) \in Seq(Bytes)
    BY <1>0, <2>1, ConcatProperties
  <2>3. pc' \in [Client -> Early \cup Later \cup {"failed"}]
    BY <1>7, <1>10, <1>11 DEF SendPrompt
  <2>4. infUp' \in [Client -> Seq(Bytes)]
    BY <1>0, <1>7, <1>14, <2>1, <2>2 DEF SendPrompt
  <2>. QED BY <1>0, <1>7, <2>3, <2>4 DEF SendPrompt
<1>8. CASE Finish(c)
  BY <1>0, <1>8, <1>10, <1>11 DEF Finish
<1>9. CASE Die(c)
  <2>1. \A s \in Seq(Bytes) : \A n \in 0 .. Len(s) : SubSeq(s, 1, n) \in Seq(Bytes)
    BY StreamCut
  <2>. QED BY <1>0, <1>9, <1>10, <1>11, <1>12, <1>14, <2>1 DEF Die
<1>. QED BY <1>1, <1>2, <1>3, <1>4, <1>5, <1>6, <1>7, <1>8, <1>9 DEF Gateway

(* So do the steps of the handlers.                                        *)
LEMMA HandlerTypes ==
    ASSUME RetrievalInv, NEW c \in Client, Handler(c)
    PROVE  StreamTypes'
<1>. USE DEF StreamTypes, dbVars, infVars
<1>0. StreamTypes
  BY DEF RetrievalInv
<1>10. \A l \in {"none", "query", "closed"} \cup Searched :
           [handler EXCEPT ![c] = l] \in [Client -> {"none", "query", "closed"} \cup Searched]
  BY <1>0
<1>11. {"closed", "query", "search", "send", "array", "close"}
           \subseteq {"none", "query", "closed"} \cup Searched
  BY DEF Searched
<1>12. Close(c) => /\ handler' \in [Client -> {"none", "query", "closed"} \cup Searched]
                   /\ dbEnd' \in [Client -> {"open", "fin", "rst"}]
  BY <1>0, <1>10, <1>11 DEF Close, Ends, HandlerTo
<1>13. DbDies => /\ handler' \in [Client -> {"none", "query", "closed"} \cup Searched]
                 /\ dbEnd' \in [Client -> {"open", "fin", "rst"}] /\ alive' \in BOOLEAN
  BY <1>0, <1>11 DEF DbDies
<1>1. CASE RecvQuery(c)
  <2>1. CASE Broken(dbUp[c], GoneFromDb(c)) /\ Close(c) /\ UNCHANGED <<dbUp, received>>
    BY <1>0, <1>1, <1>12, <2>1 DEF RecvQuery
  <2>2. ASSUME NEW k \in RecvSizes(dbUp[c], QueryBytes - Len(received[c])),
               received' = [received EXCEPT ![c] = received[c] \o SubSeq(dbUp[c], 1, k)],
               dbUp' = [dbUp EXCEPT ![c] = SubSeq(dbUp[c], k + 1, Len(dbUp[c]))],
               HandlerTo(c, "search") \/ HandlerTo(c, "query"),
               UNCHANGED dbEnd
        PROVE  StreamTypes'
    <3>1. PICK a, s : /\ a = received[c] \o SubSeq(dbUp[c], 1, k)
                      /\ s = SubSeq(dbUp[c], k + 1, Len(dbUp[c]))
      OBVIOUS
    <3>2. a \in Seq(Bytes) /\ s \in Seq(Bytes)
      BY <3>1, QueryStep
    <3>3. received' \in [Client -> Seq(Bytes)] /\ dbUp' \in [Client -> Seq(Bytes)]
      BY <1>0, <2>2, <3>1, <3>2
    <3>4. handler' \in [Client -> {"none", "query", "closed"} \cup Searched]
      BY <1>10, <1>11, <2>2 DEF HandlerTo
    <3>. QED BY <1>0, <1>1, <2>2, <3>3, <3>4 DEF RecvQuery
  <2>. QED BY <1>1, <2>1, <2>2 DEF RecvQuery
<1>2. CASE Search(c)
  <2>1. answer' \in [Client -> Seq(Tokens)]
    BY <1>0, <1>2, RetrievalAssumption DEF Search
  <2>2. /\ handler' \in [Client -> {"none", "query", "closed"} \cup Searched]
        /\ dbEnd' \in [Client -> {"open", "fin", "rst"}] /\ alive' \in BOOLEAN
    <3>1. DbDies \/ (HandlerTo(c, "send") /\ UNCHANGED <<alive, dbEnd>>)
      BY <1>2 DEF Search
    <3>2. HandlerTo(c, "send") =>
              handler' \in [Client -> {"none", "query", "closed"} \cup Searched]
      BY <1>10, <1>11 DEF HandlerTo
    <3>3. dbEnd \in [Client -> {"open", "fin", "rst"}] /\ alive \in BOOLEAN
      BY <1>0
    <3>. QED BY <1>13, <3>1, <3>2, <3>3
  <2>. QED BY <1>0, <1>2, <2>1, <2>2 DEF Search
<1>3. CASE SendAnswer(c)
  <2>1. /\ handler' \in [Client -> {"none", "query", "closed"} \cup Searched]
        /\ dbEnd' \in [Client -> {"open", "fin", "rst"}] /\ alive' \in BOOLEAN
    <3>1. \/ DbDies
          \/ Close(c) /\ UNCHANGED alive
          \/ /\ HandlerTo(c, "array") \/ HandlerTo(c, "close")
             /\ UNCHANGED <<alive, dbEnd>>
      BY <1>3 DEF SendAnswer
    <3>2. HandlerTo(c, "array") \/ HandlerTo(c, "close") =>
              handler' \in [Client -> {"none", "query", "closed"} \cup Searched]
      BY <1>10, <1>11 DEF HandlerTo
    <3>3. dbEnd \in [Client -> {"open", "fin", "rst"}] /\ alive \in BOOLEAN
      BY <1>0
    <3>. QED BY <1>12, <1>13, <3>1, <3>2, <3>3
  <2>2. dbDown' \in [Client -> Seq(Bytes)]
    <3>1. PICK s : s = IF handler[c] = "send" THEN Word(Len(answer[c])) ELSE Words(answer[c])
      OBVIOUS
    <3>2. s \in Seq(Bytes)
      BY <1>0, <3>1, LengthPrefixed
    <3>3. dbDown[c] \o s \in Seq(Bytes)
      BY <1>0, <3>2, ConcatProperties
    <3>4. dbDown' = dbDown \/ dbDown' = [dbDown EXCEPT ![c] = dbDown[c] \o s]
      BY <1>3, <3>1 DEF SendAnswer
    <3>. QED BY <1>0, <3>3, <3>4
  <2>. QED BY <1>0, <1>3, <2>1, <2>2 DEF SendAnswer
<1>4. CASE CloseDb(c)
  BY <1>0, <1>4, <1>12 DEF CloseDb
<1>. QED BY <1>1, <1>2, <1>3, <1>4 DEF Handler

(* A step of the listener that reads, in one of its three outcomes.        *)
Reads(c, k, got) ==
    /\ listener.conn = c /\ c # "none"
    /\ k \in RecvSizes(infUp[c], listener.need - Len(listener.got))
    /\ got = listener.got \o SubSeq(infUp[c], 1, k)
    /\ infUp' = [infUp EXCEPT ![c] = SubSeq(infUp[c], k + 1, Len(infUp[c]))]
    /\ \/ /\ Len(got) # listener.need
          /\ listener' = [listener EXCEPT !.got = got]
          /\ incoming' = incoming
       \/ /\ Len(got) = listener.need /\ listener.need = WordSize
          /\ listener' = [listener EXCEPT !.got = got,
                             !.need = Announced(Ints(SubSeq(got, 1, WordSize))[1])]
          /\ incoming' = incoming
       \/ /\ Len(got) = listener.need /\ listener.need # WordSize
          /\ listener' = Waiting
          /\ incoming' = incoming \cup
                 {[conn |-> c, tokens |-> Ints(SubSeq(got, WordSize + 1, Len(got)))]}
    /\ UNCHANGED <<pc, context, wanted, dbVars, infEnd, backlog>>

(* The listener reads, or forgets a connection that broke.                 *)
LEMMA ReadsOrForgets ==
    ASSUME RecvPrompt
    PROVE  \/ \E k \in RecvSizes(infUp[listener.conn], listener.need - Len(listener.got)) :
                  Reads(listener.conn, k, listener.got \o SubSeq(infUp[listener.conn], 1, k))
           \/ /\ listener.conn # "none" /\ Gone(listener.conn)
              /\ listener' = Waiting
              /\ UNCHANGED <<pc, context, wanted, dbVars, infUp, infEnd, backlog, incoming>>
BY DEF RecvPrompt, Reads, Whole, Broken

(* The length that the listener reads is a number and the array is tokens. *)
LEMMA ListenerTypes ==
    ASSUME RetrievalInv, Listener \/ Serve
    PROVE  StreamTypes'
<1>. USE DEF dbVars, infVars
<1>0. StreamTypes
  BY DEF RetrievalInv
<1>1. Waiting \in [conn : Client \cup {"none"}, got : Seq(Bytes), need : Nat]
  BY DEF Waiting
<1>2. CASE Accept
  <2>1. backlog \in Seq(Client) /\ backlog # <<>>
    BY <1>0, <1>2 DEF Accept, StreamTypes
  <2>2. Head(backlog) \in Client /\ Tail(backlog) \in Seq(Client)
    BY <2>1, HeadTailProperties
  <2>3. listener' \in [conn : Client \cup {"none"}, got : Seq(Bytes), need : Nat]
    BY <1>2, <2>2, WordAssumption DEF Accept
  <2>. QED BY <1>0, <1>2, <2>2, <2>3 DEF Accept, StreamTypes
<1>3. CASE RecvPrompt
  <2>0. listener \in [conn : Client \cup {"none"}, got : Seq(Bytes), need : Nat]
    BY <1>0 DEF StreamTypes
  <2>1. ASSUME NEW c, NEW k, NEW got, Reads(c, k, got) PROVE StreamTypes'
    <3>1. /\ c \in Client /\ listener.conn = c
          /\ k \in RecvSizes(infUp[c], listener.need - Len(listener.got))
          /\ got = listener.got \o SubSeq(infUp[c], 1, k)
      BY <2>0, <2>1 DEF Reads
    <3>2. PICK p : p = Prompt(c)
      OBVIOUS
    <3>3. PICK rest : rest = SubSeq(infUp[c], k + 1, Len(infUp[c]))
      OBVIOUS
    <3>4. /\ rest \in Seq(Bytes) /\ got \in Seq(Bytes)
          /\ Len(got) = WordSize => got = Word(Len(p))
          /\ Len(got) = Announced(Len(p)) => got = Word(Len(p)) \o Words(p)
      BY <3>1, <3>2, <3>3, PromptStep DEF Message
    <3>5. p \in Seq(Tokens) /\ Len(p) \in Nat /\ Len(p) \in Values /\ p \in Seq(Values)
      BY <1>0, <3>1, <3>2, PromptTypes, TokenValues
    <3>6. infUp' \in [Client -> Seq(Bytes)]
      BY <1>0, <2>1, <3>3, <3>4 DEF Reads, StreamTypes
    <3>7. Len(got) = WordSize => Ints(SubSeq(got, 1, WordSize))[1] = Len(p)
      BY <3>4, <3>5, IntOfWord, SubSeqFull
    <3>8. Announced(Len(p)) \in Nat
      <4>1. PICK n \in Nat : n = Len(p)
        BY <3>5
      <4>. QED BY <4>1, WordAssumption DEF Announced
    <3>9. listener' \in [conn : Client \cup {"none"}, got : Seq(Bytes), need : Nat]
      <4>1. listener' = [listener EXCEPT !.got = got] =>
                listener' \in [conn : Client \cup {"none"}, got : Seq(Bytes), need : Nat]
        BY <2>0, <3>4
      <4>2. listener' = [listener EXCEPT !.got = got, !.need = Announced(Len(p))] =>
                listener' \in [conn : Client \cup {"none"}, got : Seq(Bytes), need : Nat]
        BY <2>0, <3>4, <3>8
      <4>. QED BY <1>1, <2>1, <3>7, <4>1, <4>2 DEF Reads
    <3>10. Len(got) = listener.need /\ listener.need # WordSize
               => Ints(SubSeq(got, WordSize + 1, Len(got))) = p
      <4>. SUFFICES ASSUME Len(got) = listener.need, listener.need # WordSize
                    PROVE  Ints(SubSeq(got, WordSize + 1, Len(got))) = p
        OBVIOUS
      <4>1. listener.need = Announced(Len(p))
        BY <3>1, <3>2, RetrievalAssumption DEF RetrievalInv, ListenerInv
      <4>2. got = Word(Len(p)) \o Words(p) /\ Words(p) \in Seq(Bytes)
        BY <3>4, <3>5, <4>1, LengthPrefixed
      <4>3. SubSeq(got, WordSize + 1, Len(got)) = Words(p)
        BY <3>5, <4>2, FirstInt
      <4>. QED BY <3>5, <4>3, IntsOfWords
    <3>11. incoming' \subseteq [conn : Client, tokens : Seq(Tokens)]
      <4>1. [conn |-> c, tokens |-> p] \in [conn : Client, tokens : Seq(Tokens)]
        BY <3>1, <3>5
      <4>2. incoming' = incoming \/ incoming' = incoming \cup {[conn |-> c, tokens |-> p]}
        BY <2>1, <3>10 DEF Reads
      <4>3. incoming \subseteq [conn : Client, tokens : Seq(Tokens)]
        BY <1>0 DEF StreamTypes
      <4>. QED BY <4>1, <4>2, <4>3
    <3>. QED BY <1>0, <2>1, <3>6, <3>9, <3>11 DEF Reads, StreamTypes
  <2>2. ASSUME listener' = Waiting,
               UNCHANGED <<pc, context, wanted, dbVars, infUp, infEnd, backlog, incoming>>
        PROVE  StreamTypes'
    BY <1>0, <1>1, <2>2 DEF StreamTypes
  <2>. QED BY <1>3, <2>1, <2>2, ReadsOrForgets
<1>4. CASE Serve
  BY <1>0, <1>4 DEF Serve, StreamTypes
<1>. QED BY <1>2, <1>3, <1>4 DEF Listener

(* What the handler has read and what is on its way are one query.         *)
LEMMA QueryFrame ==
    ASSUME NEW c \in Client, QueryOf(c),
           received'[c] = received[c], dbUp'[c] = dbUp[c],
           pc'[c] = pc[c] \/ pc'[c] \notin {"question", "vector"},
           handler'[c] \in Searched => handler[c] \in Searched
    PROVE  QueryOf(c)'
BY DEF QueryOf, Query, Meta, Vector, QueryBytes

(* No step of any process tears or mixes a query.                          *)
LEMMA QueryKept ==
    ASSUME RetrievalInv, [Next]_vars, NEW c \in Client
    PROVE  QueryOf(c)'
<1>. USE DEF dbVars, infVars, Goto, HandlerTo
<1>0. StreamTypes /\ QueryOf(c)
  BY DEF RetrievalInv
<1>1. CASE UNCHANGED vars
  BY <1>0, <1>1, QueryFrame DEF vars
<1>2. CASE Listener \/ Serve
  BY <1>0, <1>2, QueryFrame DEF Listener, Accept, RecvPrompt, Serve
<1>3. ASSUME NEW d \in Client, c # d, Gateway(d) \/ Die(d) \/ Handler(d)
      PROVE  QueryOf(c)'
  <2>1. Untouched(c)
    BY <1>0, <1>3, GatewayApart, HandlerApart
  <2>2. handler'[c] \in Searched => handler[c] \in Searched
    BY <2>1 DEF Untouched, Ended, Searched
  <2>. QED BY <1>0, <2>1, <2>2, QueryFrame DEF Untouched
<1>4. CASE Gateway(c) \/ Die(c)
  <2>1. CASE AskDb(c)
    <3>1. CASE ~alive
      <4>1. pc'[c] = "failed" /\ UNCHANGED <<dbUp, handler, received>>
        BY <1>0, <2>1, <3>1 DEF AskDb, StreamTypes
      <4>. QED BY <1>0, <4>1, QueryFrame
    <3>2. CASE alive
      <4>1. /\ pc[c] = "question" /\ pc'[c] = "vector" /\ dbUp'[c] = Meta(c)
            /\ handler'[c] = "query" /\ received'[c] = <<>>
        BY <1>0, <2>1, <3>2 DEF AskDb, StreamTypes, QueryOf
      <4>2. Meta(c) \in Seq(Bytes) /\ Vector(c, SentDims) \in Seq(Bytes)
        BY RetrievalAssumption, QueryBytesAre
      <4>3. <<>> \o Meta(c) = Meta(c) /\ Begins(Meta(c), Query(c))
        BY <4>2, ConcatEmptySeq DEF Begins, Query
      <4>. QED BY <4>1, <4>3 DEF QueryOf, Searched, Query, Meta, Vector, QueryBytes
    <3>. QED BY <3>1, <3>2
  <2>2. CASE SendVector(c)
    <3>1. /\ pc'[c] = "size" /\ received[c] \o dbUp[c] = Meta(c)
          /\ received'[c] = received[c] /\ dbUp'[c] = dbUp[c] \o Vector(c, SentDims)
          /\ handler'[c] = handler[c]
      BY <1>0, <2>2 DEF SendVector, StreamTypes, QueryOf
    <3>2. PICK a, b, v : a = received[c] /\ b = dbUp[c] /\ v = Vector(c, SentDims)
      OBVIOUS
    <3>3. a \in Seq(Bytes) /\ b \in Seq(Bytes) /\ v \in Seq(Bytes)
      BY <1>0, <3>2, RetrievalAssumption, QueryBytesAre DEF StreamTypes
    <3>4. a \o (b \o v) = (a \o b) \o v
      BY <3>3, ConcatAssociative
    <3>5. received'[c] \o dbUp'[c] = Query(c)
      BY <3>1, <3>2, <3>4 DEF Query
    <3>6. Query(c) = Query(c) \o <<>> /\ <<>> \in Seq(Bytes)
      <4>1. Query(c) \in Seq(Bytes)
        BY RetrievalAssumption, QueryBytesAre DEF Query
      <4>. QED BY <4>1, ConcatEmptySeq
    <3>7. Begins(received'[c] \o dbUp'[c], Query(c))
      BY <3>5, <3>6 DEF Begins
    <3>. QED BY <1>0, <3>1, <3>7 DEF QueryOf, Query, Meta, Vector, QueryBytes
  <2>3. CASE Die(c)
    <3>1. PICK n \in 0 .. Len(dbUp[c]) : dbUp' = [dbUp EXCEPT ![c] = SubSeq(dbUp[c], 1, n)]
      BY <2>3 DEF Die
    <3>2. PICK a, b : a = received[c] /\ b = dbUp[c]
      OBVIOUS
    <3>3. a \in Seq(Bytes) /\ b \in Seq(Bytes) /\ Begins(a \o b, Query(c))
      BY <1>0, <3>2 DEF StreamTypes, QueryOf
    <3>4. Begins(a \o SubSeq(b, 1, n), Query(c))
      BY <3>1, <3>2, <3>3, BeginsCut
    <3>5. /\ pc'[c] = "failed" /\ received' = received /\ handler' = handler
          /\ dbUp'[c] = SubSeq(b, 1, n)
      BY <1>0, <2>3, <3>1, <3>2 DEF Die, StreamTypes
    <3>6. Begins(received'[c] \o dbUp'[c], Query(c))
      BY <3>2, <3>4, <3>5
    <3>. QED BY <1>0, <3>5, <3>6 DEF QueryOf, Query, Meta, Vector, QueryBytes
  <2>4. ASSUME UNCHANGED <<received, dbUp, handler>>,
               \E l \in {"failed", "payload", "connect", "length", "tokens", "stream", "done"} :
                   pc' = [pc EXCEPT ![c] = l]
        PROVE  QueryOf(c)'
    <3>1. pc'[c] \notin {"question", "vector"}
      BY <1>0, <2>4 DEF StreamTypes
    <3>. QED BY <1>0, <2>4, <3>1, QueryFrame
  <2>5. CASE Reset(c) \/ RecvSize(c) \/ RecvPayload(c)
    BY <2>4, <2>5 DEF Reset, RecvSize, RecvPayload
  <2>6. CASE AskEngine(c) \/ SendPrompt(c) \/ Finish(c)
    BY <2>4, <2>6 DEF AskEngine, SendPrompt, Finish
  <2>. QED BY <1>4, <2>1, <2>2, <2>3, <2>5, <2>6 DEF Gateway
<1>5. CASE Handler(c)
  <2>1. CASE RecvQuery(c)
    <3>1. CASE Broken(dbUp[c], GoneFromDb(c)) /\ Close(c) /\ UNCHANGED <<dbUp, received>>
      <4>1. handler'[c] = "closed" /\ pc' = pc
        BY <1>0, <2>1, <3>1 DEF Close, StreamTypes, RecvQuery
      <4>. QED BY <1>0, <3>1, <4>1, QueryFrame DEF Searched
    <3>2. ASSUME NEW k \in RecvSizes(dbUp[c], QueryBytes - Len(received[c])), NEW got,
                 got = received[c] \o SubSeq(dbUp[c], 1, k),
                 received' = [received EXCEPT ![c] = got],
                 dbUp' = [dbUp EXCEPT ![c] = SubSeq(dbUp[c], k + 1, Len(dbUp[c]))],
                 handler' = [handler EXCEPT ![c] =
                                 IF Len(got) = QueryBytes THEN "search" ELSE "query"]
          PROVE  QueryOf(c)'
      <4>1. PICK rest : rest = SubSeq(dbUp[c], k + 1, Len(dbUp[c]))
        OBVIOUS
      <4>2. got \o rest = received[c] \o dbUp[c]
        BY <3>2, <4>1, QueryStep
      <4>3. /\ received'[c] = got /\ dbUp'[c] = rest /\ pc' = pc /\ handler[c] = "query"
            /\ handler'[c] \in Searched => Len(got) = QueryBytes
        BY <1>0, <2>1, <3>2, <4>1 DEF StreamTypes, RecvQuery, Searched
      <4>4. pc[c] # "question"
        BY <4>3 DEF RetrievalInv, ReplyOf
      <4>. QED BY <1>0, <4>2, <4>3, <4>4
               DEF QueryOf, Query, Meta, Vector, QueryBytes
    <3>. QED BY <2>1, <3>1, <3>2 DEF RecvQuery, Whole
  <2>2. CASE Search(c) \/ SendAnswer(c) \/ CloseDb(c)
    <3>1. UNCHANGED <<received, dbUp, pc>> /\ handler[c] \in Searched
      BY <2>2 DEF Search, SendAnswer, CloseDb, Searched
    <3>. QED BY <1>0, <3>1, QueryFrame
  <2>. QED BY <1>5, <2>1, <2>2 DEF Handler
<1>. QED BY <1>1, <1>2, <1>3, <1>4, <1>5 DEF Next

(* What a handler has sent is its answer, or how it begins, for as long as *)
(* the gateway reads.                                                      *)
LEMMA ReplyFrame ==
    ASSUME NEW c \in Client, ReplyOf(c),
           handler[c] \in {"none", "query", "closed"} \cup Searched, Untouched(c)
    PROVE  ReplyOf(c)'
<1>1. /\ pc'[c] = pc[c] /\ context'[c] = context[c] /\ wanted'[c] = wanted[c]
      /\ dbDown'[c] = dbDown[c] /\ answer'[c] = answer[c]
  BY DEF Untouched
<1>2. Sent(c)' = Sent(c) /\ Reply(c)' = Reply(c)
  BY <1>1 DEF Sent, Reply
<1>3. CASE alive' = alive /\ handler'[c] = handler[c] /\ dbEnd'[c] = dbEnd[c]
  BY <1>1, <1>2, <1>3 DEF ReplyOf
<1>4. CASE Ended(c)
  <2>1. CASE handler[c] \in {"none", "closed"}
    BY <1>1, <1>2, <1>4, <2>1 DEF ReplyOf, Ended
  <2>2. CASE handler[c] \notin {"none", "closed"}
    <3>1. handler'[c] = "closed" /\ alive' = FALSE
      BY <1>4, <2>2 DEF Ended
    <3>2. pc[c] # "question"
      BY <2>2 DEF ReplyOf
    <3>3. pc[c] \in Early => Sent(c) \in {<<>>, Word(Len(answer[c])), Reply(c)}
      BY <2>2 DEF ReplyOf, Searched
    <3>. QED BY <1>1, <1>2, <3>1, <3>2, <3>3 DEF ReplyOf
  <2>. QED BY <2>1, <2>2
<1>. QED BY <1>3, <1>4 DEF Untouched

(* A gateway goes on only with the whole answer, or with none at all.      *)
LEMMA GatewayReply ==
    ASSUME RetrievalInv, NEW c \in Client, Gateway(c) \/ Die(c)
    PROVE  ReplyOf(c)'
<1>. USE DEF dbVars, infVars, Goto, HandlerTo
<1>0. StreamTypes /\ ReplyOf(c)
  BY DEF RetrievalInv
<1>1. "failed" \notin Early \cup Later /\ "failed" # "question"
  BY DEF Early, Later
<1>2. ASSUME pc' = [pc EXCEPT ![c] = "failed"] PROVE ReplyOf(c)'
  <2>1. pc'[c] = "failed"
    BY <1>0, <1>2 DEF StreamTypes
  <2>. QED BY <1>1, <2>1 DEF ReplyOf
<1>3. CASE AskDb(c)
  <2>1. CASE ~alive
    BY <1>2, <1>3, <2>1 DEF AskDb
  <2>2. CASE alive
    <3>1. /\ pc[c] = "question" /\ pc'[c] = "vector" /\ handler'[c] = "query"
          /\ UNCHANGED <<context, wanted, dbDown, dbEnd, answer, alive>>
      BY <1>0, <1>3, <2>2 DEF AskDb, StreamTypes
    <3>2. handler[c] = "none" /\ dbDown[c] = <<>> /\ dbEnd[c] = "open" /\ context[c] = <<>>
      BY <1>0, <3>1 DEF ReplyOf, Early, Sent
    <3>3. Sent(c)' = <<>>
      BY <3>1, <3>2 DEF Sent
    <3>. QED BY <3>1, <3>2, <3>3 DEF ReplyOf, Later
  <2>. QED BY <2>1, <2>2
<1>4. CASE SendVector(c)
  <2>1. /\ pc[c] = "vector" /\ pc'[c] = "size"
        /\ UNCHANGED <<context, wanted, dbDown, dbEnd, handler, answer, alive>>
    BY <1>0, <1>4 DEF SendVector, StreamTypes
  <2>2. Sent(c)' = Sent(c) /\ Reply(c)' = Reply(c)
    BY <2>1 DEF Sent, Reply
  <2>. QED BY <1>0, <2>1, <2>2 DEF ReplyOf, Early, Later
<1>5. CASE RecvSize(c)
  <2>0. /\ pc[c] = "size" /\ context[c] = <<>>
        /\ UNCHANGED <<context, dbEnd, handler, answer, alive>>
    BY <1>0, <1>5 DEF RecvSize, ReplyOf, Early
  <2>1. CASE dbDown[c] = <<>> /\ dbEnd[c] = "fin" /\ pc' = [pc EXCEPT ![c] = "connect"]
    <3>1. pc'[c] = "connect"
      BY <1>0, <2>1 DEF StreamTypes
    <3>2. handler[c] = "closed" /\ Sent(c) = <<>>
      BY <1>0, <2>0, <2>1 DEF ReplyOf, Early, Sent
    <3>3. Reply(c) # <<>>
      <4>1. answer[c] \in Seq(Tokens)
        BY <1>0 DEF StreamTypes
      <4>2. PICK n \in Nat : n = Len(answer[c])
        BY <4>1
      <4>3. Len(Reply(c)) = WordSize + WordSize * n
        BY <4>1, <4>2, LengthPrefixed DEF Reply
      <4>4. WordSize + WordSize * n # 0
        <5>1. WordSize * n \in Nat
          BY WordAssumption
        <5>. QED BY <5>1, WordAssumption
      <4>. QED BY <4>3, <4>4
    <3>4. ~alive
      BY <1>0, <2>0, <2>1, <3>2, <3>3 DEF ReplyOf, Early
    <3>. QED BY <2>0, <3>1, <3>2, <3>4 DEF ReplyOf, Early, Later
  <2>2. ASSUME NEW k \in RecvSizes(dbDown[c], WordSize), k = WordSize,
               dbDown' = [dbDown EXCEPT ![c] = SubSeq(dbDown[c], k + 1, Len(dbDown[c]))],
               wanted' = [wanted EXCEPT ![c] = Ints(dbDown[c])[1]],
               pc' = [pc EXCEPT ![c] = "payload"]
        PROVE  ReplyOf(c)'
    <3>1. dbDown[c] # <<>>
      <4>. SUFFICES ASSUME dbDown[c] = <<>> PROVE FALSE
        OBVIOUS
      <4>1. Len(dbDown[c]) = 0
        OBVIOUS
      <4>. QED BY <4>1, WordAssumption DEF RecvSizes
    <3>2. PICK r \in {<<>>, Words(answer[c])} :
             /\ dbDown[c] = Word(Len(answer[c])) \o r
             /\ Ints(dbDown[c])[1] = Len(answer[c])
             /\ SubSeq(dbDown[c], WordSize + 1, Len(dbDown[c])) = r
      BY <2>0, <3>1, SizeRead
    <3>3. pc'[c] = "payload" /\ wanted'[c] = Len(answer[c]) /\ dbDown'[c] = r
      BY <1>0, <2>2, <3>2 DEF StreamTypes
    <3>4. Sent(c)' = Sent(c) /\ Reply(c)' = Reply(c)
      BY <2>0, <3>2, <3>3 DEF Sent, Reply
    <3>. QED BY <1>0, <2>0, <3>3, <3>4 DEF ReplyOf, Early, Later
  <2>. QED BY <1>2, <1>5, <2>1, <2>2 DEF RecvSize, Broken
<1>6. CASE RecvPayload(c)
  <2>0. /\ pc[c] = "payload" /\ UNCHANGED <<dbEnd, handler, answer, alive>>
    BY <1>0, <1>6 DEF RecvPayload
  <2>1. wanted[c] = Len(answer[c]) /\ handler[c] \in {"array", "close", "closed"}
    BY <2>0, ArrayRead
  <2>2. ASSUME pc' = [pc EXCEPT ![c] = "connect"], context'[c] = answer[c]
        PROVE  ReplyOf(c)'
    <3>1. pc'[c] = "connect"
      BY <1>0, <2>2 DEF StreamTypes
    <3>. QED BY <2>0, <2>1, <2>2, <3>1 DEF ReplyOf, Early, Later
  <2>3. ASSUME wanted[c] * WordSize = 0, pc' = [pc EXCEPT ![c] = "connect"],
               UNCHANGED context
        PROVE  ReplyOf(c)'
    <3>1. answer[c] = <<>>
      <4>1. answer[c] \in Seq(Tokens) /\ Len(answer[c]) \in Nat
        BY <1>0 DEF StreamTypes
      <4>2. PICK n \in Nat : n = Len(answer[c])
        BY <4>1
      <4>3. WordSize * n = 0
        BY <2>1, <2>3, <4>2, WordAssumption, Products
      <4>4. n = 0
        <5>. SUFFICES ASSUME n # 0 PROVE FALSE
          OBVIOUS
        <5>1. PICK i \in Nat : n = i + 1
          <6>1. n - 1 \in Nat /\ n = (n - 1) + 1
            OBVIOUS
          <6>. QED BY <6>1
        <5>2. WordSize * i + WordSize = 0 /\ WordSize * i \in Nat
          BY <4>3, <5>1, WordAssumption, Products
        <5>. QED BY <5>2, WordAssumption
      <4>. QED BY <4>1, <4>2, <4>4, EmptySeq
    <3>2. context[c] = <<>>
      BY <1>0, <2>0 DEF ReplyOf, Early
    <3>. QED BY <2>2, <2>3, <3>1, <3>2
  <2>4. ASSUME NEW k \in RecvSizes(dbDown[c], wanted[c] * WordSize),
               k = wanted[c] * WordSize,
               context' = [context EXCEPT ![c] = Ints(SubSeq(dbDown[c], 1, k))],
               pc' = [pc EXCEPT ![c] = "connect"]
        PROVE  ReplyOf(c)'
    <3>1. context'[c] = answer[c]
      BY <1>0, <2>0, <2>4, WholeArray DEF StreamTypes
    <3>. QED BY <2>2, <2>4, <3>1
  <2>. QED BY <1>2, <1>6, <2>3, <2>4 DEF RecvPayload, Unpacks
<1>7. ASSUME pc[c] \in Later, \E l \in Later : pc' = [pc EXCEPT ![c] = l],
             UNCHANGED <<context, handler, answer, alive>>
      PROVE  ReplyOf(c)'
  <2>1. pc'[c] \in Later
    BY <1>0, <1>7 DEF StreamTypes
  <2>2. pc'[c] \notin Early /\ pc'[c] # "question"
    BY <2>1 DEF Early, Later
  <2>. QED BY <1>0, <1>7, <2>1, <2>2 DEF ReplyOf
<1>8. CASE AskEngine(c) \/ SendPrompt(c) \/ Finish(c)
  BY <1>7, <1>8 DEF AskEngine, SendPrompt, Finish, Later
<1>9. CASE Reset(c) \/ Die(c)
  BY <1>2, <1>9 DEF Reset, Die
<1>. QED BY <1>3, <1>4, <1>5, <1>6, <1>8, <1>9 DEF Gateway


(* A handler that closes its connection has sent its whole reply, if the   *)
(* gateway still reads it.                                                 *)
LEMMA ClosedReply ==
    ASSUME StreamTypes, NEW c \in Client, ReplyOf(c), Close(c),
           UNCHANGED <<pc, context, wanted, dbDown, alive, answer>>,
           handler[c] # "none", handler[c] # "closed",
           pc[c] \in Early => Sent(c) = Reply(c),
           pc[c] \in Later => handler[c] \in {"array", "close"}
    PROVE  ReplyOf(c)'
<1>1. handler'[c] = "closed"
  BY DEF StreamTypes, Close, HandlerTo
<1>2. Sent(c)' = Sent(c) /\ Reply(c)' = Reply(c)
  BY DEF Sent, Reply
<1>3. pc[c] # "question"
  BY DEF ReplyOf
<1>. QED BY <1>1, <1>2, <1>3 DEF ReplyOf

(* The steps of a handler send its answer in two pieces, in this order.    *)
LEMMA HandlerReply ==
    ASSUME RetrievalInv, NEW c \in Client, Handler(c)
    PROVE  ReplyOf(c)'
<1>. USE DEF dbVars, infVars, HandlerTo
<1>0. /\ StreamTypes /\ ReplyOf(c) /\ answer[c] \in Seq(Tokens)
      /\ handler[c] \in {"none", "query", "closed"} \cup Searched
      /\ pc[c] \in Early \cup Later \cup {"failed"}
  BY DEF RetrievalInv, StreamTypes
<1>1. handler[c] # "none" => pc[c] # "question"
  BY <1>0 DEF ReplyOf
<1>2. handler[c] \in {"query", "search", "send"} => pc[c] \notin Later
  BY <1>0 DEF ReplyOf
<1>3. handler[c] \in {"query", "search", "send"} /\ pc[c] \in Early => dbDown[c] = <<>> /\ pc[c] # "payload"
  <2>. SUFFICES ASSUME handler[c] \in {"query", "search", "send"}, pc[c] \in Early
                PROVE  dbDown[c] = <<>> /\ pc[c] # "payload"
    OBVIOUS
  <2>1. pc[c] # "payload"
    BY ArrayRead
  <2>. QED BY <1>0, <2>1 DEF ReplyOf, Sent
<1>4. GoneFromDb(c) => pc[c] \notin Early
  BY DEF GoneFromDb, Over, Early
<1>5. DbDies => Ended(c)
  BY EndsAll
<1>6. CASE RecvQuery(c)
  <2>1. handler[c] = "query" /\ UNCHANGED <<pc, context, wanted, dbDown, alive, answer>>
    BY <1>6 DEF RecvQuery
  <2>2. CASE GoneFromDb(c) /\ Close(c)
    BY <1>0, <1>2, <1>4, <2>1, <2>2, ClosedReply
  <2>3. CASE UNCHANGED dbEnd /\ \E l \in {"search", "query"} : handler' = [handler EXCEPT ![c] = l]
    <3>1. handler'[c] \in {"search", "query"}
      BY <1>0, <2>3 DEF StreamTypes
    <3>2. Sent(c)' = Sent(c) /\ Reply(c)' = Reply(c)
      BY <2>1 DEF Sent, Reply
    <3>. QED BY <1>0, <1>1, <1>2, <2>1, <2>3, <3>1, <3>2 DEF ReplyOf
  <2>. QED BY <1>6, <2>2, <2>3 DEF RecvQuery, Broken
<1>7. CASE Search(c)
  <2>1. handler[c] = "search" /\ UNCHANGED <<pc, context, wanted, dbUp, dbDown, received, infUp>>
    BY <1>7 DEF Search
  <2>2. CASE DbDies /\ UNCHANGED answer
    <3>1. Untouched(c)
      BY <1>5, <2>1, <2>2 DEF Untouched
    <3>. QED BY <1>0, <3>1, ReplyFrame
  <2>3. CASE handler' = [handler EXCEPT ![c] = "send"] /\ UNCHANGED <<alive, dbEnd>>
    <3>1. handler'[c] = "send"
      BY <1>0, <2>3 DEF StreamTypes
    <3>2. Sent(c)' = Sent(c)
      BY <2>1 DEF Sent
    <3>. QED BY <1>0, <1>1, <1>2, <2>1, <2>3, <3>1, <3>2 DEF ReplyOf
  <2>. QED BY <1>7, <2>2, <2>3 DEF Search
<1>8. CASE SendAnswer(c)
  <2>1. /\ handler[c] \in {"send", "array"}
        /\ UNCHANGED <<pc, context, wanted, dbUp, received, answer, infUp>>
    BY <1>8 DEF SendAnswer
  <2>2. CASE GoneFromDb(c) /\ Close(c) /\ UNCHANGED <<dbDown, alive>>
    BY <1>0, <1>2, <1>4, <2>1, <2>2, ClosedReply
  <2>3. CASE DbDies /\ UNCHANGED dbDown
    <3>1. Untouched(c)
      BY <1>5, <2>1, <2>3 DEF Untouched
    <3>. QED BY <1>0, <3>1, ReplyFrame
  <2>4. ASSUME handler[c] = "send", UNCHANGED <<dbEnd, alive>>,
               dbDown' = [dbDown EXCEPT ![c] = dbDown[c] \o Word(Len(answer[c]))],
               handler' = [handler EXCEPT ![c] = IF answer[c] # <<>> THEN "array" ELSE "close"]
        PROVE  ReplyOf(c)'
    <3>1. PICK w : w = Word(Len(answer[c]))
      OBVIOUS
    <3>2. w \in Seq(Bytes)
      BY <1>0, <3>1, LengthPrefixed
    <3>3. /\ dbDown'[c] = dbDown[c] \o w
          /\ handler'[c] = IF answer[c] # <<>> THEN "array" ELSE "close"
      BY <1>0, <2>4, <3>1 DEF StreamTypes
    <3>4. pc[c] \in Early => Sent(c)' = w
      <4>. SUFFICES ASSUME pc[c] \in Early PROVE Sent(c)' = w
        OBVIOUS
      <4>1. dbDown[c] = <<>> /\ pc[c] # "payload"
        BY <1>3, <2>4
      <4>. QED BY <2>1, <3>2, <3>3, <4>1, ConcatEmptySeq DEF Sent
    <3>5. Reply(c)' = Reply(c) /\ (answer[c] = <<>> => Reply(c) = w)
      <4>1. Reply(c)' = Reply(c)
        BY <2>1 DEF Reply
      <4>2. answer[c] = <<>> => Words(answer[c]) = <<>>
        BY WordsEmpty
      <4>. QED BY <3>1, <3>2, <4>1, <4>2, ConcatEmptySeq DEF Reply
    <3>6. CASE pc[c] \in Early
      <4>1. pc[c] \notin Later
        BY <3>6 DEF Early, Later
      <4>. QED BY <1>0, <1>1, <2>1, <2>4, <3>1, <3>3, <3>4, <3>5, <3>6, <4>1 DEF ReplyOf
    <3>7. CASE pc[c] = "failed"
      BY <2>1, <3>7 DEF ReplyOf, Early, Later
    <3>. QED BY <1>0, <1>2, <2>4, <3>6, <3>7
  <2>5. ASSUME handler[c] = "array", UNCHANGED <<dbEnd, alive>>,
               dbDown' = [dbDown EXCEPT ![c] = dbDown[c] \o Words(answer[c])],
               handler' = [handler EXCEPT ![c] = "close"]
        PROVE  ReplyOf(c)'
    <3>1. PICK d, t, w : d = dbDown[c] /\ t = Words(answer[c]) /\ w = Word(wanted[c])
      OBVIOUS
    <3>2. d \in Seq(Bytes) /\ t \in Seq(Bytes) /\ w \in Seq(Bytes)
      <4>1. dbDown[c] \in Seq(Bytes) /\ wanted[c] \in Values
        BY <1>0 DEF StreamTypes, Values
      <4>. QED BY <1>0, <3>1, <4>1, LengthPrefixed, WordBytes
    <3>3. dbDown'[c] = d \o t /\ handler'[c] = "close"
      BY <1>0, <2>5, <3>1 DEF StreamTypes
    <3>4. Reply(c)' = Reply(c)
      BY <2>1 DEF Reply
    <3>5. pc[c] \in Early => Sent(c)' = Reply(c)
      <4>. SUFFICES ASSUME pc[c] \in Early PROVE Sent(c)' = Reply(c)
        OBVIOUS
      <4>1. Sent(c) = Word(Len(answer[c]))
        BY <1>0, <2>5 DEF ReplyOf
      <4>2. CASE pc[c] = "payload"
        <5>1. Sent(c)' = w \o (d \o t) /\ Sent(c) = w \o d
          BY <2>1, <3>1, <3>3, <4>2 DEF Sent
        <5>2. w \o (d \o t) = (w \o d) \o t
          BY <3>2, ConcatAssociative
        <5>. QED BY <3>1, <4>1, <5>1, <5>2 DEF Reply
      <4>3. CASE pc[c] # "payload"
        BY <2>1, <3>1, <3>3, <4>1, <4>3 DEF Sent, Reply
      <4>. QED BY <4>2, <4>3
    <3>. QED BY <1>0, <1>1, <2>1, <2>5, <3>3, <3>4, <3>5 DEF ReplyOf
  <2>. QED BY <1>8, <2>1, <2>2, <2>3, <2>4, <2>5 DEF SendAnswer
<1>9. CASE CloseDb(c)
  BY <1>0, <1>9, ClosedReply DEF CloseDb, ReplyOf
<1>. QED BY <1>6, <1>7, <1>8, <1>9 DEF Handler

(* No step of any process lets a gateway take a part of an answer for the  *)
(* answer.                                                                 *)
LEMMA ReplyKept ==
    ASSUME RetrievalInv, [Next]_vars, NEW c \in Client
    PROVE  ReplyOf(c)'
<1>0. /\ StreamTypes /\ ReplyOf(c)
      /\ handler[c] \in {"none", "query", "closed"} \cup Searched
  BY DEF RetrievalInv, StreamTypes
<1>1. CASE UNCHANGED vars
  <2>1. Untouched(c)
    BY <1>1 DEF vars, dbVars, infVars, Untouched
  <2>. QED BY <1>0, <2>1, ReplyFrame
<1>2. CASE Listener \/ Serve
  <2>1. /\ pc' = pc /\ context' = context /\ wanted' = wanted
        /\ dbUp' = dbUp /\ dbDown' = dbDown /\ received' = received /\ answer' = answer
        /\ alive' = alive /\ handler' = handler /\ dbEnd' = dbEnd
    BY <1>2 DEF Listener, Accept, RecvPrompt, Serve, dbVars
  <2>2. Sent(c)' = Sent(c) /\ Reply(c)' = Reply(c)
    BY <2>1 DEF Sent, Reply
  <2>. QED BY <1>0, <2>1, <2>2 DEF ReplyOf
<1>3. ASSUME NEW d \in Client, c # d, Gateway(d) \/ Die(d) \/ Handler(d)
      PROVE  ReplyOf(c)'
  <2>1. Untouched(c)
    BY <1>0, <1>3, GatewayApart, HandlerApart
  <2>. QED BY <1>0, <2>1, ReplyFrame
<1>4. CASE Gateway(c) \/ Die(c)
  BY <1>4, GatewayReply
<1>5. CASE Handler(c)
  BY <1>5, HandlerReply
<1>. QED BY <1>1, <1>2, <1>3, <1>4, <1>5 DEF Next


-----------------------------------------------------------------------------
(* A prompt that is being read, or not yet sent, stays as it is.           *)
LEMMA PromptFrame ==
    ASSUME NEW c \in Client, PromptOf(c), context'[c] = context[c] \/ ~Reading(c),
           pc'[c] = pc[c] \/ pc'[c] \in {"stream", "done", "failed"},
           Reading(c)' = Reading(c), Got(c)' = Got(c), infUp'[c] = infUp[c],
           Reading(c) => infEnd'[c] = infEnd[c],
           pc'[c] \in Early \cup {"connect"} => infEnd'[c] = infEnd[c],
           listener'.conn = c => c \notin ToSet(backlog')
    PROVE  PromptOf(c)'
<1>1. {"stream", "done", "failed"} \cap (Early \cup {"connect", "length", "tokens"}) = {}
  BY DEF Early
<1>2. Reading(c) => Prompt(c)' = Prompt(c) /\ Message(c)' = Message(c)
  BY DEF Prompt, Message
<1>3. pc'[c] \in Early \cup {"connect", "length", "tokens"} => pc'[c] = pc[c]
  BY <1>1
<1>4. pc[c] = "tokens" => Prompt(c)' = Prompt(c)
  BY <1>2 DEF PromptOf
<1>5. Reading(c)' => Begins(Got(c)' \o infUp'[c], Message(c)') /\ ~infEnd'[c]
  BY <1>2 DEF PromptOf
<1>6. pc'[c] \in Early \cup {"connect"} => ~Reading(c)' /\ infUp'[c] = <<>> /\ ~infEnd'[c]
  BY <1>3 DEF PromptOf
<1>7. pc'[c] = "length" => Reading(c)' /\ Got(c)' = <<>> /\ infUp'[c] = <<>>
  BY <1>3 DEF PromptOf
<1>8. pc'[c] = "tokens" => Reading(c)' /\ Got(c)' \o infUp'[c] = Word(Len(Prompt(c)'))
  BY <1>3, <1>4 DEF PromptOf
<1>. QED BY <1>5, <1>6, <1>7, <1>8 DEF PromptOf

(* A gateway queues its connection, sends the length and then the tokens.  *)
LEMMA GatewayPrompt ==
    ASSUME RetrievalInv, NEW c \in Client, Gateway(c) \/ Die(c)
    PROVE  PromptOf(c)'
<1>. USE DEF dbVars, infVars, Goto
<1>0. StreamTypes /\ PromptOf(c)
  BY DEF RetrievalInv
<1>1. PICK p : p = Prompt(c)
  OBVIOUS
<1>2. /\ p \in Seq(Tokens) /\ Message(c) = Word(Len(p)) \o Words(p)
      /\ Word(Len(p)) \in Seq(Bytes) /\ Words(p) \in Seq(Bytes) /\ Message(c) \in Seq(Bytes)
  BY <1>0, <1>1, PromptTypes, LengthPrefixed DEF Message
<1>3. context' = context => Prompt(c)' = p /\ Message(c)' = Message(c)
  BY <1>1 DEF Prompt, Message
<1>4. ASSUME pc[c] \in Early, UNCHANGED infVars,
             \E l \in Early \cup {"connect", "failed"} : pc' = [pc EXCEPT ![c] = l]
      PROVE  PromptOf(c)'
  <2>1. pc'[c] \in Early \cup {"connect", "failed"}
    BY <1>0, <1>4 DEF StreamTypes
  <2>2. pc'[c] # "length" /\ pc'[c] # "tokens"
    BY <2>1 DEF Early
  <2>3. ~Reading(c) /\ infUp[c] = <<>> /\ ~infEnd[c]
    BY <1>0, <1>4 DEF PromptOf
  <2>4. ~Reading(c)' /\ infUp'[c] = <<>> /\ ~infEnd'[c] /\ listener'.conn # c
    BY <1>4, <2>3 DEF Reading
  <2>. QED BY <2>2, <2>4 DEF PromptOf
<1>5. CASE AskDb(c) \/ SendVector(c) \/ Reset(c) \/ RecvSize(c) \/ RecvPayload(c)
  <2>1. pc[c] \in Early /\ UNCHANGED infVars
    BY <1>5 DEF AskDb, SendVector, Reset, RecvSize, RecvPayload, Early
  <2>2. \E l \in Early \cup {"connect", "failed"} : pc' = [pc EXCEPT ![c] = l]
    BY <1>5 DEF AskDb, SendVector, Reset, RecvSize, RecvPayload, Early
  <2>. QED BY <1>4, <2>1, <2>2
<1>6. CASE AskEngine(c)
  <2>1. /\ pc'[c] = "length" /\ backlog' = Append(backlog, c)
        /\ UNCHANGED <<context, infUp, infEnd, listener>>
        /\ ~Reading(c) /\ infUp[c] = <<>> /\ ~infEnd[c]
    BY <1>0, <1>6 DEF AskEngine, StreamTypes, PromptOf
  <2>2. c \in ToSet(backlog')
    <3>1. ToSet(Append(backlog, c)) = ToSet(backlog) \cup {c}
      BY <1>0, AppendMember DEF StreamTypes
    <3>. QED BY <2>1, <3>1
  <2>3. Reading(c)' /\ Got(c)' = <<>> /\ infUp'[c] = <<>> /\ ~infEnd'[c] /\ listener'.conn # c
    BY <2>1, <2>2 DEF Reading, Got
  <2>4. <<>> \o <<>> = <<>> /\ Begins(<<>>, Message(c)')
    <3>1. <<>> \in Seq(Bytes)
      OBVIOUS
    <3>2. <<>> \o <<>> = <<>> /\ <<>> \o Message(c) = Message(c)
      BY <1>2, <3>1, ConcatEmptySeq
    <3>3. Message(c)' = Message(c)
      BY <1>3, <2>1
    <3>. QED BY <1>2, <3>2, <3>3 DEF Begins
  <2>5. pc'[c] \notin Early \cup {"connect", "tokens"}
    BY <2>1 DEF Early
  <2>. QED BY <2>3, <2>4, <2>5 DEF PromptOf
<1>7. CASE SendPrompt(c) /\ pc[c] = "length"
  <2>1. /\ pc'[c] = "tokens" /\ infUp'[c] = Word(Len(p))
        /\ UNCHANGED <<context, infEnd, backlog, listener>>
    BY <1>0, <1>1, <1>7 DEF SendPrompt, StreamTypes
  <2>2. Reading(c) /\ Got(c) = <<>> /\ ~infEnd[c] /\ (listener.conn = c => c \notin ToSet(backlog))
    BY <1>0, <1>7 DEF PromptOf
  <2>3. Reading(c)' /\ Got(c)' = <<>> /\ ~infEnd'[c]
    BY <2>1, <2>2 DEF Reading, Got
  <2>4. <<>> \o Word(Len(p)) = Word(Len(p))
    BY <1>2, ConcatEmptySeq
  <2>5. Begins(Word(Len(p)), Message(c)')
    BY <1>2, <1>3, <2>1 DEF Begins
  <2>6. pc'[c] \notin Early \cup {"connect", "length"}
    BY <2>1 DEF Early
  <2>. QED BY <1>3, <2>1, <2>2, <2>3, <2>4, <2>5, <2>6 DEF PromptOf
<1>8. CASE SendPrompt(c) /\ pc[c] = "tokens"
  <2>1. PICK g, u, t : g = Got(c) /\ u = infUp[c] /\ t = Words(p)
    OBVIOUS
  <2>2. /\ pc'[c] = "stream" /\ infUp'[c] = u \o t
        /\ UNCHANGED <<context, infEnd, backlog, listener>>
    BY <1>0, <1>1, <1>8, <2>1 DEF SendPrompt, StreamTypes
  <2>3. /\ Reading(c) /\ g \o u = Word(Len(p)) /\ ~infEnd[c]
        /\ listener.conn = c => c \notin ToSet(backlog)
    BY <1>0, <1>1, <1>8, <2>1 DEF PromptOf
  <2>4. Reading(c)' /\ Got(c)' = g /\ ~infEnd'[c]
    BY <2>1, <2>2, <2>3 DEF Reading, Got
  <2>5. g \in Seq(Bytes) /\ u \in Seq(Bytes) /\ t \in Seq(Bytes)
    <3>1. listener.got \in Seq(Bytes) /\ infUp[c] \in Seq(Bytes) /\ <<>> \in Seq(Bytes)
      BY <1>0 DEF StreamTypes
    <3>. QED BY <1>2, <2>1, <3>1 DEF Got
  <2>6. g \o (u \o t) = Message(c)
    <3>1. g \o (u \o t) = (g \o u) \o t
      BY <2>5, ConcatAssociative
    <3>. QED BY <1>2, <2>1, <2>3, <3>1
  <2>7. Begins(Message(c), Message(c)')
    <3>1. Message(c)' = Message(c) \o <<>> /\ <<>> \in Seq(Bytes)
      BY <1>2, <1>3, <2>2, ConcatEmptySeq
    <3>. QED BY <3>1 DEF Begins
  <2>8. pc'[c] \notin Early \cup {"connect", "length", "tokens"}
    BY <2>2 DEF Early
  <2>. QED BY <2>2, <2>3, <2>4, <2>6, <2>7, <2>8 DEF PromptOf
<1>9. CASE Finish(c)
  <2>1. pc'[c] = "done" /\ UNCHANGED <<context, infUp, infEnd, backlog, listener>>
    BY <1>0, <1>9 DEF Finish, StreamTypes
  <2>2. Reading(c)' = Reading(c) /\ Got(c)' = Got(c)
    BY <2>1 DEF Reading, Got
  <2>3. listener'.conn = c => c \notin ToSet(backlog')
    BY <1>0, <2>1 DEF PromptOf
  <2>. QED BY <1>0, <2>1, <2>2, <2>3, PromptFrame
<1>10. CASE Die(c)
  <2>1. PICK n \in 0 .. Len(infUp[c]) : infUp' = [infUp EXCEPT ![c] = SubSeq(infUp[c], 1, n)]
    BY <1>10 DEF Die
  <2>2. PICK g, u : g = Got(c) /\ u = infUp[c]
    OBVIOUS
  <2>3. /\ pc'[c] = "failed" /\ infUp'[c] = SubSeq(u, 1, n)
        /\ UNCHANGED <<context, infEnd, backlog, listener>>
    BY <1>0, <1>10, <2>1, <2>2 DEF Die, StreamTypes
  <2>4. Reading(c)' = Reading(c) /\ Got(c)' = g
    BY <2>2, <2>3 DEF Reading, Got
  <2>5. g \in Seq(Bytes) /\ u \in Seq(Bytes)
    <3>1. listener.got \in Seq(Bytes) /\ infUp[c] \in Seq(Bytes) /\ <<>> \in Seq(Bytes)
      BY <1>0 DEF StreamTypes
    <3>. QED BY <2>2, <3>1 DEF Got
  <2>6. Reading(c) => Begins(g \o SubSeq(u, 1, n), Message(c)) /\ ~infEnd[c]
    BY <1>0, <2>1, <2>2, <2>5, BeginsCut DEF PromptOf
  <2>7. pc'[c] \notin Early \cup {"connect", "length", "tokens"}
    BY <2>3 DEF Early
  <2>8. listener'.conn = c => c \notin ToSet(backlog')
    BY <1>0, <2>3 DEF PromptOf
  <2>. QED BY <1>3, <2>3, <2>4, <2>6, <2>7, <2>8 DEF PromptOf
<1>. QED BY <1>5, <1>6, <1>7, <1>8, <1>9, <1>10 DEF Gateway, SendPrompt


(* What a read leaves in the call of recv_ints.                            *)
LEMMA ReadsOutcome ==
    ASSUME StreamTypes, NEW c, NEW k, NEW got, Reads(c, k, got)
    PROVE  \/ /\ Len(got) # listener.need
              /\ listener'.conn = listener.conn /\ listener'.got = got
              /\ listener'.need = listener.need /\ incoming' = incoming
           \/ /\ Len(got) = listener.need /\ listener.need = WordSize
              /\ listener'.conn = listener.conn /\ listener'.got = got
              /\ listener'.need = Announced(Ints(SubSeq(got, 1, WordSize))[1])
              /\ incoming' = incoming
           \/ /\ Len(got) = listener.need /\ listener.need # WordSize
              /\ listener' = Waiting
<1>0. listener \in [conn : Client \cup {"none"}, got : Seq(Bytes), need : Nat]
  BY DEF StreamTypes
<1>1. PICK n : n = Announced(Ints(SubSeq(got, 1, WordSize))[1])
  OBVIOUS
<1>2. CASE Len(got) # listener.need /\ listener' = [listener EXCEPT !.got = got]
           /\ incoming' = incoming
  BY <1>0, <1>2
<1>3. CASE Len(got) = listener.need /\ listener.need = WordSize
           /\ listener' = [listener EXCEPT !.got = got, !.need = n] /\ incoming' = incoming
  <2>1. listener'.conn = listener.conn /\ listener'.got = got /\ listener'.need = n
    BY <1>0, <1>3
  <2>. QED BY <1>1, <1>3, <2>1
<1>. QED BY <1>1, <1>2, <1>3 DEF Reads

(* What the listener reads of a connection moves from the stream to its    *)
(* buffer; once the message is complete the connection is read no more.    *)
LEMMA ReaderPrompt ==
    ASSUME RetrievalInv, NEW c \in Client, NEW k, NEW got, Reads(c, k, got)
    PROVE  /\ PromptOf(c)'
           /\ listener' = Waiting =>
                  /\ got = Message(c) /\ ~infEnd[c] /\ ~Reading(c)'
                  /\ pc[c] \in {"stream", "done", "failed"}
<1>0. StreamTypes /\ PromptOf(c) /\ ListenerInv
  BY DEF RetrievalInv
<1>1. PICK p, rest : p = Prompt(c) /\ rest = SubSeq(infUp[c], k + 1, Len(infUp[c]))
  OBVIOUS
<1>2. /\ listener.conn = c /\ c # "none"
      /\ k \in RecvSizes(infUp[c], listener.need - Len(listener.got))
      /\ got = listener.got \o SubSeq(infUp[c], 1, k)
      /\ UNCHANGED <<pc, context, infEnd, backlog>>
  BY DEF Reads
<1>3. /\ k \in 0 .. Len(infUp[c]) /\ k # 0 /\ rest \in Seq(Bytes) /\ got \in Seq(Bytes)
      /\ got \o rest = listener.got \o infUp[c] /\ Len(got) <= listener.need
      /\ Begins(got, Message(c))
      /\ Len(got) = Announced(Len(p)) => got = Message(c)
  BY <1>1, <1>2, PromptStep
<1>4. infUp'[c] = rest
  BY <1>0, <1>1 DEF Reads, StreamTypes
<1>5. /\ Reading(c) /\ Got(c) = listener.got /\ c \notin ToSet(backlog) /\ ~infEnd[c]
      /\ Begins(listener.got \o infUp[c], Message(c))
  BY <1>0, <1>2 DEF PromptOf, Reading, Got
<1>6. pc[c] \notin Early \cup {"connect", "length"}
  <2>1. pc[c] = "length" => FALSE
    <3>. SUFFICES ASSUME pc[c] = "length" PROVE FALSE
      OBVIOUS
    <3>1. infUp[c] = <<>>
      BY <1>0 DEF PromptOf
    <3>2. Len(infUp[c]) = 0
      BY <3>1
    <3>. QED BY <1>3, <3>2
  <2>. QED BY <1>0, <1>5, <2>1 DEF PromptOf
<1>7. Prompt(c)' = p /\ Message(c)' = Message(c)
  BY <1>1, <1>2 DEF Prompt, Message
<1>8. CASE listener'.conn = c /\ listener'.got = got
  <2>1. Reading(c)' /\ Got(c)' = got
    BY <1>8 DEF Reading, Got
  <2>2. pc[c] = "tokens" => got \o rest = Word(Len(p))
    BY <1>0, <1>1, <1>3, <1>5 DEF PromptOf
  <2>3. PromptOf(c)'
    BY <1>2, <1>3, <1>4, <1>5, <1>6, <1>7, <2>1, <2>2 DEF PromptOf
  <2>4. listener' # Waiting
    BY <1>2, <1>8 DEF Waiting
  <2>. QED BY <2>3, <2>4
<1>9. CASE Len(got) = listener.need /\ listener.need # WordSize /\ listener' = Waiting
  <2>1. listener.need = Announced(Len(p))
    BY <1>0, <1>1, <1>2, <1>9 DEF ListenerInv
  <2>2. got = Message(c)
    BY <1>3, <1>9, <2>1
  <2>3. pc[c] # "tokens"
    <3>. SUFFICES ASSUME pc[c] = "tokens" PROVE FALSE
      OBVIOUS
    <3>1. PICK n \in Nat \ {0} : n = Len(p)
      BY <1>0, <1>1, PromptTypes
    <3>2. /\ Len(Word(Len(p))) = WordSize /\ listener.need = WordSize + WordSize * n
      BY <1>0, <1>1, <2>1, <3>1, PromptTypes, LengthPrefixed
    <3>3. got \o rest = Word(Len(p))
      BY <1>0, <1>1, <1>3, <1>5 DEF PromptOf
    <3>4. Len(got \o rest) = Len(got) + Len(rest) /\ Len(rest) \in Nat /\ Len(got) \in Nat
      <4>1. got \in Seq(Bytes) /\ rest \in Seq(Bytes)
        BY <1>3
      <4>. QED BY <4>1, ConcatProperties
    <3>5. PICK i \in Nat : n = i + 1
      <4>1. n - 1 \in Nat /\ n = (n - 1) + 1
        BY <3>1
      <4>. QED BY <4>1
    <3>6. WordSize * n = WordSize * i + WordSize /\ WordSize * i \in Nat
      BY <3>5, WordAssumption, Products
    <3>7. Len(got) <= WordSize
      BY <3>2, <3>3, <3>4, WordAssumption
    <3>. QED BY <1>9, <3>2, <3>6, <3>7, WordAssumption
  <2>4. ~Reading(c)' /\ listener'.conn # c
    BY <1>2, <1>5, <1>9 DEF Reading, Waiting
  <2>5. pc'[c] \notin Early \cup {"connect", "length", "tokens"}
    BY <1>2, <1>6, <2>3
  <2>6. PromptOf(c)'
    BY <2>4, <2>5 DEF PromptOf
  <2>7. pc[c] \in {"stream", "done", "failed"}
    BY <1>0, <1>6, <2>3 DEF StreamTypes, Later
  <2>. QED BY <1>5, <2>2, <2>4, <2>6, <2>7
<1>10. listener.conn = c /\ (listener' = Waiting => listener'.conn # c)
  BY <1>2 DEF Waiting
<1>. QED BY <1>0, <1>8, <1>9, <1>10, ReadsOutcome

(* The prompt of every client stays in one piece.                          *)
LEMMA PromptKept ==
    ASSUME RetrievalInv, [Next]_vars, NEW c \in Client
    PROVE  PromptOf(c)'
<1>. USE DEF dbVars, infVars
<1>0. StreamTypes /\ PromptOf(c) /\ c # "none"
  BY RetrievalAssumption DEF RetrievalInv
<1>1. ASSUME pc'[c] = pc[c], context'[c] = context[c], infUp'[c] = infUp[c],
             infEnd'[c] = infEnd[c], Reading(c)' = Reading(c), Got(c)' = Got(c),
             listener'.conn = c => c \notin ToSet(backlog')
      PROVE  PromptOf(c)'
  BY <1>0, <1>1, PromptFrame
<1>2. CASE UNCHANGED vars \/ Handler(c)
  <2>1. UNCHANGED <<pc, context, infUp, infEnd, listener, backlog>>
    BY <1>2 DEF vars, Handler, RecvQuery, Search, SendAnswer, CloseDb
  <2>2. Reading(c)' = Reading(c) /\ Got(c)' = Got(c)
    BY <2>1 DEF Reading, Got
  <2>. QED BY <1>0, <1>1, <2>1, <2>2 DEF PromptOf
<1>3. ASSUME NEW d \in Client, c # d, Gateway(d) \/ Die(d) \/ Handler(d)
      PROVE  PromptOf(c)'
  <2>1. Untouched(c) /\ UNCHANGED <<infEnd, listener>>
    BY <1>0, <1>3, GatewayApart, HandlerApart
  <2>2. backlog' = backlog \/ backlog' = Append(backlog, d)
    BY <1>3 DEF Gateway, Die, Handler, AskDb, SendVector, Reset, RecvSize, RecvPayload,
                AskEngine, SendPrompt, Finish, RecvQuery, Search, SendAnswer, CloseDb
  <2>3. ToSet(Append(backlog, d)) = ToSet(backlog) \cup {d}
    BY <1>0, AppendMember DEF StreamTypes
  <2>4. c \in ToSet(backlog') <=> c \in ToSet(backlog)
    BY <1>3, <2>2, <2>3
  <2>5. Reading(c)' = Reading(c) /\ Got(c)' = Got(c)
    BY <2>1, <2>4 DEF Reading, Got
  <2>6. listener'.conn = c => c \notin ToSet(backlog')
    BY <1>0, <2>1, <2>4 DEF PromptOf
  <2>. QED BY <1>1, <2>1, <2>5, <2>6 DEF Untouched
<1>4. CASE Gateway(c) \/ Die(c)
  BY <1>4, GatewayPrompt
<1>5. CASE Accept
  <2>1. /\ listener.conn = "none" /\ backlog # <<>>
        /\ listener'.conn = Head(backlog) /\ listener'.got = <<>> /\ backlog' = Tail(backlog)
        /\ UNCHANGED <<pc, context, infUp, infEnd>>
    BY <1>5 DEF Accept
  <2>2. ToSet(Tail(backlog)) = ToSet(backlog) \ {Head(backlog)}
    BY <2>1, TailApart DEF RetrievalInv, StreamTypes, ListenerInv
  <2>3. Head(backlog) \in ToSet(backlog)
    <3>1. backlog \in Seq(Client) /\ Len(backlog) # 0 /\ Len(backlog) \in Nat
      BY <1>0, <2>1, EmptySeq DEF StreamTypes
    <3>2. 1 \in DOMAIN backlog /\ Head(backlog) = backlog[1]
      BY <3>1
    <3>. QED BY <3>2 DEF ToSet
  <2>4. Reading(c)' = Reading(c) /\ Got(c)' = Got(c)
    BY <1>0, <2>1, <2>2, <2>3 DEF Reading, Got
  <2>5. listener'.conn = c => c \notin ToSet(backlog')
    BY <2>1, <2>2
  <2>. QED BY <1>1, <2>1, <2>4, <2>5
<1>6. CASE RecvPrompt
  <2>1. ASSUME NEW k, NEW got, Reads(listener.conn, k, got)
        PROVE  PromptOf(c)'
    <3>1. CASE listener.conn = c
      BY <2>1, <3>1, ReaderPrompt
    <3>2. CASE listener.conn # c
      <4>1. /\ UNCHANGED <<pc, context, infEnd, backlog>> /\ infUp'[c] = infUp[c]
            /\ listener'.conn \in {listener.conn, "none"}
        <5>1. listener'.conn \in {listener.conn, "none"}
          BY <1>0, <2>1, ReadsOutcome DEF Waiting
        <5>2. infUp'[c] = infUp[c]
          BY <1>0, <2>1, <3>2 DEF Reads, StreamTypes
        <5>. QED BY <2>1, <5>1, <5>2 DEF Reads
      <4>2. Reading(c)' = Reading(c) /\ Got(c)' = Got(c) /\ listener'.conn # c
        BY <1>0, <3>2, <4>1 DEF Reading, Got
      <4>. QED BY <1>1, <4>1, <4>2
    <3>. QED BY <3>1, <3>2
  <2>2. ASSUME Gone(listener.conn), listener' = Waiting,
               UNCHANGED <<pc, context, infUp, infEnd, backlog>>
        PROVE  PromptOf(c)'
    <3>1. listener'.conn # c
      BY <1>0, <2>2 DEF Waiting
    <3>2. CASE listener.conn = c
      <4>1. ~Reading(c)'
        BY <1>0, <2>2, <3>1, <3>2 DEF Reading, PromptOf
      <4>2. pc'[c] \notin Early \cup {"connect", "length", "tokens"}
        BY <2>2, <3>2 DEF Gone, Over, Early
      <4>. QED BY <3>1, <4>1, <4>2 DEF PromptOf
    <3>3. CASE listener.conn # c
      <4>1. Reading(c)' = Reading(c) /\ Got(c)' = Got(c)
        BY <2>2, <3>1, <3>3 DEF Reading, Got
      <4>. QED BY <1>1, <2>2, <3>1, <4>1
    <3>. QED BY <3>2, <3>3
  <2>. QED BY <1>6, <2>1, <2>2, ReadsOrForgets
<1>7. CASE Serve
  <2>1. PICK r \in incoming : infEnd' = [infEnd EXCEPT ![r.conn] = TRUE]
    BY <1>7 DEF Serve
  <2>2. UNCHANGED <<pc, context, infUp, backlog, listener>>
    BY <1>7 DEF Serve
  <2>3. Reading(c)' = Reading(c) /\ Got(c)' = Got(c)
    BY <2>2 DEF Reading, Got
  <2>4. c = r.conn => ~Reading(c) /\ pc[c] \notin Early \cup {"connect"}
    BY DEF RetrievalInv, RequestInv, Early
  <2>5. c # r.conn => infEnd'[c] = infEnd[c]
    BY <1>0, <2>1 DEF StreamTypes
  <2>6. listener'.conn = c => c \notin ToSet(backlog')
    BY <1>0, <2>2 DEF PromptOf
  <2>. QED BY <1>0, <2>2, <2>3, <2>4, <2>5, <2>6, PromptFrame
<1>. QED BY <1>2, <1>3, <1>4, <1>5, <1>6, <1>7 DEF Next, Listener


(* A question's context is settled once the gateway is done with the       *)
(* database.                                                               *)
LEMMA ContextSettled ==
    ASSUME RetrievalInv, [Next]_vars, NEW c \in Client, pc[c] \notin Early
    PROVE  context'[c] = context[c] /\ Prompt(c)' = Prompt(c)
<1>. USE DEF dbVars, infVars
<1>0. StreamTypes
  BY DEF RetrievalInv
<1>1. context'[c] = context[c]
  <2>1. CASE UNCHANGED vars \/ Listener \/ Serve \/ Handler(c)
    BY <2>1 DEF vars, Listener, Accept, RecvPrompt, Serve, Handler, RecvQuery, Search,
                SendAnswer, CloseDb
  <2>2. ASSUME NEW d \in Client, c # d, Gateway(d) \/ Die(d) \/ Handler(d)
        PROVE  context'[c] = context[c]
    BY <1>0, <2>2, GatewayApart, HandlerApart DEF Untouched
  <2>3. CASE Gateway(c) \/ Die(c)
    BY <2>3 DEF Gateway, Die, AskDb, SendVector, Reset, RecvSize, RecvPayload, AskEngine,
                SendPrompt, Finish, Early
  <2>. QED BY <2>1, <2>2, <2>3 DEF Next
<1>. QED BY <1>1 DEF Prompt

(* Only a gateway that connects becomes one that is read.                  *)
LEMMA NewReaders ==
    ASSUME RetrievalInv, [Next]_vars, NEW c \in Client, ~Reading(c), pc[c] # "connect"
    PROVE  ~Reading(c)'
<1>. USE DEF dbVars, infVars
<1>0. StreamTypes /\ c # "none"
  BY RetrievalAssumption DEF RetrievalInv
<1>1. CASE UNCHANGED vars \/ Serve \/ \E d \in Client : Handler(d)
  <2>1. UNCHANGED <<backlog, listener>>
    BY <1>1 DEF vars, Serve, Handler, RecvQuery, Search, SendAnswer, CloseDb
  <2>. QED BY <2>1 DEF Reading
<1>2. ASSUME NEW d \in Client, Gateway(d) \/ Die(d)
      PROVE  ~Reading(c)'
  <2>1. /\ listener' = listener
        /\ backlog' = backlog \/ (backlog' = Append(backlog, d) /\ pc[d] = "connect")
    BY <1>2 DEF Gateway, Die, AskDb, SendVector, Reset, RecvSize, RecvPayload,
                AskEngine, SendPrompt, Finish
  <2>2. ToSet(Append(backlog, d)) = ToSet(backlog) \cup {d}
    BY <1>0, AppendMember DEF StreamTypes
  <2>. QED BY <2>1, <2>2 DEF Reading
<1>3. CASE Accept
  <2>1. backlog # <<>> /\ listener'.conn = Head(backlog) /\ backlog' = Tail(backlog)
    BY <1>3 DEF Accept
  <2>2. ToSet(Tail(backlog)) = ToSet(backlog) \ {Head(backlog)}
    BY <2>1, TailApart DEF RetrievalInv, StreamTypes, ListenerInv
  <2>3. Head(backlog) \in ToSet(backlog)
    <3>1. backlog \in Seq(Client) /\ Len(backlog) # 0 /\ Len(backlog) \in Nat
      BY <1>0, <2>1, EmptySeq DEF StreamTypes
    <3>2. 1 \in DOMAIN backlog /\ Head(backlog) = backlog[1]
      BY <3>1
    <3>. QED BY <3>2 DEF ToSet
  <2>. QED BY <2>1, <2>2, <2>3 DEF Reading
<1>4. CASE RecvPrompt
  <2>1. backlog' = backlog
    BY <1>4 DEF RecvPrompt
  <2>2. listener'.conn = listener.conn \/ listener' = Waiting
    BY <1>0, <1>4, ReadsOrForgets, ReadsOutcome
  <2>. QED BY <1>0, <2>1, <2>2 DEF Reading, Waiting
<1>. QED BY <1>1, <1>2, <1>3, <1>4 DEF Next, Listener

(* A request that waits for the engine still carries its client's prompt.  *)
LEMMA RequestStays ==
    ASSUME RetrievalInv, [Next]_vars, NEW r \in incoming, r \in incoming'
    PROVE  /\ r.tokens = Prompt(r.conn)' /\ ~infEnd'[r.conn] /\ ~Reading(r.conn)'
           /\ pc'[r.conn] \in {"stream", "done", "failed"}
<1>. USE DEF dbVars, infVars
<1>0. StreamTypes /\ RequestInv /\ incoming \subseteq [conn : Client, tokens : Seq(Tokens)]
  BY DEF RetrievalInv, StreamTypes
<1>1. PICK c \in Client : c = r.conn
  BY <1>0
<1>2. /\ r.tokens = Prompt(c) /\ ~infEnd[c] /\ ~Reading(c)
      /\ pc[c] \in {"stream", "done", "failed"}
  BY <1>0, <1>1 DEF RequestInv
<1>3. pc[c] \notin Early /\ pc[c] # "connect"
  BY <1>2 DEF Early
<1>4. Prompt(c)' = Prompt(c) /\ ~Reading(c)'
  BY <1>2, <1>3, ContextSettled, NewReaders
<1>5. pc'[c] \in {"stream", "done", "failed"}
  <2>1. CASE UNCHANGED vars \/ Listener \/ Serve \/ Handler(c)
    BY <1>2, <2>1 DEF vars, Listener, Accept, RecvPrompt, Serve, Handler, RecvQuery, Search,
                SendAnswer, CloseDb
  <2>2. ASSUME NEW d \in Client, c # d, Gateway(d) \/ Die(d) \/ Handler(d)
        PROVE  pc'[c] = pc[c]
    BY <1>0, <2>2, GatewayApart, HandlerApart DEF Untouched
  <2>3. CASE Gateway(c) \/ Die(c)
    <3>1. Finish(c) \/ Die(c)
      BY <1>2, <2>3 DEF Gateway, AskDb, SendVector, Reset, RecvSize, RecvPayload, AskEngine,
                SendPrompt
    <3>2. pc' = [pc EXCEPT ![c] = "done"] \/ pc' = [pc EXCEPT ![c] = "failed"]
      BY <3>1 DEF Finish, Die, Goto
    <3>. QED BY <1>0, <3>2 DEF StreamTypes
  <2>. QED BY <1>2, <2>1, <2>2, <2>3 DEF Next
<1>6. ~infEnd'[c]
  <2>1. CASE Serve
    <3>1. PICK s \in incoming : /\ incoming' = incoming \ {s}
                                /\ infEnd' = [infEnd EXCEPT ![s.conn] = TRUE]
      BY <2>1 DEF Serve
    <3>2. s.conn # c
      <4>. SUFFICES ASSUME s.conn = c PROVE FALSE
        OBVIOUS
      <4>1. s.tokens = r.tokens
        BY <1>0, <1>2 DEF RequestInv
      <4>2. s = r
        BY <1>0, <1>1, <4>1
      <4>. QED BY <3>1, <4>2
    <3>. QED BY <1>0, <1>2, <3>1, <3>2 DEF StreamTypes
  <2>2. CASE infEnd' = infEnd
    BY <1>2, <2>2
  <2>3. CASE UNCHANGED vars \/ Listener
    BY <2>2, <2>3 DEF vars, Listener, Accept, RecvPrompt
  <2>4. ASSUME NEW d \in Client, Gateway(d) \/ Die(d) \/ Handler(d) PROVE infEnd' = infEnd
    BY <2>4 DEF Gateway, Die, Handler, AskDb, SendVector, Reset, RecvSize, RecvPayload,
                AskEngine, SendPrompt, Finish, RecvQuery, Search, SendAnswer, CloseDb
  <2>. QED BY <2>1, <2>2, <2>3, <2>4 DEF Next
<1>. QED BY <1>1, <1>2, <1>4, <1>5, <1>6

(* A request that the listener queues carries its client's prompt.         *)
LEMMA RequestKept ==
    ASSUME RetrievalInv, [Next]_vars
    PROVE  RequestInv'
<1>. USE DEF dbVars, infVars
<1>0. StreamTypes /\ incoming \subseteq [conn : Client, tokens : Seq(Tokens)]
  BY DEF RetrievalInv, StreamTypes
<1>. SUFFICES ASSUME NEW r \in incoming'
              PROVE  /\ r.tokens = Prompt(r.conn)' /\ ~infEnd'[r.conn] /\ ~Reading(r.conn)'
                     /\ pc'[r.conn] \in {"stream", "done", "failed"}
  BY DEF RequestInv, Prompt, Reading
<1>1. CASE r \in incoming
  BY <1>1, RequestStays
<1>2. CASE r \notin incoming
  <2>1. RecvPrompt
    <3>1. UNCHANGED vars \/ Accept => incoming' = incoming
      BY DEF vars, Accept
    <3>2. Serve => incoming' \subseteq incoming
      BY DEF Serve
    <3>3. ASSUME NEW d \in Client, Gateway(d) \/ Die(d) \/ Handler(d)
          PROVE  incoming' = incoming
      BY <3>3 DEF Gateway, Die, Handler, AskDb, SendVector, Reset, RecvSize, RecvPayload,
                  AskEngine, SendPrompt, Finish, RecvQuery, Search, SendAnswer, CloseDb
    <3>. QED BY <1>2, <3>1, <3>2, <3>3 DEF Next, Listener
  <2>2. PICK k, got : Reads(listener.conn, k, got)
    BY <1>2, <2>1, ReadsOrForgets
  <2>3. PICK c \in Client : c = listener.conn
    BY <1>0, <2>2 DEF Reads, StreamTypes
  <2>4. /\ listener' = Waiting
        /\ r = [conn |-> c, tokens |-> Ints(SubSeq(got, WordSize + 1, Len(got)))]
        /\ UNCHANGED <<pc, context, infEnd>>
    BY <1>2, <2>2, <2>3 DEF Reads
  <2>5. /\ got = Message(c) /\ ~infEnd[c] /\ ~Reading(c)'
        /\ pc[c] \in {"stream", "done", "failed"}
    BY <2>2, <2>3, <2>4, ReaderPrompt
  <2>6. PICK p : p = Prompt(c)
    OBVIOUS
  <2>7. /\ p \in Seq(Tokens) /\ p \in Seq(Values) /\ Len(p) \in Values
        /\ Words(p) \in Seq(Bytes) /\ got = Word(Len(p)) \o Words(p)
    BY <1>0, <2>5, <2>6, PromptTypes, TokenValues, LengthPrefixed DEF Message
  <2>8. SubSeq(got, WordSize + 1, Len(got)) = Words(p)
    BY <2>7, FirstInt
  <2>9. Ints(SubSeq(got, WordSize + 1, Len(got))) = p
    BY <2>7, <2>8, IntsOfWords
  <2>10. Prompt(c)' = p
    BY <2>4, <2>6 DEF Prompt
  <2>11. r.conn = c /\ r.tokens = p
    BY <2>4, <2>9
  <2>. QED BY <2>4, <2>5, <2>10, <2>11
<1>. QED BY <1>1, <1>2

(* The listener never reads past the message it is in.                     *)
LEMMA ListenerKept ==
    ASSUME RetrievalInv, [Next]_vars
    PROVE  ListenerInv'
<1>. USE DEF dbVars, infVars
<1>0. StreamTypes /\ ListenerInv
  BY DEF RetrievalInv
<1>1. ASSUME listener' = listener, backlog' = backlog PROVE ListenerInv'
  <2>1. listener.conn # "none" => context'[listener.conn] = context[listener.conn]
    <3>. SUFFICES ASSUME listener.conn # "none"
                  PROVE  context'[listener.conn] = context[listener.conn]
      OBVIOUS
    <3>1. PICK c \in Client : c = listener.conn
      BY <1>0 DEF StreamTypes
    <3>2. pc[c] \notin Early
      BY <3>1 DEF RetrievalInv, PromptOf, Reading
    <3>. QED BY <3>1, <3>2, ContextSettled
  <2>. QED BY <1>0, <1>1, <2>1 DEF ListenerInv, Prompt
<1>2. CASE UNCHANGED vars \/ Serve
  BY <1>1, <1>2 DEF vars, Serve
<1>3. ASSUME NEW d \in Client, Gateway(d) \/ Die(d) \/ Handler(d) PROVE ListenerInv'
  <2>1. CASE backlog' = backlog
    <3>1. listener' = listener
      BY <1>3 DEF Gateway, Die, Handler, AskDb, SendVector, Reset, RecvSize, RecvPayload,
                  AskEngine, SendPrompt, Finish, RecvQuery, Search, SendAnswer, CloseDb
    <3>. QED BY <1>1, <2>1, <3>1
  <2>2. CASE backlog' # backlog
    <3>1. AskEngine(d)
      BY <1>3, <2>2 DEF Gateway, Die, Handler, AskDb, SendVector, Reset, RecvSize, RecvPayload,
                  SendPrompt, Finish, RecvQuery, Search, SendAnswer, CloseDb
    <3>2. /\ pc[d] = "connect" /\ backlog' = Append(backlog, d)
          /\ listener' = listener /\ context' = context
      BY <3>1 DEF AskEngine
    <3>3. d \notin ToSet(backlog)
      BY <3>2 DEF RetrievalInv, PromptOf, Reading
    <3>4. IsInjective(Append(backlog, d))
      BY <1>0, <3>3, AppendMember DEF StreamTypes, ListenerInv
    <3>. QED BY <1>0, <3>2, <3>4 DEF ListenerInv, Prompt
  <2>. QED BY <2>1, <2>2
<1>4. CASE Accept
  <2>1. /\ backlog # <<>> /\ backlog' = Tail(backlog)
        /\ listener' = [conn |-> Head(backlog), got |-> <<>>, need |-> WordSize]
    BY <1>4 DEF Accept
  <2>2. IsInjective(Tail(backlog))
    BY <1>0, <2>1, TailApart DEF StreamTypes, ListenerInv
  <2>3. Len(<<>>) = 0 /\ 0 < WordSize
    BY WordAssumption
  <2>. QED BY <2>1, <2>2, <2>3 DEF ListenerInv
<1>5. CASE RecvPrompt
  <2>1. backlog' = backlog /\ context' = context
    BY <1>5 DEF RecvPrompt
  <2>2. CASE listener' = Waiting
    BY <1>0, <2>1, <2>2 DEF ListenerInv, Waiting
  <2>3. CASE listener' # Waiting
    <3>1. PICK k, got : Reads(listener.conn, k, got)
      BY <1>5, <2>3, ReadsOrForgets
    <3>2. PICK c \in Client : c = listener.conn /\ c # "none"
      BY <1>0, <3>1 DEF Reads, StreamTypes
    <3>3. PICK p : p = Prompt(c)
      OBVIOUS
    <3>4. p \in Seq(Tokens) /\ Len(p) \in Nat \ {0} /\ Len(p) \in Values
      BY <1>0, <3>3, PromptTypes, TokenValues
    <3>5. /\ got \in Seq(Bytes) /\ Len(got) = Len(listener.got) + k /\ Len(got) <= listener.need
          /\ k \in 0 .. Len(infUp[c])
          /\ Len(got) = WordSize => got = Word(Len(p))
      BY <3>1, <3>2, <3>3, PromptStep DEF Reads
    <3>6. listener.got \in Seq(Bytes) /\ listener.need \in Nat /\ infUp[c] \in Seq(Bytes)
      BY <1>0 DEF StreamTypes
    <3>7. PICK a, b, n, w \in Nat : /\ a = Len(listener.got) /\ b = Len(got)
                                    /\ n = listener.need /\ w = WordSize
      BY <3>5, <3>6, WordAssumption
    <3>8. k \in Nat /\ b = a + k /\ b <= n
      BY <3>5, <3>6, <3>7
    <3>9. \/ n = w /\ a < w
          \/ n = Announced(Len(p)) /\ a >= w /\ a < n
      BY <1>0, <3>2, <3>3, <3>7 DEF ListenerInv
    <3>10. Prompt(c)' = p
      BY <2>1, <3>3 DEF Prompt
    <3>11. CASE b # n /\ listener'.conn = c /\ listener'.got = got /\ listener'.need = n
      <4>1. (n = w /\ b < w) \/ (n = Announced(Len(p)) /\ b >= w /\ b < n)
        BY <3>8, <3>9, <3>11
      <4>2. IsInjective(backlog')
        BY <1>0, <2>1 DEF ListenerInv
      <4>3. \/ listener'.need = WordSize /\ Len(listener'.got) < WordSize
            \/ /\ listener'.need = Announced(Len(Prompt(c)'))
               /\ Len(listener'.got) >= WordSize /\ Len(listener'.got) < listener'.need
        BY <3>7, <3>10, <3>11, <4>1
      <4>. QED BY <3>11, <4>2, <4>3 DEF ListenerInv, Prompt
    <3>12. CASE b = n /\ n = w /\ listener'.conn = c /\ listener'.got = got
                /\ listener'.need = Announced(Ints(SubSeq(got, 1, WordSize))[1])
      <4>1. got = Word(Len(p)) /\ SubSeq(got, 1, WordSize) = got
        BY <3>5, <3>7, <3>12, SubSeqFull
      <4>2. listener'.need = Announced(Len(p))
        BY <3>4, <3>12, <4>1, IntOfWord
      <4>3. Announced(Len(p)) > w
        <5>1. PICK m \in Nat \ {0} : m = Len(p)
          BY <3>4
        <5>2. Announced(Len(p)) = WordSize + WordSize * m
          BY <3>4, <5>1, LengthPrefixed
        <5>3. PICK i \in Nat : m = i + 1
          <6>1. m - 1 \in Nat /\ m = (m - 1) + 1
            BY <5>1
          <6>. QED BY <6>1
        <5>4. WordSize * m = WordSize * i + WordSize /\ WordSize * i \in Nat
          BY <5>3, WordAssumption, Products
        <5>. QED BY <3>7, <5>2, <5>4, WordAssumption
      <4>4. IsInjective(backlog')
        BY <1>0, <2>1 DEF ListenerInv
      <4>5. /\ listener'.need = Announced(Len(Prompt(c)'))
            /\ Len(listener'.got) >= WordSize /\ Len(listener'.got) < listener'.need
        <5>1. Announced(Len(Prompt(c)')) = Announced(Len(p))
          BY <3>10
        <5>2. Len(listener'.got) = b /\ b = w /\ w = WordSize
          BY <3>7, <3>12
        <5>3. w >= w
          BY <3>7
        <5>. QED BY <4>2, <4>3, <5>1, <5>2, <5>3
      <4>. QED BY <3>12, <4>4, <4>5 DEF ListenerInv, Prompt
    <3>. QED BY <1>0, <2>3, <3>1, <3>2, <3>7, <3>11, <3>12, ReadsOutcome
  <2>. QED BY <2>2, <2>3
<1>. QED BY <1>2, <1>3, <1>4, <1>5 DEF Next, Listener


(* Every step of every process keeps the invariant.                        *)
LEMMA RetrievalKept == RetrievalInv /\ [Next]_vars => RetrievalInv'
<1>. SUFFICES ASSUME RetrievalInv, [Next]_vars PROVE RetrievalInv'
  OBVIOUS
<1>1. StreamTypes'
  <2>1. CASE UNCHANGED vars
    BY <2>1 DEF RetrievalInv, StreamTypes, vars, dbVars, infVars
  <2>. QED BY <2>1, GatewayTypes, HandlerTypes, ListenerTypes DEF Next
<1>2. \A c \in Client : QueryOf(c)' /\ ReplyOf(c)' /\ PromptOf(c)'
  BY QueryKept, ReplyKept, PromptKept
<1>3. RequestInv' /\ ListenerInv'
  BY RequestKept, ListenerKept
<1>. QED BY <1>1, <1>2, <1>3 DEF RetrievalInv

(* At every moment the bytes of a question, its answer and its prompt are  *)
(* each in one place or on their way, in order and complete, whichever     *)
(* gateway dies, when the database ends and wherever a stream splits.      *)
THEOREM RetrievalSafety == Spec => []RetrievalInv
<1>. QED BY RetrievalInit, RetrievalKept, PTL DEF Spec

(* A search never starts on a part of a query, nor on bytes of anything    *)
(* else, for dimensions that agree or not: a gateway that sends too few is *)
(* never searched for, and of one that sends more the first ones count.    *)
THEOREM QueriesArriveWhole == Spec => []QueryWhole
<1>1. RetrievalInv => QueryWhole
  <2>. SUFFICES ASSUME RetrievalInv, NEW c \in Client, handler[c] \in Searched
                PROVE  received[c] = Meta(c) \o Vector(c, ExpectedDims)
    BY DEF QueryWhole, Searched
  <2>1. PICK a, b : a = received[c] /\ b = dbUp[c]
    OBVIOUS
  <2>2. a \in Seq(Bytes) /\ b \in Seq(Bytes) /\ Begins(a \o b, Query(c)) /\ Len(a) = QueryBytes
    BY <2>1 DEF RetrievalInv, StreamTypes, QueryOf
  <2>3. Begins(a, Query(c))
    BY <2>2, BeginsLess
  <2>. QED BY <2>1, <2>2, <2>3, QueryRead
<1>. QED BY <1>1, RetrievalSafety, PTL

(* A gateway goes on with the whole answer of its search or, when the      *)
(* database ended, with none: never with a part of one.                    *)
THEOREM ContextsAreWhole == Spec => []ContextWhole
<1>1. RetrievalInv => ContextWhole
  BY DEF RetrievalInv, ReplyOf, Later, ContextWhole
<1>. QED BY <1>1, RetrievalSafety, PTL

(* The engine is given the very prompts that the gateways put together, of *)
(* any length, and none twice.                                             *)
THEOREM PromptsArriveWhole == Spec => []PromptWhole
<1>1. RetrievalInv => PromptWhole
  BY DEF RetrievalInv, RequestInv, PromptWhole
<1>. QED BY <1>1, RetrievalSafety, PTL
=============================================================================
