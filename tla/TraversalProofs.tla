--------------------------- MODULE TraversalProofs ---------------------------
(***************************************************************************)
(* Proofs about QueryClient: what LIMIT printed and what is still on its   *)
(* way to it make up the answer, and so the client gets the nodes of its   *)
(* query in order, without gap or repetition, and all before the end.      *)
(***************************************************************************)
EXTENDS QueryProofs

-----------------------------------------------------------------------------
(* The data in a sequence of messages. *)

\* The lists of nodes in messages, and their concatenation.
DataLists(a, messages) == [k \in 1..Len(messages) |-> DataFor(a, messages[k])]

LEMMA DataForType ==
  ASSUME NEW a, NEW m \in UserMessage
  PROVE  DataFor(a, m) \in Seq(Node)
<1>1. m.data \in Seq(Node)
  BY DEF UserMessage
<1>2. <<>> \in Seq(Node)
  BY EmptySeq
<1>3. QED
  BY <1>1, <1>2 DEF DataFor

LEMMA DataType ==
  ASSUME NEW a, NEW messages \in Seq(UserMessage)
  PROVE  /\ DataLists(a, messages) \in Seq(Seq(Node))
         /\ Len(DataLists(a, messages)) = Len(messages)
         /\ \A k \in 1..Len(messages) :
               DataLists(a, messages)[k] = DataFor(a, messages[k])
         /\ DataTo(a, messages) = FlattenSeq(DataLists(a, messages))
         /\ DataTo(a, messages) \in Seq(Node)
<1> DEFINE n == Len(messages)
           U == Seq(Node)
<1>1. n \in Nat /\ \A k \in 1..n : DataFor(a, messages[k]) \in U
  BY LenProperties, ElementOfSeq, DataForType
<1>2. DataLists(a, messages) = [k \in 1..n |-> DataFor(a, messages[k])]
  BY DEF DataLists
<1> HIDE DEF n, U
<1>3. DataLists(a, messages) \in Seq(U) /\ Len(DataLists(a, messages)) = n
  BY <1>1, <1>2
<1>4. \A k \in 1..n : DataLists(a, messages)[k] = DataFor(a, messages[k])
  BY <1>2
<1>5. DataTo(a, messages) = FlattenSeq(DataLists(a, messages))
  BY DEF DataTo, DataLists
<1>6. DataTo(a, messages) \in Seq(Node)
  BY <1>3, <1>5, FlattenType DEF U
<1>7. QED
  BY <1>3, <1>4, <1>5, <1>6 DEF n, U

LEMMA DataConcat ==
  ASSUME NEW a, NEW u \in Seq(UserMessage), NEW v \in Seq(UserMessage)
  PROVE  DataTo(a, u \o v) = DataTo(a, u) \o DataTo(a, v)
<1> DEFINE w == u \o v
<1>1. /\ w \in Seq(UserMessage) /\ Len(w) = Len(u) + Len(v)
      /\ \A i \in 1..Len(u) + Len(v) : w[i] = IF i <= Len(u) THEN u[i] ELSE v[i - Len(u)]
      /\ Len(u) \in Nat /\ Len(v) \in Nat
  BY ConcatProperties, LenProperties
<1> HIDE DEF w
<1>2. ASSUME NEW i \in 1..Len(u) PROVE DataLists(a, w)[i] = DataLists(a, u)[i]
  <2>1. i \in 1..Len(w) /\ i <= Len(u) /\ w[i] = u[i]
    BY <1>1
  <2>2. QED
    BY <1>1, <2>1, DataType
<1>3. ASSUME NEW i \in 1..Len(v) PROVE DataLists(a, w)[Len(u) + i] = DataLists(a, v)[i]
  <2>1. Len(u) + i \in 1..Len(w) /\ ~(Len(u) + i <= Len(u)) /\ (Len(u) + i) - Len(u) = i
    BY <1>1
  <2>2. w[Len(u) + i] = v[i]
    BY <1>1, <2>1
  <2>3. DataLists(a, w)[Len(u) + i] = DataFor(a, w[Len(u) + i])
    BY <1>1, <2>1, DataType
  <2>4. DataLists(a, v)[i] = DataFor(a, v[i])
    BY DataType
  <2>5. QED
    BY <2>2, <2>3, <2>4
<1>4. /\ DataLists(a, u) \in Seq(Seq(Node)) /\ Len(DataLists(a, u)) = Len(u)
      /\ DataLists(a, v) \in Seq(Seq(Node)) /\ Len(DataLists(a, v)) = Len(v)
      /\ DataLists(a, w) \in Seq(Seq(Node)) /\ Len(DataLists(a, w)) = Len(u) + Len(v)
  BY <1>1, DataType
<1>5. DataLists(a, w) = DataLists(a, u) \o DataLists(a, v)
  <2> DEFINE U == Seq(Node)
             p == DataLists(a, u)
             q == DataLists(a, v)
             r == DataLists(a, w)
  <2>1. p \in Seq(U) /\ q \in Seq(U) /\ r \in Seq(U) /\ Len(r) = Len(p) + Len(q)
    BY <1>4
  <2>2. \A i \in 1..Len(p) : r[i] = p[i]
    BY <1>2, <1>4
  <2>3. \A i \in 1..Len(q) : r[Len(p) + i] = q[i]
    BY <1>3, <1>4
  <2> HIDE DEF U, p, q, r
  <2>4. r = p \o q
    BY <2>1, <2>2, <2>3, ConcatByElements
  <2>5. QED
    BY <2>4 DEF p, q, r
<1>6. FlattenSeq(DataLists(a, u) \o DataLists(a, v))
        = FlattenSeq(DataLists(a, u)) \o FlattenSeq(DataLists(a, v))
  BY <1>4, FlattenConcat
<1>7. QED
  BY <1>1, <1>5, <1>6, DataType DEF w

LEMMA DataSingle ==
  ASSUME NEW a, NEW m \in UserMessage
  PROVE  DataTo(a, <<m>>) = DataFor(a, m) /\ DataTo(a, <<>>) = <<>>
<1>1. <<m>> \in Seq(UserMessage) /\ Len(<<m>>) = 1 /\ <<m>>[1] = m
  OBVIOUS
<1>2. DataFor(a, m) \in Seq(Node)
  BY DataForType
<1>3. DataLists(a, <<m>>) = <<DataFor(a, m)>>
  BY <1>1 DEF DataLists
<1>4. FlattenSeq(<<DataFor(a, m)>>) = DataFor(a, m)
  BY <1>2, FlattenSmall
<1>5. DataLists(a, <<>>) = <<>> /\ FlattenSeq(<<>>) = <<>>
  <2>1. DataLists(a, <<>>) = <<>>
    BY DEF DataLists
  <2>2. FlattenSeq(<<>>) = <<>>
    BY DEF FlattenSeq
  <2>3. QED
    BY <2>1, <2>2
<1>6. <<>> \in Seq(UserMessage)
  BY EmptySeq
<1>7. QED
  BY <1>1, <1>3, <1>4, <1>5, <1>6, DataType

LEMMA DataAppend ==
  ASSUME NEW a, NEW messages \in Seq(UserMessage), NEW m \in UserMessage
  PROVE  DataTo(a, Append(messages, m)) = DataTo(a, messages) \o DataFor(a, m)
<1>1. Append(messages, m) = messages \o <<m>> /\ <<m>> \in Seq(UserMessage)
  BY AppendIsConcat
<1>2. QED
  BY <1>1, DataConcat, DataSingle

LEMMA DataTail ==
  ASSUME NEW a, NEW messages \in Seq(UserMessage), messages # <<>>
  PROVE  /\ Head(messages) \in UserMessage /\ Tail(messages) \in Seq(UserMessage)
         /\ DataTo(a, messages) = DataFor(a, Head(messages)) \o DataTo(a, Tail(messages))
<1> DEFINE h == Head(messages)
           t == Tail(messages)
<1>1. h \in UserMessage /\ t \in Seq(UserMessage) /\ <<h>> \in Seq(UserMessage)
  BY HeadTailProperties
<1>2. messages = <<h>> \o t
  <2>1. /\ Len(messages) \in Nat /\ Len(messages) > 0 /\ Len(t) = Len(messages) - 1
        /\ h = messages[1] /\ \A i \in 1..Len(t) : t[i] = messages[i + 1]
    BY HeadTailProperties, LenProperties, EmptySeq
  <2>2. Len(<<h>>) = 1 /\ <<h>>[1] = h /\ Len(messages) = Len(<<h>>) + Len(t)
    BY <2>1
  <2> HIDE DEF h, t
  <2>3. \A i \in 1..Len(<<h>>) : messages[i] = <<h>>[i]
    BY <2>1, <2>2
  <2>4. \A i \in 1..Len(t) : messages[Len(<<h>>) + i] = t[i]
    BY <2>1, <2>2
  <2>5. QED
    BY <1>1, <2>2, <2>3, <2>4, ConcatByElements
<1> HIDE DEF h, t
<1>3. DataTo(a, <<h>> \o t) = DataTo(a, <<h>>) \o DataTo(a, t)
  BY <1>1, DataConcat
<1>4. QED
  BY <1>1, <1>2, <1>3, DataSingle DEF h, t

\* Messages without data for a.
LEMMA DataNone ==
  ASSUME NEW a, NEW messages \in Seq(UserMessage),
         \A k \in 1..Len(messages) : DataFor(a, messages[k]) = <<>>
  PROVE  DataTo(a, messages) = <<>>
<1>1. /\ DataLists(a, messages) \in Seq(Seq(Node))
      /\ Len(DataLists(a, messages)) = Len(messages)
      /\ \A k \in 1..Len(messages) : DataLists(a, messages)[k] = <<>>
  BY DataType
<1>2. FlattenSeq(DataLists(a, messages)) = <<>>
  BY <1>1, FlattenEmpties
<1>3. QED
  BY <1>2, DataType

-----------------------------------------------------------------------------
(* What an OUT computes and sends. *)

\* The neighbours of nodes, one after another: payloads may be cut anywhere.
LEMMA ExpandConcat ==
  ASSUME NEW u \in Seq(Node), NEW v \in Seq(Node)
  PROVE  Expand(u \o v) = Expand(u) \o Expand(v)
<1> DEFINE Lists(s) == [i \in 1..Len(s) |-> GetOutV[s[i]]]
           w == u \o v
<1>1. /\ w \in Seq(Node) /\ Len(w) = Len(u) + Len(v)
      /\ \A i \in 1..Len(u) + Len(v) : w[i] = IF i <= Len(u) THEN u[i] ELSE v[i - Len(u)]
      /\ Len(u) \in Nat /\ Len(v) \in Nat
  BY ConcatProperties, LenProperties
<1> HIDE DEF w
<1>2. ASSUME NEW s \in Seq(Node)
      PROVE  Lists(s) \in Seq(Seq(Node)) /\ Len(Lists(s)) = Len(s)
  <2> DEFINE U == Seq(Node)
  <2>1. Len(s) \in Nat /\ \A i \in 1..Len(s) : GetOutV[s[i]] \in U
    BY LenProperties, ElementOfSeq, PlanAssumption
  <2> HIDE DEF U
  <2>2. Lists(s) \in Seq(U) /\ Len(Lists(s)) = Len(s)
    BY <2>1
  <2>3. QED
    BY <2>2 DEF U
<1>3. ASSUME NEW i \in 1..Len(u) PROVE Lists(w)[i] = Lists(u)[i]
  <2>1. i \in 1..Len(w) /\ i <= Len(u) /\ w[i] = u[i]
    BY <1>1
  <2>2. QED
    BY <2>1
<1>4. ASSUME NEW i \in 1..Len(v) PROVE Lists(w)[Len(u) + i] = Lists(v)[i]
  <2>1. Len(u) + i \in 1..Len(w) /\ ~(Len(u) + i <= Len(u)) /\ (Len(u) + i) - Len(u) = i
    BY <1>1
  <2>2. w[Len(u) + i] = v[i]
    BY <1>1, <2>1
  <2>3. QED
    BY <2>1, <2>2
<1>5. /\ Lists(u) \in Seq(Seq(Node)) /\ Len(Lists(u)) = Len(u)
      /\ Lists(v) \in Seq(Seq(Node)) /\ Len(Lists(v)) = Len(v)
      /\ Lists(w) \in Seq(Seq(Node)) /\ Len(Lists(w)) = Len(u) + Len(v)
  BY <1>1, <1>2
<1>6. Expand(u) = FlattenSeq(Lists(u)) /\ Expand(v) = FlattenSeq(Lists(v))
      /\ Expand(w) = FlattenSeq(Lists(w))
  BY DEF Expand
<1> HIDE DEF Lists
<1>7. Lists(w) = Lists(u) \o Lists(v)
  <2> DEFINE U == Seq(Node)
             p == Lists(u)
             q == Lists(v)
             r == Lists(w)
  <2>1. p \in Seq(U) /\ q \in Seq(U) /\ r \in Seq(U) /\ Len(r) = Len(p) + Len(q)
    BY <1>5
  <2>2. \A i \in 1..Len(p) : r[i] = p[i]
    BY <1>3, <1>5
  <2>3. \A i \in 1..Len(q) : r[Len(p) + i] = q[i]
    BY <1>4, <1>5
  <2> HIDE DEF U, p, q, r
  <2>4. r = p \o q
    BY <2>1, <2>2, <2>3, ConcatByElements
  <2>5. QED
    BY <2>4 DEF p, q, r
<1>8. FlattenSeq(Lists(u) \o Lists(v)) = FlattenSeq(Lists(u)) \o FlattenSeq(Lists(v))
  BY <1>5, FlattenConcat
<1>9. QED
  BY <1>6, <1>7, <1>8 DEF w

LEMMA ExpandEmpty == Expand(<<>>) = <<>>
<1>1. [i \in 1..Len(<<>>) |-> GetOutV[<<>>[i]]] = <<>>
  OBVIOUS
<1>2. FlattenSeq(<<>>) = <<>>
  BY DEF FlattenSeq
<1>3. QED
  BY <1>1, <1>2 DEF Expand


\* The payloads sent and the payload that is left are what there was to send,
\* and only the next operator gets any of it.
LEMMA FlushedData ==
  ASSUME NEW all \in Seq(Node), NEW d \in Addr
  PROVE  /\ DataTo(d, Flushed(d, all)) \o Rest(all) = all
         /\ \A b \in Addr : b # d => DataTo(b, Flushed(d, all)) = <<>>
<1> DEFINE q == Len(all) \div MaxPayload
           full == q * MaxPayload
           sent1 == Flushed(d, all)
           lists == DataLists(d, sent1)
<1>1. MaxPayload \in Nat /\ MaxPayload > 0 /\ Len(all) \in Nat
  BY NumberAssumption, LenProperties
<1>2. q \in Nat /\ full \in Nat /\ full <= Len(all)
  BY <1>1, DivisionFacts
<1>3. sent1 \in Seq(UserMessage) /\ Rest(all) = SubSeq(all, full + 1, Len(all))
  BY FlushType DEF Rest
<1>4. Len(sent1) = q /\ \A k \in 1..q :
         sent1[k] = DataMessage(d, SubSeq(all, (k - 1) * MaxPayload + 1, k * MaxPayload))
  <2> DEFINE chunk(k) ==
        DataMessage(d, SubSeq(all, (k - 1) * MaxPayload + 1, k * MaxPayload))
  <2>1. sent1 = [k \in 1..q |-> chunk(k)]
    BY DEF Flushed
  <2> HIDE DEF chunk, q, sent1
  <2>2. Len([k \in 1..q |-> chunk(k)]) = q
    BY <1>2
  <2>3. \A k \in 1..q : sent1[k] = chunk(k)
    BY <2>1
  <2>4. Len(sent1) = q
    BY <2>1, <2>2
  <2>5. QED
    BY <2>3, <2>4 DEF chunk
<1> HIDE DEF sent1
<1>5. \A nodes : \A b : DataFor(b, DataMessage(d, nodes)) = IF b = d THEN nodes ELSE <<>>
  BY DEF DataFor, DataMessage
<1>6. /\ lists \in Seq(Seq(Node)) /\ Len(lists) = q
      /\ \A k \in 1..q :
            lists[k] = SubSeq(all, (k - 1) * MaxPayload + 1, k * MaxPayload)
  <2>1. /\ lists \in Seq(Seq(Node)) /\ Len(lists) = Len(sent1)
        /\ \A k \in 1..Len(sent1) : lists[k] = DataFor(d, sent1[k])
    BY <1>3, DataType
  <2> HIDE DEF lists, q
  <2>2. ASSUME NEW k \in 1..q
        PROVE  lists[k] = SubSeq(all, (k - 1) * MaxPayload + 1, k * MaxPayload)
    <3> DEFINE nodes == SubSeq(all, (k - 1) * MaxPayload + 1, k * MaxPayload)
    <3>1. sent1[k] = DataMessage(d, nodes) /\ lists[k] = DataFor(d, sent1[k])
      BY <1>4, <2>1
    <3> HIDE DEF nodes
    <3>2. lists[k] = nodes
      BY <3>1, <1>5
    <3>3. QED
      BY <3>2 DEF nodes
  <2>3. QED
    BY <2>1, <2>2, <1>4
<1>7. DataTo(d, sent1) = FlattenSeq(lists)
  BY <1>3, DataType
<1> HIDE DEF lists, q
<1>8. FlattenSeq(lists) = SubSeq(all, 1, full)
  <2>1. CASE q = 0
    <3>1. full = 0
      BY <2>1, <1>1
    <3>2. SubSeq(all, 1, 0) = <<>>
      BY SubSeqEmpty
    <3>3. lists = <<>> /\ FlattenSeq(lists) = <<>>
      BY <2>1, <1>6, EmptySeq DEF FlattenSeq
    <3>4. QED
      BY <3>1, <3>2, <3>3
  <2>2. CASE q # 0
    <3>1. PICK F : /\ FlattenSeq(lists) = F[q]
                   /\ \A k \in 1..q : F[k] = IF k = 1 THEN lists[k] ELSE F[k-1] \o lists[k]
      <4>1. Len(lists) # 0
        BY <2>2, <1>6
      <4>2. \E F : /\ FlattenSeq(lists) = F[Len(lists)]
                   /\ \A k \in 1..Len(lists) :
                         F[k] = IF k = 1 THEN lists[k] ELSE F[k-1] \o lists[k]
        BY <4>1, <1>6, FlattenSteps
      <4>3. QED
        BY <4>2, <1>6
    <3> DEFINE T == {k \in 1..q : F[k] # SubSeq(all, 1, k * MaxPayload)}
    <3>2. T = {}
      <4> SUFFICES ASSUME T # {} PROVE FALSE
        OBVIOUS
      <4>1. T \in SUBSET Nat
        BY <1>2
      <4>2. PICK m \in T : \A k \in T : m <= k
        <5> HIDE DEF T
        <5> QED
          BY <4>1, LeastNatural
      <4>3. m \in 1..q /\ F[m] # SubSeq(all, 1, m * MaxPayload)
        OBVIOUS
      <4>4. CASE m = 1
        <5>1. (1 - 1) * MaxPayload + 1 = 1
          BY <1>1
        <5>2. QED
          BY <4>3, <4>4, <5>1, <3>1, <1>6
      <4>5. CASE m # 1
        <5> DEFINE lo == (m - 1) * MaxPayload
                   hi == m * MaxPayload
        <5>1. m - 1 \in 1..q /\ ~(m <= m - 1) /\ m \in Nat
          BY <4>3, <4>5, <1>2
        <5>2. F[m - 1] = SubSeq(all, 1, lo)
          BY <4>2, <5>1
        <5>3. F[m] = SubSeq(all, 1, lo) \o SubSeq(all, lo + 1, hi)
          BY <4>3, <4>5, <5>2, <3>1, <1>6
        <5>4. lo \in Nat /\ hi \in Nat /\ hi <= full /\ lo <= hi
          <6>1. m >= 1 /\ m <= q
            BY <4>3, <1>2
          <6>2. lo \in Nat /\ hi \in Nat /\ hi <= full
            BY <6>1, <5>1, <1>1, <1>2, ProductFacts
          <6>3. m - 1 >= 1 /\ m - 1 <= m /\ m - 1 \in Nat
            BY <5>1, <4>3
          <6>4. lo <= hi
            BY <6>3, <5>1, <1>1, ProductFacts
          <6>5. QED
            BY <6>2, <6>4
        <5> HIDE DEF lo, hi, full
        <5>5. 1 \in 1..Len(all) + 1 /\ lo \in (1 - 1)..Len(all) /\ hi \in lo..Len(all)
          BY <5>4, <1>1, <1>2
        <5>6. SubSeq(all, 1, lo) \o SubSeq(all, lo + 1, hi) = SubSeq(all, 1, hi)
          BY <5>5, ConcatAdjacentSubSeq
        <5>7. QED
          BY <4>3, <5>3, <5>6 DEF hi
      <4>6. QED
        BY <4>4, <4>5
    <3>3. q \in 1..q
      BY <2>2, <1>2
    <3>4. QED
      BY <3>1, <3>2, <3>3
  <2>3. QED
    BY <2>1, <2>2
<1>9. DataTo(d, sent1) \o Rest(all) = all
  <2> HIDE DEF full
  <2>1. 1 \in 1..Len(all) + 1 /\ full \in (1 - 1)..Len(all) /\ Len(all) \in full..Len(all)
    BY <1>1, <1>2
  <2>2. SubSeq(all, 1, full) \o SubSeq(all, full + 1, Len(all)) = SubSeq(all, 1, Len(all))
    BY <2>1, ConcatAdjacentSubSeq
  <2>3. SubSeq(all, 1, Len(all)) = all
    BY SubSeqFull
  <2>4. QED
    BY <2>2, <2>3, <1>3, <1>7, <1>8
<1>10. ASSUME NEW b \in Addr, b # d PROVE DataTo(b, sent1) = <<>>
  <2>1. \A k \in 1..Len(sent1) : DataFor(b, sent1[k]) = <<>>
    BY <1>4, <1>5, <1>10
  <2>2. QED
    BY <2>1, <1>3, DataNone
<1>11. QED
  BY <1>9, <1>10 DEF sent1

\* An EOS brings no data, and takes none with it.
LEMMA FarewellData ==
  ASSUME NEW rest \in Seq(Node), NEW d \in Addr
  PROVE  /\ DataTo(d, Farewell(d, rest)) = rest
         /\ \A b \in Addr : b # d => DataTo(b, Farewell(d, rest)) = <<>>
<1> DEFINE m == DataMessage(d, rest)
           e == EosMessage(d)
<1>1. m \in UserMessage /\ e \in UserMessage
  <2>1. <<>> \in Seq(Node)
    BY EmptySeq
  <2>2. QED
    BY <2>1 DEF DataMessage, EosMessage, UserMessage, Kind
<1>2. \A b : DataFor(b, m) = (IF b = d THEN rest ELSE <<>>) /\ DataFor(b, e) = <<>>
  BY DEF DataFor, DataMessage, EosMessage
<1>3. Farewell(d, rest) = <<m, e>>
  BY DEF Farewell
<1> HIDE DEF m, e
<1>4. Farewell(d, rest) = Append(<<m>>, e) /\ <<m>> \in Seq(UserMessage)
  BY <1>1, <1>3
<1>5. ASSUME NEW b \in Addr
      PROVE  DataTo(b, Farewell(d, rest)) = IF b = d THEN rest ELSE <<>>
  <2>1. DataTo(b, Farewell(d, rest)) = DataFor(b, m) \o <<>>
    <3>1. DataTo(b, Append(<<m>>, e)) = DataTo(b, <<m>>) \o DataFor(b, e)
      BY <1>1, <1>4, DataAppend
    <3>2. DataTo(b, <<m>>) = DataFor(b, m) /\ DataFor(b, e) = <<>>
      BY <1>1, <1>2, DataSingle
    <3>3. QED
      BY <3>1, <3>2, <1>4
  <2>2. DataFor(b, m) \in Seq(Node)
    BY <1>1, DataForType
  <2>3. DataFor(b, m) \o <<>> = DataFor(b, m)
    BY <2>2, ConcatEmptySeq
  <2>4. QED
    BY <2>1, <2>3, <1>2
<1>6. QED
  BY <1>5

-----------------------------------------------------------------------------
(* The chain of operators, and what runs through it. *)

Count == Len(Pipeline)

Final == Last(Pipeline)

Limit == LimitCount[Final]

LEMMA PipelineFacts ==
  /\ Count \in Nat /\ Count > 1
  /\ \A k \in 1..Count : Pipeline[k] \in Addr
  /\ \A j, k \in 1..Count : Pipeline[j] = Pipeline[k] => j = k
  /\ \A a \in Addr : \E k \in 1..Count : a = Pipeline[k]
  /\ First = Pipeline[1] /\ First \in Addr
  /\ Final = Pipeline[Count] /\ Final \in Addr
  /\ \A k \in 1..(Count - 1) :
        OpCode[Pipeline[k]] = "OUT" /\ Downstream[Pipeline[k]] = Pipeline[k + 1]
  /\ OpCode[Final] = "LIMIT" /\ Downstream[Final] = NoAddr
  /\ Limit \in Nat /\ Limit > 0 /\ NumUpstreams = 1
<1>1. /\ Count \in Nat /\ Count > 1 /\ DOMAIN Pipeline = 1..Count
      /\ \A k \in 1..Count : Pipeline[k] \in Addr
      /\ First = Pipeline[1] /\ Final = Pipeline[Count]
  BY PipelineAssumption DEF Count, First, Final, Last
<1>2. 1 \in 1..Count /\ Count \in 1..Count
  BY <1>1
<1>3. \A j, k \in 1..Count : Pipeline[j] = Pipeline[k] => j = k
  BY <1>1, PipelineAssumption DEF IsInjective
<1>4. \A a \in Addr : \E k \in 1..Count : a = Pipeline[k]
  BY <1>1, PipelineAssumption DEF ToSet
<1>5. \A i \in 1..Count :
        IF i = Count THEN OpCode[Pipeline[i]] = "LIMIT" /\ Downstream[Pipeline[i]] = NoAddr
        ELSE OpCode[Pipeline[i]] = "OUT" /\ Downstream[Pipeline[i]] = Pipeline[i + 1]
  BY PipelineAssumption DEF Count
<1>6. ASSUME NEW k \in 1..(Count - 1)
      PROVE  OpCode[Pipeline[k]] = "OUT" /\ Downstream[Pipeline[k]] = Pipeline[k + 1]
  <2>1. k \in 1..Count /\ k # Count
    BY <1>1
  <2>2. QED
    BY <1>5, <2>1
<1>7. OpCode[Final] = "LIMIT" /\ Downstream[Final] = NoAddr
  BY <1>1, <1>2, <1>5
<1>8. Limit \in Nat /\ Limit > 0 /\ NumUpstreams = 1
  BY <1>1, <1>2, PipelineAssumption, NumberAssumption DEF Limit, Final
<1>9. QED
  BY <1>1, <1>2, <1>3, <1>4, <1>6, <1>7, <1>8

\* Reached expands the nodes once for every OUT.
LEMMA ReachedSteps ==
  ASSUME NEW nodes \in Seq(Node)
  PROVE  \E f \in [0..(Count - 1) -> Seq(Node)] :
            /\ f[0] = nodes /\ f[Count - 1] = Reached(nodes)
            /\ \A i \in 1..(Count - 1) : f[i] = Expand(f[i - 1])
<1> DEFINE Next1(f, i) == IF i = 0 THEN nodes ELSE Expand(f[i - 1])
           After(f, k) == f = [i \in 0..k |-> Next1(f, i)]
           Known(f, k) == After(f, k) /\ f \in [0..k -> Seq(Node)]
           T == {k \in Nat : ~ \E f : Known(f, k)}
<1>1. T = {}
  <2> SUFFICES ASSUME T # {} PROVE FALSE
    OBVIOUS
  <2>1. T \in SUBSET Nat
    OBVIOUS
  <2>2. PICK m \in T : \A k \in T : m <= k
    <3> HIDE DEF T
    <3> QED
      BY <2>1, LeastNatural
  <2>3. m \in Nat /\ ~ \E f : Known(f, m)
    <3> HIDE DEF Known
    <3> QED
      OBVIOUS
  <2>4. CASE m = 0
    <3> DEFINE f == [i \in 0..0 |-> nodes]
    <3>1. f \in [0..0 -> Seq(Node)] /\ \A i \in 0..0 : i = 0
      OBVIOUS
    <3>2. f = [i \in 0..0 |-> Next1(f, i)]
      BY <3>1
    <3>3. Known(f, 0)
      BY <3>1, <3>2
    <3> HIDE DEF f, Known, T
    <3>4. QED
      BY <2>3, <2>4, <3>3
  <2>5. CASE m # 0
    <3>1. m - 1 \in Nat /\ ~(m <= m - 1)
      BY <2>3, <2>5
    <3>2. PICK f : Known(f, m - 1)
      <4>1. m - 1 \notin T
        <5> HIDE DEF T
        <5> QED
          BY <2>2, <3>1
      <4> HIDE DEF Known
      <4>2. QED
        BY <3>1, <4>1
    <3> DEFINE g == [i \in 0..m |-> Next1(f, i)]
    <3>3. f = [i \in 0..(m - 1) |-> Next1(f, i)] /\ f \in [0..(m - 1) -> Seq(Node)]
      BY <3>2
    <3>4. ASSUME NEW i \in 0..(m - 1) PROVE g[i] = f[i]
      <4>1. f[i] = Next1(f, i)
        <5> HIDE DEF Next1
        <5> QED
          BY <3>3
      <4>2. i \in 0..m
        BY <3>1
      <4>3. g[i] = Next1(f, i)
        BY <4>2
      <4>4. QED
        BY <4>1, <4>3
    <3>5. ASSUME NEW i \in 0..m PROVE Next1(f, i) = Next1(g, i) /\ g[i] \in Seq(Node)
      <4>1. CASE i = 0
        BY <4>1
      <4>2. CASE i # 0
        <5>1. i - 1 \in 0..(m - 1)
          BY <4>2, <3>1
        <5>2. g[i - 1] = f[i - 1] /\ f[i - 1] \in Seq(Node)
          BY <5>1, <3>3, <3>4
        <5>3. Expand(f[i - 1]) \in Seq(Node)
          BY <5>2, ExpandType
        <5>4. QED
          BY <5>2, <5>3, <4>2
      <4>3. QED
        BY <4>1, <4>2
    <3>6. g = [i \in 0..m |-> Next1(g, i)]
      BY <3>5
    <3>7. g \in [0..m -> Seq(Node)]
      BY <3>5
    <3>8. Known(g, m)
      BY <3>6, <3>7
    <3> HIDE DEF g, Known, T
    <3>9. QED
      BY <2>3, <3>8
  <2>6. QED
    BY <2>4, <2>5
<1> DEFINE f == CHOOSE after : After(after, Count - 1)
<1>2. Count - 1 \in Nat
  BY PipelineFacts
<1>3. PICK g : Known(g, Count - 1)
  <2> HIDE DEF Known
  <2> QED
    BY <1>1, <1>2
<1>4. After(f, Count - 1)
  <2>1. After(g, Count - 1)
    BY <1>3
  <2> HIDE DEF After
  <2>2. QED
    BY <2>1
<1>5. Reached(nodes) = f[Count - 1]
  BY DEF Reached, Count
<1> HIDE DEF f
<1>6. /\ f[0] = nodes
      /\ \A i \in 1..(Count - 1) : f[i] = Expand(f[i - 1])
  <2>1. \A i \in 0..(Count - 1) : f[i] = Next1(f, i)
    <3>1. f = [i \in 0..(Count - 1) |-> Next1(f, i)]
      BY <1>4
    <3> HIDE DEF Next1
    <3>2. QED
      BY <3>1
  <2>2. 0 \in 0..(Count - 1) /\ \A i \in 1..(Count - 1) : i \in 0..(Count - 1) /\ i # 0
    BY <1>2
  <2>3. QED
    BY <2>1, <2>2
<1>7. f \in [0..(Count - 1) -> Seq(Node)]
  <2> DEFINE S == {k \in 0..(Count - 1) : f[k] \notin Seq(Node)}
  <2>1. S = {}
    <3> SUFFICES ASSUME S # {} PROVE FALSE
      OBVIOUS
    <3>1. S \in SUBSET Nat
      BY <1>2
    <3>2. PICK m \in S : \A k \in S : m <= k
      <4> HIDE DEF S
      <4> QED
        BY <3>1, LeastNatural
    <3>3. m \in 0..(Count - 1) /\ f[m] \notin Seq(Node) /\ m # 0
      BY <1>6
    <3>4. m - 1 \in 0..(Count - 1) /\ m \in 1..(Count - 1) /\ ~(m <= m - 1)
      BY <3>3, <1>2
    <3>5. f[m - 1] \in Seq(Node)
      BY <3>2, <3>4
    <3>6. f[m] \in Seq(Node)
      BY <1>6, <3>4, <3>5, ExpandType
    <3>7. QED
      BY <3>3, <3>6
  <2>2. f = [i \in 0..(Count - 1) |-> Next1(f, i)]
    BY <1>4
  <2> HIDE DEF Next1
  <2>3. f = [i \in 0..(Count - 1) |-> f[i]]
    BY <2>2
  <2>4. QED
    BY <2>1, <2>3
<1>8. QED
  BY <1>5, <1>6, <1>7

-----------------------------------------------------------------------------
(* The invariant. *)

\* All that the start nodes lead to, before the limit cuts it.
Whole == Reached(FlattenSeq(query))

\* U is what every operator has yet to work on.  Nothing is said of a LIMIT that
\* was told to stop: what is sent to it then is lost, and may be.
OnWay(U) ==
    /\ U \in [1..Count -> Seq(Node)]
    /\ \A k \in 1..Count : U[k] = Feed(U, k) \/ (k = Count /\ terminating[Final])
    /\ \A k \in 1..(Count - 1) :
          terminating[Pipeline[k]] => U[k] = <<>> /\ outPayload[Pipeline[k]] = <<>>
    /\ ~terminating[Final] => output \o U[Count] = Whole

\* Messages are in the mailbox of the actor they are for.
Delivered == \A a \in Addr : \A i \in 1..Len(inbox[a]) : inbox[a][i].to = a

Printed ==
    /\ answer = Cut(Whole, Limit) /\ Len(output) = curCnt[Final]
    /\ IF terminating[Final] THEN output = answer ELSE curCnt[Final] < Limit

AnswerInv == Delivered /\ Printed /\ \E U : OnWay(U)

LEMMA CutFacts ==
  ASSUME NEW s \in Seq(Node), NEW limit \in Nat
  PROVE  /\ Cut(s, limit) \in Seq(Node)
         /\ Len(s) <= limit => Cut(s, limit) = s
         /\ \A n \in 0..Len(s) : n <= limit =>
               /\ n <= Len(Cut(s, limit))
               /\ SubSeq(Cut(s, limit), 1, n) = SubSeq(s, 1, n)
               /\ n = limit => Cut(s, limit) = SubSeq(s, 1, n)
<1> DEFINE m == IF Len(s) < limit THEN Len(s) ELSE limit
           c == Cut(s, limit)
<1>1. /\ m \in Nat /\ m <= Len(s) /\ m <= limit /\ (m = Len(s) \/ m = limit)
      /\ Len(s) \in Nat /\ \A i \in 1..Len(s) : s[i] \in Node
  BY LenProperties, ElementOfSeq
<1>2. c = SubSeq(s, 1, m)
  BY DEF Cut
<1> HIDE DEF m, c
<1>3. /\ c \in Seq(Node) /\ Len(c) = m /\ \A i \in 1..m : c[i] = s[i]
  <2>1. \A i \in 1..m : s[i] \in Node
    BY <1>1
  <2>2. /\ SubSeq(s, 1, m) \in Seq(Node)
        /\ Len(SubSeq(s, 1, m)) = IF 1 <= m THEN m - 1 + 1 ELSE 0
        /\ \A i \in 1..(m - 1 + 1) : SubSeq(s, 1, m)[i] = s[1 + i - 1]
    BY <1>1, <2>1, SubSeqProperties
  <2>3. QED
    BY <1>1, <1>2, <2>2
<1>4. ASSUME Len(s) <= limit PROVE c = s
  <2>1. m = Len(s)
    BY <1>1, <1>4 DEF m
  <2>2. QED
    BY <1>2, <2>1, SubSeqFull
<1>5. ASSUME NEW n \in 0..Len(s), n <= limit
      PROVE  /\ n <= Len(c) /\ SubSeq(c, 1, n) = SubSeq(s, 1, n)
             /\ n = limit => c = SubSeq(s, 1, n)
  <2>1. n \in Nat /\ n <= m /\ (n = limit => m = n)
    BY <1>1, <1>5
  <2>2. \A i \in 1..n : i \in 1..m /\ c[i] = s[i] /\ c[i] \in Node /\ s[i] \in Node
    BY <1>1, <1>3, <2>1
  <2>3. /\ SubSeq(c, 1, n) \in Seq(Node)
        /\ Len(SubSeq(c, 1, n)) = IF 1 <= n THEN n - 1 + 1 ELSE 0
        /\ \A i \in 1..(n - 1 + 1) : SubSeq(c, 1, n)[i] = c[1 + i - 1]
    BY <2>1, <2>2, SubSeqProperties
  <2>4. /\ SubSeq(s, 1, n) \in Seq(Node)
        /\ Len(SubSeq(s, 1, n)) = IF 1 <= n THEN n - 1 + 1 ELSE 0
        /\ \A i \in 1..(n - 1 + 1) : SubSeq(s, 1, n)[i] = s[1 + i - 1]
    BY <2>1, <2>2, SubSeqProperties
  <2>5. \A i \in 1..Len(SubSeq(c, 1, n)) : SubSeq(c, 1, n)[i] = SubSeq(s, 1, n)[i]
    BY <2>1, <2>2, <2>3, <2>4
  <2>6. SubSeq(c, 1, n) = SubSeq(s, 1, n)
    BY <2>3, <2>4, <2>5, SeqEqual
  <2>7. QED
    BY <1>2, <1>3, <2>1, <2>6
<1>6. QED
  BY <1>3, <1>4, <1>5 DEF c

\* The types of the parts of Feed.
LEMMA FeedType ==
  ASSUME Inv, QInv, NEW a \in Addr
  PROVE  /\ DataTo(a, inbox[a]) \in Seq(Node) /\ DataTo(a, mailbox) \in Seq(Node)
         /\ Waiting(a) \in Seq(Node) /\ outPayload[a] \in Seq(Node)
         /\ Unsent \in Seq(Node)
<1>1. /\ inbox[a] \in Seq(UserMessage) /\ mailbox \in Seq(UserMessage)
      /\ outPayload[a] \in Seq(Node)
  BY DEF Inv, TypeOK, QInv, Tame
<1>2. DataTo(a, inbox[a]) \in Seq(Node) /\ DataTo(a, mailbox) \in Seq(Node)
  BY <1>1, DataType
<1>3. Waiting(a) \in Seq(Node)
  BY <1>2, ConcatProperties DEF Waiting
<1>4. Unsent \in Seq(Node)
  <2> DEFINE U == Seq(Node)
             rest == SubSeq(query, sent + 1, Len(query))
  <2>1. query \in Seq(U) /\ sent \in Nat
    BY PipelineAssumption, ScriptFacts DEF QInv, InScript
  <2> HIDE DEF U
  <2>2. /\ Len(query) \in Nat /\ sent + 1 \in Int
        /\ \A i \in (sent + 1)..Len(query) : query[i] \in U
    BY <2>1, LenProperties, ElementOfSeq
  <2>3. rest \in Seq(U)
    BY <2>2, SubSeqProperties
  <2> HIDE DEF rest
  <2>4. FlattenSeq(rest) \in Seq(Node)
    BY <2>3, FlattenType DEF U
  <2>5. QED
    BY <2>4 DEF Unsent, rest
<1>5. QED
  BY <1>1, <1>2, <1>3, <1>4

\* There is one way to say what every operator has yet to work on.
LEMMA AheadFacts ==
  ASSUME NEW U, \A k \in 1..Count : U[k] = Feed(U, k), U \in [1..Count -> Seq(Node)]
  PROVE  Ahead = U[Count]
<1> DEFINE IsAhead(f) == f = [k \in 1..Count |-> Feed(f, k)]
           A == CHOOSE ahead : IsAhead(ahead)
<1>1. Count \in Nat /\ Count > 1
  BY PipelineFacts
<1>2. IsAhead(A)
  <2>1. U = [k \in 1..Count |-> U[k]]
    OBVIOUS
  <2>2. IsAhead(U)
    BY <2>1
  <2> HIDE DEF IsAhead
  <2>3. QED
    BY <2>2
<1>3. Ahead = A[Count]
  BY DEF Ahead, Count
<1> HIDE DEF A
<1>4. \A k \in 1..Count : A[k] = Feed(A, k)
  BY <1>2
<1> DEFINE T == {k \in 1..Count : A[k] # U[k]}
<1>5. T = {}
  <2> SUFFICES ASSUME T # {} PROVE FALSE
    OBVIOUS
  <2>1. T \in SUBSET Nat
    BY <1>1
  <2>2. PICK m \in T : \A k \in T : m <= k
    <3> HIDE DEF T
    <3> QED
      BY <2>1, LeastNatural
  <2>3. m \in 1..Count /\ A[m] # U[m]
    OBVIOUS
  <2>4. m # 1 => A[m - 1] = U[m - 1]
    <3> SUFFICES ASSUME m # 1 PROVE A[m - 1] = U[m - 1]
      OBVIOUS
    <3>1. m - 1 \in 1..Count /\ ~(m <= m - 1)
      BY <2>3, <1>1
    <3>2. QED
      BY <2>2, <3>1
  <2>5. Feed(A, m) = Feed(U, m)
    BY <2>4 DEF Feed
  <2>6. QED
    BY <2>3, <2>5, <1>4
<1>6. QED
  BY <1>1, <1>3, <1>5

-----------------------------------------------------------------------------
(* What one step does to what is waiting. *)

LEMMA DeliverWaiting ==
  ASSUME Inv, QInv, Receiving, Deliver(Head(mailbox)), NEW a \in Addr
  PROVE  Waiting(a)' = Waiting(a)
<1> DEFINE m == Head(mailbox)
           x == DataTo(a, inbox[a])
           y == DataTo(a, Tail(mailbox))
           z == DataFor(a, m)
<1>1. /\ mailbox \in Seq(UserMessage) /\ mailbox # <<>> /\ mailbox' = Tail(mailbox)
      /\ inbox[a] \in Seq(UserMessage)
  BY DEF QInv, Tame, Receiving, Inv, TypeOK
<1>2. /\ m \in UserMessage /\ Tail(mailbox) \in Seq(UserMessage)
      /\ DataTo(a, mailbox) = z \o y
  BY <1>1, DataTail
<1>3. x \in Seq(Node) /\ y \in Seq(Node) /\ z \in Seq(Node)
  BY <1>1, <1>2, DataType, DataForType
<1>4. Waiting(a)' = DataTo(a, inbox'[a]) \o y
  BY <1>1 DEF Waiting
<1>5. Waiting(a) = x \o (z \o y)
  BY <1>2 DEF Waiting
<1>6. DataTo(a, inbox'[a]) = x \o z
  <2>1. inbox \in [Addr -> Seq(UserMessage)] /\ inbox' = [inbox EXCEPT ![m.to] = Append(@, m)]
    BY DEF Deliver, Inv, TypeOK
  <2>2. CASE m.to = a
    <3>1. inbox'[a] = Append(inbox[a], m)
      BY <2>1, <2>2
    <3>2. QED
      BY <3>1, <1>1, <1>2, DataAppend
  <2>3. CASE m.to # a
    <3>1. inbox'[a] = inbox[a] /\ z = <<>>
      BY <2>1, <2>3 DEF DataFor
    <3>2. x \o <<>> = x
      BY <1>3, ConcatEmptySeq
    <3>3. QED
      BY <3>1, <3>2
  <2>4. QED
    BY <2>2, <2>3
<1> HIDE DEF x, y, z
<1>7. (x \o z) \o y = x \o (z \o y)
  BY <1>3, ConcatAssociative
<1>8. QED
  BY <1>4, <1>5, <1>6, <1>7

LEMMA DropWaiting ==
  ASSUME Inv, QInv, Receiving, UNCHANGED inbox, NEW a \in Addr,
         a # Head(mailbox).to \/ Waiting(a) = <<>>
  PROVE  Waiting(a)' = Waiting(a)
<1> DEFINE m == Head(mailbox)
           x == DataTo(a, inbox[a])
           y == DataTo(a, Tail(mailbox))
           z == DataFor(a, m)
<1>1. /\ mailbox \in Seq(UserMessage) /\ mailbox # <<>> /\ mailbox' = Tail(mailbox)
      /\ inbox[a] \in Seq(UserMessage)
  BY DEF QInv, Tame, Receiving, Inv, TypeOK
<1>2. /\ m \in UserMessage /\ Tail(mailbox) \in Seq(UserMessage)
      /\ DataTo(a, mailbox) = z \o y
  BY <1>1, DataTail
<1>3. x \in Seq(Node) /\ y \in Seq(Node) /\ z \in Seq(Node)
  BY <1>1, <1>2, DataType, DataForType
<1>4. Waiting(a)' = x \o y /\ Waiting(a) = x \o (z \o y)
  BY <1>1, <1>2 DEF Waiting
<1>5. a # m.to => z = <<>>
  BY DEF DataFor
<1> HIDE DEF x, y, z
<1>6. <<>> \o y = y /\ z \o y \in Seq(Node)
  BY <1>3, ConcatEmptySeq, ConcatProperties
<1>7. CASE z = <<>>
  BY <1>4, <1>6, <1>7
<1>8. CASE Waiting(a) = <<>>
  <2>1. x \o (z \o y) = <<>>
    BY <1>4, <1>8
  <2>2. x = <<>> /\ z \o y = <<>>
    BY <2>1, <1>3, <1>6, ConcatEqualIffEmpty
  <2>3. z = <<>> /\ y = <<>>
    BY <2>2, <1>3, ConcatEqualIffEmpty
  <2>4. QED
    BY <2>3, <1>7
<1>9. QED
  BY <1>5, <1>7, <1>8

\* An actor works: the others get what it sends, and it has one message less.
LEMMA WorkWaiting ==
  ASSUME Inv, QInv, Delivered, NEW a \in Addr, Working(a), CancelMe(a) \/ Available(a),
         NEW extra \in Seq(UserMessage), mailbox' = mailbox \o extra,
         DataTo(a, extra) = <<>>
  PROVE  /\ \A b \in Addr : b # a => Waiting(b)' = Waiting(b) \o DataTo(b, extra)
         /\ Available(a) => Waiting(a) = DataFor(a, Head(inbox[a])) \o Waiting(a)'
         /\ DataFor(a, Head(inbox[a])) \in Seq(Node) /\ Waiting(a)' \in Seq(Node)
         /\ Head(inbox[a]).to = a /\ Delivered'
<1>1. /\ inbox[a] \in Seq(UserMessage) /\ inbox[a] # <<>>
      /\ \A b \in Addr : b # a => inbox'[b] = inbox[b]
      /\ CancelMe(a) => inbox'[a] = <<>>
      /\ Available(a) => inbox'[a] = Tail(inbox[a])
  BY TurnFacts
<1>2. mailbox \in Seq(UserMessage) /\ \A b \in Addr : inbox[b] \in Seq(UserMessage)
  BY DEF QInv, Tame, Inv, TypeOK
<1>3. \A b \in Addr :
         /\ DataTo(b, mailbox') = DataTo(b, mailbox) \o DataTo(b, extra)
         /\ DataTo(b, mailbox) \in Seq(Node) /\ DataTo(b, inbox[b]) \in Seq(Node)
         /\ DataTo(b, extra) \in Seq(Node)
  BY <1>2, DataConcat, DataType
<1>4. ASSUME NEW b \in Addr, b # a
      PROVE  Waiting(b)' = Waiting(b) \o DataTo(b, extra)
  <2> DEFINE x == DataTo(b, inbox[b])
             y == DataTo(b, mailbox)
             z == DataTo(b, extra)
  <2>1. Waiting(b)' = x \o (y \o z) /\ Waiting(b) = x \o y
    BY <1>1, <1>3, <1>4 DEF Waiting
  <2>2. x \in Seq(Node) /\ y \in Seq(Node) /\ z \in Seq(Node)
    BY <1>3
  <2> HIDE DEF x, y, z
  <2>3. (x \o y) \o z = x \o (y \o z)
    BY <2>2, ConcatAssociative
  <2>4. QED
    BY <2>1, <2>3 DEF z
<1>5. DataTo(a, mailbox') = DataTo(a, mailbox)
  BY <1>3, ConcatEmptySeq
<1> DEFINE d == DataFor(a, Head(inbox[a]))
           t == DataTo(a, Tail(inbox[a]))
           y == DataTo(a, mailbox)
<1>6. /\ Head(inbox[a]) \in UserMessage /\ Tail(inbox[a]) \in Seq(UserMessage)
      /\ DataTo(a, inbox[a]) = d \o t
  BY <1>1, DataTail
<1>7. d \in Seq(Node) /\ t \in Seq(Node) /\ y \in Seq(Node)
  BY <1>3, <1>6, DataForType, DataType
<1>8. ASSUME Available(a) PROVE Waiting(a) = d \o Waiting(a)'
  <2>1. Waiting(a)' = t \o y
    BY <1>1, <1>5, <1>8 DEF Waiting
  <2>2. Waiting(a) = (d \o t) \o y
    BY <1>6 DEF Waiting
  <2> HIDE DEF d, t, y
  <2>3. (d \o t) \o y = d \o (t \o y)
    BY <1>7, ConcatAssociative
  <2>4. QED
    BY <2>1, <2>2, <2>3
<1>9. Waiting(a)' \in Seq(Node)
  <2>1. inbox'[a] \in Seq(UserMessage)
    BY <1>1, <1>6, EmptySeq
  <2>2. DataTo(a, inbox'[a]) \in Seq(Node)
    BY <2>1, DataType
  <2>3. Waiting(a)' = DataTo(a, inbox'[a]) \o y
    BY <1>5 DEF Waiting
  <2> HIDE DEF y
  <2>4. QED
    BY <2>2, <2>3, <1>7, ConcatProperties
<1>10. Head(inbox[a]).to = a /\ Delivered'
  <2>1. /\ Len(inbox[a]) \in Nat /\ Len(inbox[a]) > 0 /\ Head(inbox[a]) = inbox[a][1]
        /\ Len(Tail(inbox[a])) = Len(inbox[a]) - 1
        /\ \A i \in 1..Len(Tail(inbox[a])) : Tail(inbox[a])[i] = inbox[a][i + 1]
    BY <1>1
  <2>2. 1 \in 1..Len(inbox[a]) /\ \A i \in 1..Len(Tail(inbox[a])) : i + 1 \in 1..Len(inbox[a])
    BY <2>1
  <2>3. Head(inbox[a]).to = a
    BY <2>1, <2>2 DEF Delivered
  <2>4. \A i \in 1..Len(Tail(inbox[a])) : Tail(inbox[a])[i].to = a
    BY <2>1, <2>2 DEF Delivered
  <2>5. Len(<<>>) = 0
    OBVIOUS
  <2>6. \A i \in 1..Len(inbox'[a]) : inbox'[a][i].to = a
    <3>1. CASE CancelMe(a)
      <4>1. inbox'[a] = <<>>
        BY <3>1, <1>1
      <4>2. QED
        BY <4>1, <2>5
    <3>2. CASE Available(a)
      <4>1. inbox'[a] = Tail(inbox[a])
        BY <3>2, <1>1
      <4>2. QED
        BY <4>1, <2>4
    <3>3. QED
      BY <3>1, <3>2
  <2>7. QED
    BY <2>3, <2>6, <1>1 DEF Delivered
<1>11. QED
  BY <1>4, <1>7, <1>8, <1>9, <1>10

-----------------------------------------------------------------------------
(* Steps of the dataflow: what is on its way stays on its way. *)

\* What will reach the k-th operator after all that waits for it now.
Behind(U, k) ==
    IF k = 1 THEN Unsent ELSE outPayload[Pipeline[k - 1]] \o Expand(U[k - 1])

LEMMA WholeKept ==
  ASSUME UNCHANGED query
  PROVE  Whole' = Whole
BY DEF Whole, Reached, Expand

LEMMA WholeType ==
  ASSUME QInv
  PROVE  Whole \in Seq(Node) /\ FlattenSeq(query) \in Seq(Node)
<1> DEFINE U == Seq(Node)
<1>1. query \in Seq(U)
  BY PipelineAssumption DEF QInv, InScript
<1>2. FlattenSeq(query) \in Seq(Node)
  BY <1>1, FlattenType
<1>3. Count - 1 \in 0..(Count - 1)
  BY PipelineFacts
<1>4. Reached(FlattenSeq(query)) \in Seq(Node)
  <2>1. PICK f \in [0..(Count - 1) -> Seq(Node)] :
           f[Count - 1] = Reached(FlattenSeq(query))
    BY <1>2, ReachedSteps
  <2>2. QED
    BY <2>1, <1>3
<1>5. QED
  BY <1>2, <1>4 DEF Whole

LEMMA OnWayType ==
  ASSUME Inv, QInv, NEW U, OnWay(U), NEW k \in 1..Count
  PROVE  /\ U[k] \in Seq(Node) /\ Behind(U, k) \in Seq(Node)
         /\ Feed(U, k) = Waiting(Pipeline[k]) \o Behind(U, k)
<1>1. \A j \in 1..Count : U[j] \in Seq(Node)
  BY DEF OnWay
<1>2. Behind(U, k) \in Seq(Node)
  <2>1. CASE k = 1
    <3>1. Unsent \in Seq(Node)
      BY PipelineFacts, FeedType
    <3>2. QED
      BY <2>1, <3>1 DEF Behind
  <2>2. CASE k # 1
    <3> DEFINE p == outPayload[Pipeline[k - 1]]
               e == Expand(U[k - 1])
    <3>1. k - 1 \in 1..Count
      BY <2>2, PipelineFacts
    <3>2. p \in Seq(Node)
      BY <3>1, PipelineFacts, FeedType
    <3>3. e \in Seq(Node)
      BY <1>1, <3>1, ExpandType
    <3>4. Behind(U, k) = p \o e
      BY <2>2 DEF Behind
    <3> HIDE DEF p, e
    <3>5. QED
      BY <3>2, <3>3, <3>4, ConcatProperties
  <2>3. QED
    BY <2>1, <2>2
<1>3. Feed(U, k) = Waiting(Pipeline[k]) \o Behind(U, k)
  BY DEF Feed, Behind
<1>4. QED
  BY <1>1, <1>2, <1>3

\* A step of the mailbox, of the task loop, or of an actor that sends nothing.
LEMMA StillOnWay ==
  ASSUME NEW U, OnWay(U), UNCHANGED <<query, sent, terminating, outPayload, output>>,
         \A k \in 1..Count :
            \/ Waiting(Pipeline[k])' = Waiting(Pipeline[k])
            \/ k = Count /\ terminating[Final]
  PROVE  OnWay(U)'
<1>1. Unsent' = Unsent /\ Whole' = Whole
  BY WholeKept DEF Unsent
<1>2. ASSUME NEW k \in 1..Count
      PROVE  U[k] = Feed(U, k)' \/ (k = Count /\ terminating'[Final])
  <2>1. CASE Waiting(Pipeline[k])' = Waiting(Pipeline[k])
    <3>1. Feed(U, k)' = Feed(U, k)
      BY <1>1, <2>1 DEF Feed
    <3>2. QED
      BY <3>1 DEF OnWay
  <2>2. CASE k = Count /\ terminating[Final]
    BY <2>2
  <2>3. QED
    BY <2>1, <2>2
<1>3. QED
  BY <1>1, <1>2 DEF OnWay

\* An OUT works: R is what it has yet to work on then.
LEMMA OutKeepsOnWay ==
  ASSUME NEW U, OnWay(U), NEW k \in 1..(Count - 1), NEW R \in Seq(Node),
         UNCHANGED <<query, sent, output>>,
         \A j \in 1..Count : j # k =>
            /\ terminating'[Pipeline[j]] = terminating[Pipeline[j]]
            /\ outPayload'[Pipeline[j]] = outPayload[Pipeline[j]],
         \A j \in 1..Count :
            j # k /\ j # k + 1 => Waiting(Pipeline[j])' = Waiting(Pipeline[j]),
         R = Waiting(Pipeline[k])' \o Behind(U, k),
         Waiting(Pipeline[k + 1])' \o (outPayload'[Pipeline[k]] \o Expand(R))
            = Waiting(Pipeline[k + 1]) \o (outPayload[Pipeline[k]] \o Expand(U[k])),
         terminating'[Pipeline[k]] => R = <<>> /\ outPayload'[Pipeline[k]] = <<>>
  PROVE  \E V : OnWay(V)'
<1>1. PICK V : V = [U EXCEPT ![k] = R]
  OBVIOUS
<1>2. Count \in Nat /\ Count > 1 /\ Final = Pipeline[Count] /\ k \in 1..Count /\ k # Count
      /\ Count \in 1..Count /\ k \in Nat /\ k + 1 \in 1..Count /\ k + 1 # 1
      /\ (k + 1) - 1 = k
  BY PipelineFacts
<1>3. /\ U \in [1..Count -> Seq(Node)] /\ V \in [1..Count -> Seq(Node)] /\ V[k] = R
      /\ \A j \in 1..Count : j # k => V[j] = U[j]
  BY <1>1, <1>2 DEF OnWay
<1>4. Unsent' = Unsent /\ Whole' = Whole
  BY WholeKept DEF Unsent
<1>5. terminating'[Final] = terminating[Final]
  BY <1>2
<1>6. ASSUME NEW j \in 1..Count
      PROVE  V[j] = Feed(V, j)' \/ (j = Count /\ terminating'[Final])
  <2>1. CASE j = k
    <3>1. k # 1 => k - 1 \in 1..Count /\ k - 1 # k
      BY <1>2
    <3>2. Feed(V, k)' = Waiting(Pipeline[k])' \o Behind(U, k)
      BY <1>3, <1>4, <3>1 DEF Feed, Behind
    <3>3. QED
      BY <2>1, <3>2, <1>3
  <2>2. CASE j = k + 1
    <3>1. /\ Feed(V, k + 1)' =
                Waiting(Pipeline[k + 1])' \o (outPayload'[Pipeline[k]] \o Expand(R))
          /\ Feed(U, k + 1) =
                Waiting(Pipeline[k + 1]) \o (outPayload[Pipeline[k]] \o Expand(U[k]))
      BY <1>2, <1>3 DEF Feed
    <3>2. Feed(V, k + 1)' = Feed(U, k + 1)
      BY <3>1
    <3>3. V[k + 1] = U[k + 1]
      BY <1>2, <1>3
    <3>4. V[k + 1] = Feed(V, k + 1)' \/ (k + 1 = Count /\ terminating'[Final])
      BY <3>2, <3>3, <1>2, <1>5 DEF OnWay
    <3>5. QED
      BY <2>2, <3>4, Zenon
  <2>3. CASE j # k /\ j # k + 1
    <3>1. Waiting(Pipeline[j])' = Waiting(Pipeline[j]) /\ V[j] = U[j]
      BY <2>3, <1>3
    <3>2. Feed(V, j)' = Feed(U, j)
      <4>1. CASE j = 1
        BY <3>1, <4>1, <1>4 DEF Feed
      <4>2. CASE j # 1
        <5>1. j - 1 \in 1..Count /\ j - 1 # k
          BY <2>3, <4>2, <1>2
        <5>2. outPayload'[Pipeline[j - 1]] = outPayload[Pipeline[j - 1]] /\ V[j - 1] = U[j - 1]
          BY <5>1, <1>3
        <5>3. QED
          BY <3>1, <4>2, <5>2 DEF Feed
      <4>3. QED
        BY <4>1, <4>2
    <3>3. QED
      BY <3>1, <3>2, <1>5 DEF OnWay
  <2>4. QED
    BY <2>1, <2>2, <2>3
<1>7. ASSUME NEW j \in 1..(Count - 1), terminating'[Pipeline[j]]
      PROVE  V[j] = <<>> /\ outPayload'[Pipeline[j]] = <<>>
  <2>1. j \in 1..Count
    BY <1>2
  <2>2. CASE j = k
    BY <2>2, <1>3, <1>7
  <2>3. CASE j # k
    BY <2>1, <2>3, <1>3, <1>7 DEF OnWay
  <2>4. QED
    BY <2>2, <2>3
<1>8. ~terminating'[Final] => output' \o V[Count] = Whole'
  BY <1>2, <1>3, <1>4, <1>5 DEF OnWay
<1>9. OnWay(V)'
  BY <1>3, <1>6, <1>7, <1>8 DEF OnWay
<1>10. QED
  BY <1>9

\* The mailbox loop hands a message to an actor, or drops what is for one that
\* was told to stop.
LEMMA MailboxKeepsAnswer ==
  ASSUME Inv, QInv, AnswerInv, UserToLive \/ UserToAbsent \/ UserToDisabled,
         UNCHANGED <<query, answer, sent>>
  PROVE  AnswerInv'
<1> DEFINE m == Head(mailbox)
<1>1. /\ Receiving /\ m \in UserMessage /\ m.to \in Addr
      /\ UNCHANGED <<terminating, outPayload, output, curCnt>>
  BY FirstMessage DEF UserToLive, UserToAbsent, UserToDisabled, QInv, stopVars, opVars
<1>2. inbox \in [Addr -> Seq(UserMessage)]
  BY DEF Inv, TypeOK
<1>3. Printed'
  BY <1>1, WholeKept DEF AnswerInv, Printed
<1>4. CASE Deliver(m)
  <2>1. Delivered'
    <3>1. ASSUME NEW a \in Addr, NEW i \in 1..Len(inbox'[a])
          PROVE  inbox'[a][i].to = a
      <4>1. CASE a = m.to
        <5>1. inbox'[a] = Append(inbox[a], m) /\ inbox[a] \in Seq(UserMessage)
          BY <4>1, <1>2, <1>4 DEF Deliver
        <5> HIDE DEF m
        <5>2. \/ i \in 1..Len(inbox[a]) /\ inbox'[a][i] = inbox[a][i]
              \/ inbox'[a][i] = m
          BY <5>1
        <5>3. QED
          BY <4>1, <5>2 DEF AnswerInv, Delivered
      <4>2. CASE a # m.to
        <5>1. inbox'[a] = inbox[a]
          BY <4>2, <1>2, <1>4 DEF Deliver
        <5>2. QED
          BY <5>1 DEF AnswerInv, Delivered
      <4>3. QED
        BY <4>1, <4>2
    <3>2. QED
      BY <3>1 DEF Delivered
  <2>2. \A k \in 1..Count : Waiting(Pipeline[k])' = Waiting(Pipeline[k])
    BY <1>1, <1>4, PipelineFacts, DeliverWaiting
  <2>3. PICK U : OnWay(U)
    BY DEF AnswerInv
  <2>4. OnWay(U)'
    BY <1>1, <2>2, <2>3, StillOnWay
  <2>5. QED
    BY <1>3, <2>1, <2>4 DEF AnswerInv
<1>5. CASE UserToDisabled
  <2>1. /\ UNCHANGED inbox /\ terminating[m.to]
    BY <1>1, <1>5 DEF UserToDisabled, Lookup, QInv, Tame, Inv, TypeOK
  <2>2. Delivered'
    BY <2>1 DEF AnswerInv, Delivered
  <2>3. PICK U : OnWay(U)
    BY DEF AnswerInv
  <2>4. ASSUME NEW k \in 1..Count
        PROVE  \/ Waiting(Pipeline[k])' = Waiting(Pipeline[k])
               \/ k = Count /\ terminating[Final]
    <3> DEFINE a == Pipeline[k]
    <3>1. a \in Addr
      BY PipelineFacts
    <3>2. CASE a # m.to
      BY <3>1, <3>2, <1>1, <2>1, DropWaiting
    <3>3. CASE a = m.to /\ k = Count
      BY <2>1, <3>3, PipelineFacts
    <3>4. CASE a = m.to /\ k # Count
      <4>1. k \in 1..(Count - 1)
        BY <3>4, PipelineFacts
      <4>2. U[k] = <<>> /\ U[k] = Waiting(a) \o Behind(U, k)
        BY <2>1, <2>3, <3>4, <4>1, OnWayType DEF OnWay
      <4>3. Waiting(a) \in Seq(Node) /\ Behind(U, k) \in Seq(Node)
        BY <2>3, <3>1, FeedType, OnWayType
      <4>4. Waiting(a) = <<>>
        BY <4>2, <4>3, ConcatEqualIffEmpty
      <4>5. QED
        BY <3>1, <4>4, <1>1, <2>1, DropWaiting
    <3>5. QED
      BY <3>2, <3>3, <3>4
  <2>5. OnWay(U)'
    BY <1>1, <2>3, <2>4, StillOnWay
  <2>6. QED
    BY <1>3, <2>2, <2>5 DEF AnswerInv
<1>6. QED
  BY <1>4, <1>5 DEF UserToLive, UserToAbsent

\* The client sends the next message of its script.
LEMMA UnsentSteps ==
  ASSUME QInv, sent < Len(Script), UNCHANGED query, sent' = sent + 1
  PROVE  /\ Script[sent + 1] \in UserMessage
         /\ DataFor(First, Script[sent + 1]) \in Seq(Node)
         /\ Unsent' \in Seq(Node)
         /\ Unsent = DataFor(First, Script[sent + 1]) \o Unsent'
         /\ \A b \in Addr : b # First => DataFor(b, Script[sent + 1]) = <<>>
<1> DEFINE S == Seq(Node)
           n == Len(query)
           m == Script[sent + 1]
<1>1. query \in Seq(S) /\ n \in Nat /\ sent \in Nat /\ Len(Script) \in Nat
  <2>1. query \in Seq(S)
    BY PipelineAssumption DEF QInv, InScript
  <2>2. Len(query) \in Nat
    BY <2>1, LenProperties
  <2>3. QED
    BY <2>1, <2>2, ScriptFacts DEF QInv, InScript
<1>2. /\ Len(Script) = n + 1 /\ \A i \in 1..n : Script[i] = DataMessage(First, query[i])
      /\ Script[n + 1] = EosMessage(First)
  BY <1>1 DEF Script, First
<1>3. m \in UserMessage /\ m.to = First
  BY <1>1, ScriptFacts DEF QInv, InScript
<1>4. \A b \in Addr : b # First => DataFor(b, m) = <<>>
  BY <1>3 DEF DataFor
<1>5. DataFor(First, m) \in Seq(Node)
  BY <1>3, DataForType
<1>6. \A i \in 1..n : query[i] \in S
  BY <1>1, ElementOfSeq
<1>7. Unsent = FlattenSeq(SubSeq(query, sent + 1, n))
      /\ Unsent' = FlattenSeq(SubSeq(query, sent + 2, n))
  <2>1. (sent + 1) + 1 = sent + 2
    BY <1>1
  <2>2. QED
    BY <2>1 DEF Unsent
<1>8. \A j \in Nat : j > 0 => SubSeq(query, j, n) \in Seq(S)
  <2> HIDE DEF S, n
  <2> QED
    BY <1>1, <1>6, SubSeqProperties
<1>9. Unsent' \in Seq(Node)
  <2>1. SubSeq(query, sent + 2, n) \in Seq(S)
    <3>1. sent + 2 \in Nat /\ sent + 2 > 0
      BY <1>1
    <3> HIDE DEF S, n
    <3>2. QED
      BY <1>8, <3>1
  <2>2. QED
    BY <1>7, <2>1, FlattenType
<1>10. Unsent = DataFor(First, m) \o Unsent'
  <2>1. CASE sent + 1 \in 1..n
    <3> DEFINE x == query[sent + 1]
               rest == SubSeq(query, sent + 2, n)
    <3>1. m = DataMessage(First, x)
      BY <1>2, <2>1
    <3>2. DataFor(First, m) = x
      BY <3>1 DEF DataFor, DataMessage
    <3>3. x \in S /\ rest \in Seq(S)
      <4>1. sent + 2 \in Nat /\ sent + 2 > 0
        BY <1>1
      <4> HIDE DEF S, n
      <4>2. QED
        BY <2>1, <4>1, <1>6, <1>8
    <3>4. SubSeq(query, sent + 1, n) = <<x>> \o rest
      <4> DEFINE all == SubSeq(query, sent + 1, n)
      <4> HIDE DEF S, n, x
      <4>1. /\ all \in Seq(S) /\ Len(all) = n - sent
            /\ \A i \in 1..Len(all) : all[i] = query[sent + i]
        <5>1. sent + 1 \in Int /\ n \in Int /\ \A i \in (sent + 1)..n : query[i] \in S
          BY <1>1, <1>6
        <5>2. /\ SubSeq(query, sent + 1, n) \in Seq(S)
              /\ Len(SubSeq(query, sent + 1, n)) =
                    IF sent + 1 <= n THEN n - (sent + 1) + 1 ELSE 0
              /\ \A i \in 1..(n - (sent + 1) + 1) :
                    SubSeq(query, sent + 1, n)[i] = query[(sent + 1) + i - 1]
          BY <5>1, SubSeqProperties
        <5>3. QED
          BY <5>2, <1>1, <2>1
      <4>2. /\ Len(rest) = n - sent - 1
            /\ \A i \in 1..Len(rest) : rest[i] = query[sent + 1 + i]
        <5>1. sent + 2 \in Int /\ n \in Int /\ \A i \in (sent + 2)..n : query[i] \in S
          BY <1>1, <1>6
        <5>2. /\ Len(SubSeq(query, sent + 2, n)) =
                    IF sent + 2 <= n THEN n - (sent + 2) + 1 ELSE 0
              /\ \A i \in 1..(n - (sent + 2) + 1) :
                    SubSeq(query, sent + 2, n)[i] = query[(sent + 2) + i - 1]
          BY <5>1, SubSeqProperties
        <5>3. QED
          BY <5>2, <1>1, <2>1
      <4> HIDE DEF all, rest
      <4>3. <<x>> \in Seq(S) /\ Len(<<x>>) = 1 /\ <<x>>[1] = x
        BY <3>3
      <4>4. Len(all) = Len(<<x>>) + Len(rest)
        BY <1>1, <4>1, <4>2, <4>3
      <4>5. \A i \in 1..Len(<<x>>) : all[i] = <<x>>[i]
        BY <1>1, <2>1, <4>1, <4>3 DEF x
      <4>6. \A i \in 1..Len(rest) : all[Len(<<x>>) + i] = rest[i]
        <5>1. ASSUME NEW i \in 1..Len(rest) PROVE all[1 + i] = rest[i]
          <6>1. 1 + i \in 1..Len(all) /\ sent + (1 + i) = sent + 1 + i
            BY <1>1, <2>1, <4>1, <4>2
          <6>2. QED
            BY <6>1, <4>1, <4>2
        <5>2. QED
          BY <5>1, <4>3
      <4>7. all = <<x>> \o rest
        BY <3>3, <4>1, <4>3, <4>4, <4>5, <4>6, ConcatByElements
      <4>8. QED
        BY <4>7 DEF all
    <3> HIDE DEF x, rest
    <3>5. FlattenSeq(<<x>> \o rest) = FlattenSeq(<<x>>) \o FlattenSeq(rest)
      <4>1. <<x>> \in Seq(S)
        BY <3>3
      <4>2. QED
        BY <3>3, <4>1, FlattenConcat
    <3>6. FlattenSeq(<<x>>) = x
      BY <3>3, FlattenSmall
    <3>7. QED
      BY <1>7, <3>2, <3>4, <3>5, <3>6 DEF rest
  <2>2. CASE sent + 1 \notin 1..n
    <3>1. sent = n /\ sent + 1 > n /\ sent + 2 > n
      BY <1>1, <1>2, <2>2
    <3>2. m = EosMessage(First)
      BY <1>2, <3>1
    <3>3. DataFor(First, m) = <<>>
      BY <3>2 DEF DataFor, EosMessage
    <3>4. SubSeq(query, sent + 1, n) = <<>> /\ SubSeq(query, sent + 2, n) = <<>>
      BY <1>1, <3>1, SubSeqEmpty
    <3>5. Unsent = <<>> /\ Unsent' = <<>>
      BY <1>7, <3>4 DEF FlattenSeq
    <3>6. QED
      BY <3>3, <3>5
  <2>3. QED
    BY <2>1, <2>2
<1>11. QED
  BY <1>3, <1>4, <1>5, <1>9, <1>10

LEMMA EnqueueKeepsAnswer ==
  ASSUME Inv, QInv, AnswerInv, ClientEnqueue
  PROVE  AnswerInv'
<1> DEFINE m == Script[sent + 1]
           rest == Unsent'
<1>1. /\ sent < Len(Script) /\ sent' = sent + 1 /\ mailbox' = Append(mailbox, m)
      /\ UNCHANGED <<query, answer, inbox, terminating, outPayload, output, curCnt>>
  BY DEF ClientEnqueue, HostEnqueue, stopVars, opVars
<1>2. /\ m \in UserMessage /\ DataFor(First, m) \in Seq(Node) /\ rest \in Seq(Node)
      /\ Unsent = DataFor(First, m) \o rest
      /\ \A b \in Addr : b # First => DataFor(b, m) = <<>>
  BY <1>1, UnsentSteps
<1> HIDE DEF m
<1>3. mailbox \in Seq(UserMessage) /\ \A a \in Addr : inbox[a] \in Seq(UserMessage)
  BY DEF QInv, Tame, Inv, TypeOK
<1>4. ASSUME NEW a \in Addr
      PROVE  Waiting(a)' = Waiting(a) \o DataFor(a, m) /\ Waiting(a) \in Seq(Node)
  <2> DEFINE x == DataTo(a, inbox[a])
             y == DataTo(a, mailbox)
             d == DataFor(a, m)
  <2>1. DataTo(a, mailbox') = y \o d
    BY <1>1, <1>2, <1>3, DataAppend
  <2>2. Waiting(a)' = x \o (y \o d) /\ Waiting(a) = x \o y
    BY <1>1, <2>1 DEF Waiting
  <2>3. x \in Seq(Node) /\ y \in Seq(Node) /\ d \in Seq(Node)
    BY <1>2, <1>3, DataType, DataForType
  <2> HIDE DEF x, y, d
  <2>4. (x \o y) \o d = x \o (y \o d) /\ x \o y \in Seq(Node)
    BY <2>3, ConcatAssociative, ConcatProperties
  <2>5. QED
    BY <2>2, <2>4 DEF d
<1>5. PICK U : OnWay(U)
  BY DEF AnswerInv
<1>6. ASSUME NEW k \in 1..Count
      PROVE  Feed(U, k)' = Feed(U, k)
  <2> DEFINE a == Pipeline[k]
  <2>1. a \in Addr
    BY PipelineFacts
  <2>2. CASE k = 1
    <3> DEFINE w == Waiting(a)
               d == DataFor(a, m)
    <3>1. a = First
      BY <2>2, PipelineFacts
    <3>2. Feed(U, k) = w \o (d \o rest)
      BY <2>2, <3>1, <1>2 DEF Feed
    <3>3. Feed(U, k)' = (w \o d) \o rest
      BY <2>1, <2>2, <1>4 DEF Feed
    <3>4. w \in Seq(Node) /\ d \in Seq(Node)
      BY <2>1, <3>1, <1>2, <1>4
    <3> HIDE DEF w, d, rest
    <3>5. (w \o d) \o rest = w \o (d \o rest)
      BY <3>4, <1>2, ConcatAssociative
    <3>6. QED
      BY <3>2, <3>3, <3>5
  <2>3. CASE k # 1
    <3>1. a # First
      <4>1. 1 \in 1..Count
        BY PipelineFacts
      <4>2. QED
        BY <2>3, <4>1, PipelineFacts
    <3>2. Waiting(a)' = Waiting(a) \o <<>> /\ Waiting(a) \in Seq(Node)
      BY <2>1, <3>1, <1>2, <1>4
    <3>3. Waiting(a)' = Waiting(a)
      BY <3>2, ConcatEmptySeq
    <3>4. QED
      BY <2>3, <3>3, <1>1 DEF Feed
  <2>4. QED
    BY <2>2, <2>3
<1>7. Whole' = Whole
  BY <1>1, WholeKept
<1>8. OnWay(U)'
  BY <1>1, <1>5, <1>6, <1>7 DEF OnWay
<1>9. Delivered' /\ Printed'
  BY <1>1, <1>7 DEF AnswerInv, Delivered, Printed
<1>10. QED
  BY <1>8, <1>9 DEF AnswerInv

\* When the EOS of an operator is its next message, nothing follows it.
LEMMA EosMeansEmpty ==
  ASSUME Inv, QInv, NEW U, OnWay(U), NEW k \in 1..Count,
         inbox[Pipeline[k]] # <<>>, Head(inbox[Pipeline[k]]).kind = "EOS"
  PROVE  /\ Waiting(Pipeline[k]) = <<>> /\ DataTo(Pipeline[k], mailbox) = <<>>
         /\ Behind(U, k) = <<>> /\ Feed(U, k) = <<>>
<1> DEFINE a == Pipeline[k]
           box == inbox[a]
<1>1. /\ a \in Addr /\ box \in Seq(UserMessage) /\ mailbox \in Seq(UserMessage)
      /\ box # <<>> /\ Head(box).kind = "EOS"
  BY PipelineFacts DEF Inv, TypeOK, QInv, Tame
<1>2. /\ Len(box) \in Nat /\ 1 \in 1..Len(box) /\ box[1].kind = "EOS"
  <2> HIDE DEF box
  <2> QED
    BY <1>1
<1>3. Len(box) = 1 /\ \A i \in 1..Len(mailbox) : mailbox[i].to # a
  BY <1>1, <1>2 DEF QInv, Relay, EosIsLast
<1>4. \A i \in 1..Len(box) : DataFor(a, box[i]) = <<>>
  BY <1>2, <1>3 DEF DataFor
<1>5. \A i \in 1..Len(mailbox) : DataFor(a, mailbox[i]) = <<>>
  BY <1>3 DEF DataFor
<1>6. DataTo(a, box) = <<>> /\ DataTo(a, mailbox) = <<>>
  <2> HIDE DEF a, box
  <2> QED
    BY <1>1, <1>4, <1>5, DataNone
<1>7. <<>> \in Seq(Node) /\ <<>> \o <<>> = <<>>
  BY EmptySeq, ConcatEmptySeq
<1>8. Waiting(a) = <<>>
  BY <1>6, <1>7 DEF Waiting
<1>9. Ended(a)
  BY <1>1, <1>2 DEF QInv, Relay, EosIn
<1>10. Behind(U, k) = <<>>
  <2>1. CASE k = 1
    <3>1. sent = Len(Script)
      BY <2>1, <1>9, PipelineFacts DEF Ended
    <3>2. Len(query) \in Nat /\ Len(Script) = Len(query) + 1
      <4> DEFINE S == Seq(Node)
      <4>1. query \in Seq(S)
        BY PipelineAssumption DEF QInv, InScript
      <4> HIDE DEF S
      <4>2. Len(query) \in Nat
        BY <4>1, LenProperties
      <4>3. QED
        BY <4>2 DEF Script
    <3>3. SubSeq(query, sent + 1, Len(query)) = <<>>
      BY <3>1, <3>2, SubSeqEmpty
    <3>4. Unsent = <<>>
      BY <3>3 DEF Unsent, FlattenSeq
    <3>5. QED
      BY <2>1, <3>4 DEF Behind
  <2>2. CASE k # 1
    <3> DEFINE b == Pipeline[k - 1]
    <3>1. k - 1 \in 1..(Count - 1) /\ k - 1 \in 1..Count /\ (k - 1) + 1 = k
      BY <2>2, PipelineFacts
    <3>2. b \in Addr /\ Downstream[b] = a
      BY <3>1, PipelineFacts
    <3>3. terminating[b]
      BY <3>2, <1>9 DEF Ended
    <3>4. U[k - 1] = <<>> /\ outPayload[b] = <<>>
      BY <3>1, <3>3 DEF OnWay
    <3>5. QED
      BY <2>2, <3>4, <1>7, ExpandEmpty DEF Behind
  <2>3. QED
    BY <2>1, <2>2
<1>11. Feed(U, k) = <<>>
  BY <1>7, <1>8, <1>10, OnWayType
<1>12. QED
  BY <1>6, <1>8, <1>10, <1>11

-----------------------------------------------------------------------------
(* The work of an OUT. *)

LEMMA PrintedKept ==
  ASSUME Printed, UNCHANGED <<query, answer, output, curCnt>>,
         terminating'[Final] = terminating[Final]
  PROVE  Printed'
BY WholeKept DEF Printed

LEMMA NodesAssociative ==
  \A s, t, u \in Seq(Node) : (s \o t) \o u = s \o (t \o u)
BY ConcatAssociative

\* What an OUT takes from a message and what it sends make up what it had.
LEMMA OutDataKeepsAnswer ==
  ASSUME Inv, QInv, AnswerInv, UNCHANGED <<query, answer, sent>>,
         NEW a \in Addr, OutData(a)
  PROVE  AnswerInv'
<1> DEFINE d == DataFor(a, Head(inbox[a]))
           p == outPayload[a]
           all == p \o Expand(d)
           b == Downstream[a]
           extra == Flushed(b, all)
           chunks == DataTo(b, extra)
<1>1. PICK k \in 1..Count : a = Pipeline[k]
  BY PipelineFacts
<1>2. PICK U : OnWay(U)
  BY DEF AnswerInv
<1>3. /\ Working(a) /\ Available(a) /\ OpCode[a] = "OUT"
      /\ Head(inbox[a]).kind = "USER_DATA"
      /\ UNCHANGED <<curCnt, output, terminating>>
  BY DEF OutData, Available, stopVars
<1>4. k \in 1..(Count - 1) /\ k + 1 \in 1..Count /\ k + 1 # k /\ b = Pipeline[k + 1]
  <2>1. k # Count
    BY <1>1, <1>3, PipelineFacts
  <2>2. k \in 1..(Count - 1) /\ k + 1 \in 1..Count /\ k + 1 # k
    BY <2>1, PipelineFacts
  <2>3. QED
    BY <1>1, <2>2, PipelineFacts
<1>5. b \in Addr /\ b # a
  BY <1>1, <1>4, PipelineFacts
<1>6. Delivered /\ Printed
  BY DEF AnswerInv
<1>7. Head(inbox[a]).to = a /\ Head(inbox[a]) \in UserMessage
  <2>1. inbox[a] \in Seq(UserMessage) /\ inbox[a] # <<>>
    BY <1>3, TurnFacts
  <2>2. /\ Head(inbox[a]) = inbox[a][1] /\ 1 \in 1..Len(inbox[a])
        /\ Head(inbox[a]) \in UserMessage
    BY <2>1
  <2>3. QED
    BY <1>6, <2>2 DEF Delivered
<1>8. d = Head(inbox[a]).data /\ d \in Seq(Node)
  BY <1>3, <1>7, DataForType DEF DataFor
<1>9. /\ p \in Seq(Node) /\ Expand(d) \in Seq(Node)
      /\ mailbox' = mailbox \o extra
      /\ outPayload' = [outPayload EXCEPT ![a] = Rest(all)]
      /\ outPayload \in [Addr -> Seq(Node)]
  BY <1>8, ExpandType DEF OutData, Inv, TypeOK
<1>10. all \in Seq(Node)
  <2> DEFINE e == Expand(d)
  <2>1. p \in Seq(Node) /\ e \in Seq(Node)
    BY <1>9
  <2> HIDE DEF p, e
  <2>2. p \o e \in Seq(Node)
    BY <2>1, ConcatProperties
  <2>3. QED
    BY <2>2 DEF e
<1> HIDE DEF d, all, b
<1>11. /\ extra \in Seq(UserMessage) /\ chunks \o Rest(all) = all
       /\ \A c \in Addr : c # b => DataTo(c, extra) = <<>>
  BY <1>5, <1>10, FlushedData, FlushType
<1> HIDE DEF extra
<1>12. /\ \A c \in Addr : c # a => Waiting(c)' = Waiting(c) \o DataTo(c, extra)
       /\ Waiting(a) = d \o Waiting(a)' /\ Waiting(a)' \in Seq(Node) /\ Delivered'
  <2>1. DataTo(a, extra) = <<>>
    BY <1>5, <1>11
  <2>2. QED
    BY <1>3, <1>6, <1>9, <1>11, <2>1, WorkWaiting DEF d
<1>13. ASSUME NEW j \in 1..Count, j # k, j # k + 1
       PROVE  Waiting(Pipeline[j])' = Waiting(Pipeline[j])
  <2>1. Pipeline[j] \in Addr /\ Pipeline[j] # a /\ Pipeline[j] # b
    BY <1>1, <1>4, <1>13, PipelineFacts
  <2>2. Waiting(Pipeline[j])' = Waiting(Pipeline[j]) \o <<>>
    BY <1>11, <1>12, <2>1
  <2>3. Waiting(Pipeline[j]) \in Seq(Node)
    BY <2>1, FeedType
  <2>4. QED
    BY <2>2, <2>3, ConcatEmptySeq
<1> DEFINE w == Waiting(a)'
           behind == Behind(U, k)
<1>14. w \in Seq(Node) /\ behind \in Seq(Node)
  BY <1>2, <1>12, OnWayType
<1>15. PICK R : R = w \o behind
  OBVIOUS
<1>16. R \in Seq(Node)
  <2> HIDE DEF w, behind
  <2> QED
    BY <1>14, <1>15, ConcatProperties
<1>17. U[k] = d \o R
  <2>1. U[k] = Feed(U, k)
    BY <1>2, <1>4, PipelineFacts DEF OnWay
  <2>2. Feed(U, k) = Waiting(a) \o behind
    BY <1>1, <1>2, OnWayType
  <2>3. Feed(U, k) = (d \o w) \o behind
    BY <2>2, <1>12
  <2> HIDE DEF w, behind
  <2>4. (d \o w) \o behind = d \o (w \o behind)
    <3>1. \A s, t, u \in Seq(Node) : (s \o t) \o u = s \o (t \o u)
      BY ConcatAssociative
    <3>2. QED
      BY <1>8, <1>14, <3>1, Zenon
  <2>5. QED
    BY <2>1, <2>3, <2>4, <1>15
<1>18. Waiting(b)' \o (outPayload'[a] \o Expand(R)) = Waiting(b) \o (p \o Expand(U[k]))
  <2> DEFINE e == Expand(R)
             x == Expand(d)
             v == Waiting(b)
             r == Rest(all)
  <2>1. Expand(U[k]) = x \o e
    BY <1>8, <1>16, <1>17, ExpandConcat
  <2>2. Waiting(b)' = v \o chunks /\ outPayload'[a] = r
    BY <1>5, <1>9, <1>12
  <2>3. e \in Seq(Node) /\ x \in Seq(Node) /\ p \in Seq(Node)
    BY <1>8, <1>9, <1>16, ExpandType
  <2>4. v \in Seq(Node) /\ chunks \in Seq(Node)
    BY <1>5, <1>11, FeedType, DataType
  <2>5. r \in Seq(Node)
    BY <1>5, <1>10, FlushType
  <2>6. all = p \o x /\ all = chunks \o r
    BY <1>11 DEF all
  <2> HIDE DEF e, x, v, r, p, chunks
  <2>7. PICK y : y = r \o e
    OBVIOUS
  <2>8. y \in Seq(Node)
    BY <2>3, <2>5, <2>7, ConcatProperties
  <2>9. (v \o chunks) \o y = v \o (chunks \o y)
    BY <2>4, <2>8, NodesAssociative, Zenon
  <2>10. (chunks \o r) \o e = chunks \o (r \o e)
    BY <2>3, <2>4, <2>5, NodesAssociative, Zenon
  <2>11. (p \o x) \o e = p \o (x \o e)
    BY <2>3, NodesAssociative, Zenon
  <2>12. (v \o chunks) \o y = v \o (p \o (x \o e))
    BY <2>6, <2>7, <2>9, <2>10, <2>11, Zenon
  <2>13. QED
    BY <2>1, <2>2, <2>7, <2>12, Zenon DEF e, v
<1>19. \E V : OnWay(V)'
  <2>1. \A j \in 1..Count : j # k =>
           /\ terminating'[Pipeline[j]] = terminating[Pipeline[j]]
           /\ outPayload'[Pipeline[j]] = outPayload[Pipeline[j]]
    <3>1. ASSUME NEW j \in 1..Count, j # k
          PROVE  Pipeline[j] \in Addr /\ Pipeline[j] # a
      BY <1>1, <3>1, PipelineFacts
    <3>2. QED
      BY <1>3, <1>9, <3>1
  <2>2. ~terminating'[a]
    BY <1>3, TurnFacts
  <2>3. R = Waiting(Pipeline[k])' \o Behind(U, k)
    BY <1>1, <1>15
  <2>4. Waiting(Pipeline[k + 1])' \o (outPayload'[Pipeline[k]] \o Expand(R))
           = Waiting(Pipeline[k + 1]) \o (outPayload[Pipeline[k]] \o Expand(U[k]))
    BY <1>1, <1>4, <1>18
  <2>5. terminating'[Pipeline[k]] => R = <<>> /\ outPayload'[Pipeline[k]] = <<>>
    BY <1>1, <2>2
  <2>6. UNCHANGED <<query, sent, output>>
    BY <1>3
  <2> HIDE DEF w, behind, p, chunks
  <2>7. QED
    BY <1>2, <1>4, <1>13, <1>16, <2>1, <2>3, <2>4, <2>5, <2>6, OutKeepsOnWay
<1>20. Printed'
  BY <1>3, <1>6, PrintedKept
<1>21. QED
  BY <1>12, <1>19, <1>20 DEF AnswerInv

\* The last EOS of an OUT finds it with nothing but its payload to send.
LEMMA OutEosKeepsAnswer ==
  ASSUME Inv, QInv, AnswerInv, UNCHANGED <<query, answer, sent>>,
         NEW a \in Addr, OutLastEos(a)
  PROVE  AnswerInv'
<1> DEFINE p == outPayload[a]
           b == Downstream[a]
           extra == Farewell(b, p)
<1>1. PICK k \in 1..Count : a = Pipeline[k]
  BY PipelineFacts
<1>2. PICK U : OnWay(U)
  BY DEF AnswerInv
<1>3. /\ Working(a) /\ CancelMe(a) /\ OpCode[a] = "OUT" /\ Head(inbox[a]).kind = "EOS"
      /\ UNCHANGED <<curCnt, output>> /\ mailbox' = mailbox \o extra
      /\ outPayload' = [outPayload EXCEPT ![a] = <<>>]
  BY DEF OutLastEos
<1>4. k \in 1..(Count - 1) /\ k + 1 \in 1..Count /\ k + 1 # k /\ b = Pipeline[k + 1]
  <2>1. k # Count
    BY <1>1, <1>3, PipelineFacts
  <2>2. k \in 1..(Count - 1) /\ k + 1 \in 1..Count /\ k + 1 # k
    BY <2>1, PipelineFacts
  <2>3. QED
    BY <1>1, <2>2, PipelineFacts
<1>5. b \in Addr /\ b # a
  BY <1>1, <1>4, PipelineFacts
<1>6. Delivered /\ Printed
  BY DEF AnswerInv
<1>7. /\ inbox[a] # <<>> /\ inbox'[a] = <<>>
      /\ \A c \in Addr : c # a => terminating'[c] = terminating[c]
  BY <1>3, TurnFacts
<1>8. /\ p \in Seq(Node) /\ outPayload \in [Addr -> Seq(Node)]
      /\ mailbox \in Seq(UserMessage)
  BY DEF Inv, TypeOK, QInv, Tame
<1>9. /\ extra \in Seq(UserMessage) /\ DataTo(b, extra) = p
      /\ \A c \in Addr : c # b => DataTo(c, extra) = <<>>
  BY <1>5, <1>8, OutSends, FarewellData
<1>10. /\ DataTo(a, mailbox) = <<>> /\ Behind(U, k) = <<>> /\ Feed(U, k) = <<>>
  BY <1>1, <1>2, <1>3, <1>7, EosMeansEmpty
<1> HIDE DEF p, extra, b
<1>11. /\ \A c \in Addr : c # a => Waiting(c)' = Waiting(c) \o DataTo(c, extra)
       /\ Delivered'
  <2>1. DataTo(a, extra) = <<>>
    BY <1>5, <1>9
  <2>2. QED
    BY <1>3, <1>6, <1>9, <2>1, WorkWaiting
<1>12. Waiting(a)' = <<>>
  <2>1. DataTo(a, mailbox') = DataTo(a, mailbox) \o DataTo(a, extra)
    BY <1>3, <1>8, <1>9, DataConcat
  <2>2. DataTo(a, mailbox') = <<>>
    BY <2>1, <1>5, <1>9, <1>10, ConcatEmptySeq, EmptySeq
  <2>3. DataTo(a, <<>>) = <<>>
    BY DEF DataTo, FlattenSeq
  <2>4. Waiting(a)' = DataTo(a, <<>>) \o DataTo(a, mailbox')
    BY <1>7 DEF Waiting
  <2>5. QED
    BY <2>2, <2>3, <2>4, ConcatEmptySeq, EmptySeq
<1>13. ASSUME NEW j \in 1..Count, j # k, j # k + 1
       PROVE  Waiting(Pipeline[j])' = Waiting(Pipeline[j])
  <2>1. Pipeline[j] \in Addr /\ Pipeline[j] # a /\ Pipeline[j] # b
    BY <1>1, <1>4, <1>13, PipelineFacts
  <2>2. Waiting(Pipeline[j])' = Waiting(Pipeline[j]) \o <<>>
    BY <1>9, <1>11, <2>1
  <2>3. Waiting(Pipeline[j]) \in Seq(Node)
    BY <2>1, FeedType
  <2>4. QED
    BY <2>2, <2>3, ConcatEmptySeq
<1>14. PICK R : R = <<>>
  OBVIOUS
<1>15. R \in Seq(Node) /\ R = Waiting(Pipeline[k])' \o Behind(U, k)
  BY <1>1, <1>10, <1>12, <1>14, EmptySeq, ConcatEmptySeq
<1>16. U[k] = <<>>
  BY <1>2, <1>4, <1>10, PipelineFacts DEF OnWay
<1>17. Waiting(b)' \o (outPayload'[a] \o Expand(R)) = Waiting(b) \o (p \o Expand(U[k]))
  <2> DEFINE v == Waiting(b)
  <2>1. Waiting(b)' = v \o p /\ outPayload'[a] = <<>> /\ v \in Seq(Node)
    BY <1>3, <1>5, <1>8, <1>9, <1>11, FeedType
  <2>2. Expand(R) = <<>> /\ Expand(U[k]) = <<>>
    BY <1>14, <1>16, ExpandEmpty
  <2> HIDE DEF v
  <2>3. v \o p \in Seq(Node)
    BY <2>1, <1>8, ConcatProperties
  <2>4. <<>> \o <<>> = <<>> /\ p \o <<>> = p /\ (v \o p) \o <<>> = v \o p
    BY <2>3, <1>8, ConcatEmptySeq, EmptySeq
  <2>5. QED
    BY <2>1, <2>2, <2>4, Zenon DEF v
<1>18. \E V : OnWay(V)'
  <2>1. \A j \in 1..Count : j # k =>
           /\ terminating'[Pipeline[j]] = terminating[Pipeline[j]]
           /\ outPayload'[Pipeline[j]] = outPayload[Pipeline[j]]
    <3>1. ASSUME NEW j \in 1..Count, j # k
          PROVE  Pipeline[j] \in Addr /\ Pipeline[j] # a
      BY <1>1, <3>1, PipelineFacts
    <3>2. QED
      BY <1>3, <1>7, <1>8, <3>1
  <2>2. Waiting(Pipeline[k + 1])' \o (outPayload'[Pipeline[k]] \o Expand(R))
           = Waiting(Pipeline[k + 1]) \o (outPayload[Pipeline[k]] \o Expand(U[k]))
    BY <1>1, <1>4, <1>17 DEF p
  <2>3. R = <<>> /\ outPayload'[Pipeline[k]] = <<>>
    BY <1>1, <1>3, <1>8, <1>14
  <2>4. UNCHANGED <<query, sent, output>>
    BY <1>3
  <2>5. QED
    BY <1>2, <1>4, <1>13, <1>15, <2>1, <2>2, <2>3, <2>4, OutKeepsOnWay
<1>19. Printed'
  <2>1. Final # a /\ Final \in Addr
    BY <1>3, PipelineFacts
  <2>2. QED
    BY <1>3, <1>6, <1>7, <2>1, PrintedKept
<1>20. QED
  BY <1>11, <1>18, <1>19 DEF AnswerInv

\* A payload that is neither data nor an EOS brings nothing.
LEMMA UndefinedKeepsAnswer ==
  ASSUME Inv, QInv, AnswerInv, UNCHANGED <<query, answer, sent>>,
         NEW a \in Addr, UndefinedData(a)
  PROVE  AnswerInv'
<1>1. /\ Working(a) /\ Available(a) /\ Head(inbox[a]).kind = "NOTHING"
      /\ UNCHANGED <<curCnt, output, outPayload, terminating>> /\ mailbox' = mailbox
  BY DEF UndefinedData, Available, stopVars, opVars
<1>2. PICK extra : extra = <<>>
  OBVIOUS
<1>3. /\ mailbox' = mailbox \o extra /\ extra \in Seq(UserMessage)
      /\ \A b : DataTo(b, extra) = <<>>
  <2>1. mailbox \in Seq(UserMessage)
    BY DEF QInv, Tame
  <2>2. mailbox \o <<>> = mailbox /\ <<>> \in Seq(UserMessage)
    BY <2>1, ConcatEmptySeq, EmptySeq
  <2>3. \A b : DataTo(b, <<>>) = <<>>
    BY DEF DataTo, FlattenSeq
  <2>4. QED
    BY <1>1, <1>2, <2>2, <2>3
<1>4. /\ \A b \in Addr : b # a => Waiting(b)' = Waiting(b) \o <<>>
      /\ Waiting(a) = DataFor(a, Head(inbox[a])) \o Waiting(a)'
      /\ Waiting(a)' \in Seq(Node) /\ Delivered'
  <2>1. Delivered
    BY DEF AnswerInv
  <2>2. \A b \in Addr : b # a => Waiting(b)' = Waiting(b) \o DataTo(b, extra)
    BY <1>1, <1>3, <2>1, WorkWaiting
  <2>3. /\ Waiting(a) = DataFor(a, Head(inbox[a])) \o Waiting(a)'
        /\ Waiting(a)' \in Seq(Node) /\ Delivered'
    BY <1>1, <1>3, <2>1, WorkWaiting
  <2>4. ASSUME NEW b \in Addr, b # a PROVE Waiting(b)' = Waiting(b) \o <<>>
    <3>1. Waiting(b)' = Waiting(b) \o DataTo(b, extra)
      BY <2>2, <2>4
    <3>2. DataTo(b, extra) = <<>>
      BY <1>3
    <3>3. QED
      BY <3>1, <3>2
  <2>5. QED
    BY <2>3, <2>4, Zenon
<1>5. \A b \in Addr : Waiting(b)' = Waiting(b)
  <2>1. DataFor(a, Head(inbox[a])) = <<>>
    BY <1>1 DEF DataFor
  <2>2. Waiting(a)' = Waiting(a)
    BY <1>4, <2>1, ConcatEmptySeq
  <2>3. ASSUME NEW b \in Addr, b # a PROVE Waiting(b)' = Waiting(b)
    BY <1>4, <2>3, FeedType, ConcatEmptySeq
  <2>4. QED
    BY <2>2, <2>3
<1>6. PICK U : OnWay(U)
  BY DEF AnswerInv
<1>7. OnWay(U)'
  BY <1>1, <1>5, <1>6, PipelineFacts, StillOnWay
<1>8. Printed'
  BY <1>1, PrintedKept DEF AnswerInv
<1>9. QED
  BY <1>4, <1>7, <1>8 DEF AnswerInv

-----------------------------------------------------------------------------
(* The work of LIMIT. *)

LEMMA PrefixOfConcat ==
  ASSUME NEW u \in Seq(Node), NEW v \in Seq(Node)
  PROVE  /\ u \o v \in Seq(Node) /\ Len(u) \in 0..Len(u \o v)
         /\ SubSeq(u \o v, 1, Len(u)) = u
<1> DEFINE w == u \o v
<1>1. /\ w \in Seq(Node) /\ Len(w) = Len(u) + Len(v) /\ Len(u) \in Nat /\ Len(v) \in Nat
      /\ \A i \in 1..Len(u) + Len(v) : w[i] = IF i <= Len(u) THEN u[i] ELSE v[i - Len(u)]
  BY ConcatProperties, LenProperties
<1>2. \A i \in 1..Len(u) : u[i] \in Node
  BY ElementOfSeq
<1> HIDE DEF w
<1>3. \A i \in 1..Len(u) : w[i] = u[i] /\ w[i] \in Node
  BY <1>1, <1>2
<1>4. /\ SubSeq(w, 1, Len(u)) \in Seq(Node)
      /\ Len(SubSeq(w, 1, Len(u))) = IF 1 <= Len(u) THEN Len(u) - 1 + 1 ELSE 0
      /\ \A i \in 1..(Len(u) - 1 + 1) : SubSeq(w, 1, Len(u))[i] = w[1 + i - 1]
  BY <1>1, <1>3, SubSeqProperties
<1>5. \A i \in 1..Len(SubSeq(w, 1, Len(u))) : SubSeq(w, 1, Len(u))[i] = u[i]
  BY <1>1, <1>3, <1>4
<1>6. SubSeq(w, 1, Len(u)) = u
  BY <1>1, <1>4, <1>5, SeqEqual
<1>7. QED
  BY <1>1, <1>6 DEF w

\* What LIMIT has printed begins the answer.
Begun ==
    /\ answer \in Seq(Node) /\ output \in Seq(Node)
    /\ Len(output) <= Len(answer) /\ output = SubSeq(answer, 1, Len(output))
    /\ terminating[Final] => output = answer

LEMMA PrintedBegins ==
  ASSUME Inv, QInv, AnswerInv
  PROVE  Begun
<1>1. output \in Seq(Node) /\ Len(output) \in Nat /\ Whole \in Seq(Node)
  BY WholeType, LenProperties DEF Inv, TypeOK
<1>2. answer = Cut(Whole, Limit) /\ Limit \in Nat
  BY PipelineFacts DEF AnswerInv, Printed
<1>3. answer \in Seq(Node)
  BY <1>1, <1>2, CutFacts
<1>4. CASE terminating[Final]
  <2>1. output = answer
    BY <1>4 DEF AnswerInv, Printed
  <2>2. Len(answer) \in Nat /\ SubSeq(answer, 1, Len(answer)) = answer
    BY <1>3, LenProperties, SubSeqFull
  <2>3. QED
    BY <1>1, <1>3, <1>4, <2>1, <2>2 DEF Begun
<1>5. CASE ~terminating[Final]
  <2>1. PICK U : OnWay(U)
    BY DEF AnswerInv
  <2>2. U[Count] \in Seq(Node) /\ output \o U[Count] = Whole
    BY <1>5, <2>1, PipelineFacts DEF OnWay
  <2>3. Len(output) \in 0..Len(Whole) /\ SubSeq(Whole, 1, Len(output)) = output
    BY <1>1, <2>2, PrefixOfConcat
  <2>4. Len(output) <= Limit
    BY <1>1, <1>2, <1>5 DEF AnswerInv, Printed
  <2>5. /\ Len(output) <= Len(answer)
        /\ SubSeq(answer, 1, Len(output)) = SubSeq(Whole, 1, Len(output))
    BY <1>1, <1>2, <2>3, <2>4, CutFacts
  <2>6. QED
    BY <1>1, <1>3, <1>5, <2>3, <2>5 DEF Begun
<1>6. QED
  BY <1>4, <1>5

\* LIMIT works: the operators before it do not notice.
LEMMA LimitKeepsOnWay ==
  ASSUME Inv, QInv, NEW U, OnWay(U), NEW R \in Seq(Node),
         UNCHANGED <<query, sent, outPayload, mailbox>>,
         Working(Final), CancelMe(Final) \/ Available(Final), Delivered,
         ~terminating'[Final] =>
            R = Waiting(Final)' \o Behind(U, Count) /\ output' \o R = Whole
  PROVE  (\E V : OnWay(V)') /\ Delivered'
<1>1. PICK V : V = [U EXCEPT ![Count] = R]
  OBVIOUS
<1>2. Count \in Nat /\ Count > 1 /\ Count \in 1..Count /\ Final = Pipeline[Count]
      /\ Final \in Addr
  BY PipelineFacts
<1>3. /\ U \in [1..Count -> Seq(Node)] /\ V \in [1..Count -> Seq(Node)] /\ V[Count] = R
      /\ \A j \in 1..Count : j # Count => V[j] = U[j]
  BY <1>1, <1>2 DEF OnWay
<1>4. Unsent' = Unsent /\ Whole' = Whole
  BY WholeKept DEF Unsent
<1>5. \A b \in Addr : b # Final => terminating'[b] = terminating[b]
  BY <1>2, TurnFacts
<1>6. Delivered' /\ \A b \in Addr : b # Final => Waiting(b)' = Waiting(b)
  <2>1. PICK extra : extra = <<>>
    OBVIOUS
  <2>2. /\ mailbox' = mailbox \o extra /\ extra \in Seq(UserMessage)
        /\ \A b : DataTo(b, extra) = <<>>
    <3>1. mailbox \in Seq(UserMessage)
      BY DEF QInv, Tame
    <3>2. mailbox \o <<>> = mailbox /\ <<>> \in Seq(UserMessage)
      BY <3>1, ConcatEmptySeq, EmptySeq
    <3>3. \A b : DataTo(b, <<>>) = <<>>
      BY DEF DataTo, FlattenSeq
    <3>4. QED
      BY <2>1, <3>2, <3>3
  <2>3. \A b \in Addr : b # Final => Waiting(b)' = Waiting(b) \o DataTo(b, extra)
    <3>1. DataTo(Final, extra) = <<>> /\ mailbox' = mailbox \o extra
      BY <2>2
    <3>2. extra \in Seq(UserMessage)
      BY <2>2
    <3>3. QED
      BY <1>2, <3>1, <3>2, WorkWaiting
  <2>4. Delivered'
    BY <1>2, <2>2, WorkWaiting
  <2>5. ASSUME NEW b \in Addr, b # Final PROVE Waiting(b)' = Waiting(b)
    <3>1. Waiting(b)' = Waiting(b) \o DataTo(b, extra)
      BY <2>3, <2>5
    <3>2. DataTo(b, extra) = <<>> /\ Waiting(b) \in Seq(Node)
      BY <2>2, FeedType
    <3>3. QED
      BY <3>1, <3>2, ConcatEmptySeq
  <2>6. QED
    BY <2>4, <2>5
<1>7. ASSUME NEW j \in 1..Count
      PROVE  V[j] = Feed(V, j)' \/ (j = Count /\ terminating'[Final])
  <2>1. CASE j = Count
    <3>1. j # 1 /\ j - 1 \in 1..Count /\ j - 1 # Count
      BY <2>1, <1>2
    <3>2. V[j - 1] = U[j - 1]
      BY <3>1, <1>3
    <3>3. Feed(V, j)' = Waiting(Final)' \o Behind(U, Count)
      BY <2>1, <3>1, <3>2, <1>2 DEF Feed, Behind
    <3>4. QED
      BY <2>1, <3>3, <1>3
  <2>2. CASE j # Count
    <3>1. Pipeline[j] \in Addr /\ Pipeline[j] # Final
      BY <2>2, <1>2, PipelineFacts
    <3>2. Waiting(Pipeline[j])' = Waiting(Pipeline[j]) /\ V[j] = U[j]
      BY <2>2, <3>1, <1>3, <1>6
    <3>3. Feed(V, j)' = Feed(U, j)
      <4>1. CASE j = 1
        BY <3>2, <4>1, <1>4 DEF Feed
      <4>2. CASE j # 1
        <5>1. j - 1 \in 1..Count /\ j - 1 # Count
          BY <4>2, <1>2
        <5>2. V[j - 1] = U[j - 1]
          BY <5>1, <1>3
        <5>3. QED
          BY <3>2, <4>2, <5>2 DEF Feed
      <4>3. QED
        BY <4>1, <4>2
    <3>4. QED
      BY <2>2, <3>2, <3>3 DEF OnWay
  <2>3. QED
    BY <2>1, <2>2
<1>8. ASSUME NEW j \in 1..(Count - 1), terminating'[Pipeline[j]]
      PROVE  V[j] = <<>> /\ outPayload'[Pipeline[j]] = <<>>
  <2>1. j \in 1..Count /\ j # Count
    BY <1>2
  <2>2. Pipeline[j] \in Addr /\ Pipeline[j] # Final
    BY <2>1, <1>2, PipelineFacts
  <2>3. QED
    BY <2>1, <2>2, <1>3, <1>5, <1>8 DEF OnWay
<1>9. ~terminating'[Final] => output' \o V[Count] = Whole'
  BY <1>3, <1>4
<1>10. OnWay(V)'
  BY <1>3, <1>7, <1>8, <1>9 DEF OnWay
<1>11. QED
  BY <1>6, <1>10

LEMMA LimitDataKeepsAnswer ==
  ASSUME Inv, QInv, AnswerInv, UNCHANGED <<query, answer, sent>>, LimitData(Final)
  PROVE  AnswerInv'
<1> DEFINE d == DataFor(Final, Head(inbox[Final]))
           room == Limit - curCnt[Final]
           n == IF Len(d) < room THEN Len(d) ELSE room
           s == SubSeq(d, 1, n)
           t == SubSeq(d, n + 1, Len(d))
<1>1. Final \in Addr /\ Limit \in Nat /\ Count \in 1..Count
  BY PipelineFacts
<1>2. PICK U : OnWay(U)
  BY DEF AnswerInv
<1>3. Delivered /\ Printed /\ output \in Seq(Node) /\ curCnt \in [Addr -> Nat]
  BY DEF AnswerInv, Inv, TypeOK
<1>4. /\ Working(Final) /\ (CancelMe(Final) \/ Available(Final))
      /\ Head(inbox[Final]).kind = "USER_DATA"
      /\ UNCHANGED <<mailbox, outPayload>>
  BY DEF LimitData
<1>5. /\ inbox[Final] \in Seq(UserMessage) /\ inbox[Final] # <<>> /\ ~terminating[Final]
      /\ Available(Final) => ~terminating'[Final]
      /\ CancelMe(Final) => terminating'[Final]
  <2>1. /\ inbox[Final] \in Seq(UserMessage) /\ inbox[Final] # <<>> /\ ~terminating[Final]
        /\ CancelMe(Final) => terminating'[Final] = TRUE
        /\ Available(Final) => terminating' = terminating
    BY <1>1, <1>4, TurnFacts
  <2>2. QED
    BY <2>1
<1>6. Head(inbox[Final]).to = Final /\ Head(inbox[Final]) \in UserMessage
  <2>1. /\ Head(inbox[Final]) = inbox[Final][1] /\ 1 \in 1..Len(inbox[Final])
        /\ Head(inbox[Final]) \in UserMessage
    BY <1>5
  <2>2. QED
    BY <1>1, <1>3, <2>1 DEF Delivered
<1>7. d = Head(inbox[Final]).data /\ d \in Seq(Node) /\ Len(d) \in Nat
  BY <1>4, <1>6, DataForType, LenProperties DEF DataFor
<1>8. /\ output' = output \o s /\ curCnt' = [curCnt EXCEPT ![Final] = @ + n]
      /\ IF n = room THEN CancelMe(Final) ELSE Available(Final)
  BY <1>7 DEF LimitData, Limit
<1>9. Len(output) = curCnt[Final] /\ curCnt[Final] \in Nat /\ curCnt[Final] < Limit
  BY <1>1, <1>3, <1>5 DEF Printed
<1>10. n \in Nat /\ n <= Len(d) /\ n <= room /\ (n = room \/ n = Len(d)) /\ room \in Nat
  BY <1>1, <1>7, <1>9
<1> HIDE DEF d, room, n
<1>11. s \in Seq(Node) /\ t \in Seq(Node) /\ s \o t = d /\ Len(s) = n
  <2>1. \A i \in 1..Len(d) : d[i] \in Node
    BY <1>7, ElementOfSeq
  <2>2. s \in Seq(Node) /\ Len(s) = n
    <3>1. \A i \in 1..n : d[i] \in Node
      BY <1>7, <1>10, <2>1
    <3>2. s \in Seq(Node) /\ Len(s) = IF 1 <= n THEN n - 1 + 1 ELSE 0
      BY <1>10, <3>1, SubSeqProperties
    <3>3. QED
      BY <1>10, <3>2
  <2>3. t \in Seq(Node)
    <3>1. \A i \in (n + 1)..Len(d) : d[i] \in Node
      BY <1>7, <1>10, <2>1
    <3>2. n + 1 \in Int /\ Len(d) \in Int
      BY <1>7, <1>10
    <3>3. QED
      BY <3>1, <3>2, SubSeqProperties
  <2>4. s \o t = d
    <3>1. 1 \in 1..Len(d) + 1 /\ n \in (1 - 1)..Len(d) /\ Len(d) \in n..Len(d)
      BY <1>7, <1>10
    <3>2. SubSeq(d, 1, n) \o SubSeq(d, n + 1, Len(d)) = SubSeq(d, 1, Len(d))
      BY <1>7, <3>1, ConcatAdjacentSubSeq
    <3>3. QED
      BY <1>7, <3>2, SubSeqFull
  <2>5. QED
    BY <2>2, <2>3, <2>4
<1> HIDE DEF s, t
<1>12. output' \in Seq(Node) /\ Len(output') = curCnt[Final] + n
       /\ curCnt'[Final] = curCnt[Final] + n
  <2>1. output \o s \in Seq(Node) /\ Len(output \o s) = Len(output) + Len(s)
    BY <1>3, <1>11, ConcatProperties
  <2>2. QED
    BY <1>1, <1>3, <1>8, <1>9, <1>11, <2>1
<1> DEFINE w == Waiting(Final)'
           behind == Behind(U, Count)
<1>13. CASE n = room
  <2>1. CancelMe(Final) /\ terminating'[Final]
    BY <1>5, <1>8, <1>13
  <2>2. (\E V : OnWay(V)') /\ Delivered'
    <3>1. PICK R : R = <<>>
      OBVIOUS
    <3>2. R \in Seq(Node)
      BY <3>1, EmptySeq
    <3>3. QED
      BY <1>2, <1>3, <1>4, <2>1, <3>2, LimitKeepsOnWay
  <2>3. Len(output') = Limit
    BY <1>1, <1>9, <1>10, <1>12, <1>13 DEF room
  <2>4. PICK z \in Seq(Node) : Whole = output' \o z
    <3>1. output \o U[Count] = Whole /\ U[Count] = Feed(U, Count)
      BY <1>1, <1>2, <1>5, PipelineFacts DEF OnWay
    <3>2. /\ Waiting(Final) \in Seq(Node) /\ behind \in Seq(Node)
          /\ Feed(U, Count) = Waiting(Final) \o behind
      BY <1>1, <1>2, FeedType, OnWayType, PipelineFacts
    <3>3. PICK g \in Seq(Node) : Waiting(Final) = d \o g
      <4> DEFINE x == DataTo(Final, Tail(inbox[Final]))
                 y == DataTo(Final, mailbox)
      <4>1. /\ x \in Seq(Node) /\ DataTo(Final, inbox[Final]) = d \o x
        BY <1>5, DataTail, DataType DEF d
      <4>2. y \in Seq(Node) /\ Waiting(Final) = DataTo(Final, inbox[Final]) \o y
        BY <1>1, FeedType DEF Waiting
      <4> HIDE DEF x, y
      <4>3. (d \o x) \o y = d \o (x \o y)
        BY <1>7, <4>1, <4>2, NodesAssociative, Zenon
      <4>4. x \o y \in Seq(Node)
        BY <4>1, <4>2, ConcatProperties
      <4>5. Waiting(Final) = d \o (x \o y)
        BY <4>1, <4>2, <4>3
      <4>6. QED
        BY <4>4, <4>5
    <3> HIDE DEF behind
    <3>4. PICK h : h = g \o behind
      OBVIOUS
    <3>5. h \in Seq(Node)
      BY <3>2, <3>3, <3>4, ConcatProperties
    <3>6. (d \o g) \o behind = d \o (g \o behind)
      BY <1>7, <3>2, <3>3, NodesAssociative, Zenon
    <3>7. (s \o t) \o h = s \o (t \o h)
      BY <1>11, <3>5, NodesAssociative, Zenon
    <3>8. PICK z : z = t \o h
      OBVIOUS
    <3>9. z \in Seq(Node)
      BY <1>11, <3>5, <3>8, ConcatProperties
    <3>10. (output \o s) \o z = output \o (s \o z)
      BY <1>3, <1>11, <3>9, NodesAssociative, Zenon
    <3>11. U[Count] = s \o z
      BY <1>11, <3>1, <3>2, <3>3, <3>4, <3>6, <3>7, <3>8, Zenon
    <3>12. Whole = output' \o z
      BY <1>8, <3>1, <3>10, <3>11, Zenon
    <3>13. QED
      BY <3>9, <3>12
  <2>5. Len(output') \in 0..Len(Whole) /\ SubSeq(Whole, 1, Len(output')) = output'
    BY <1>12, <2>4, PrefixOfConcat
  <2>6. Cut(Whole, Limit) = output'
    <3>1. Whole \in Seq(Node) /\ Limit \in Nat /\ Limit \in 0..Len(Whole)
      BY <1>1, <2>3, <2>5, WholeType
    <3>2. Cut(Whole, Limit) = SubSeq(Whole, 1, Limit)
      <4>1. Limit <= Limit
        BY <1>1
      <4>2. QED
        BY <3>1, <4>1, CutFacts
    <3>3. QED
      BY <2>3, <2>5, <3>2
  <2>7. Printed'
    <3>1. Whole' = Whole
      BY WholeKept
    <3>2. Len(output') = curCnt'[Final]
      BY <1>12
    <3>3. QED
      BY <1>3, <2>1, <2>6, <3>1, <3>2 DEF Printed
  <2>8. QED
    BY <2>2, <2>7 DEF AnswerInv
<1>14. CASE n # room
  <2>1. Available(Final) /\ ~terminating'[Final] /\ n = Len(d)
    BY <1>5, <1>8, <1>10, <1>14
  <2>2. s = d
    BY <1>7, <2>1, SubSeqFull DEF s
  <2>3. Waiting(Final) = d \o w /\ w \in Seq(Node)
    <3>1. PICK extra : extra = <<>>
      OBVIOUS
    <3>2. /\ mailbox' = mailbox \o extra /\ extra \in Seq(UserMessage)
          /\ DataTo(Final, extra) = <<>>
      <4>1. mailbox \in Seq(UserMessage)
        BY DEF QInv, Tame
      <4>2. mailbox \o <<>> = mailbox /\ <<>> \in Seq(UserMessage)
        BY <4>1, ConcatEmptySeq, EmptySeq
      <4>3. DataTo(Final, <<>>) = <<>>
        BY DEF DataTo, FlattenSeq
      <4>4. QED
        BY <1>4, <3>1, <4>2, <4>3
    <3>3. QED
      BY <1>1, <1>3, <1>4, <2>1, <3>2, WorkWaiting DEF d
  <2>4. behind \in Seq(Node) /\ U[Count] = Waiting(Final) \o behind
    <3>1. behind \in Seq(Node) /\ Feed(U, Count) = Waiting(Pipeline[Count]) \o behind
      BY <1>1, <1>2, OnWayType
    <3>2. U[Count] = Feed(U, Count) /\ Pipeline[Count] = Final
      BY <1>1, <1>2, <1>5, PipelineFacts DEF OnWay
    <3>3. QED
      BY <3>1, <3>2
  <2>5. output \o U[Count] = Whole
    BY <1>2, <1>5 DEF OnWay
  <2>6. PICK R : R = w \o behind
    OBVIOUS
  <2>7. R \in Seq(Node)
    <3> HIDE DEF w, behind
    <3> QED
      BY <2>3, <2>4, <2>6, ConcatProperties
  <2>8. output' \o R = Whole
    <3> HIDE DEF w, behind
    <3>1. (d \o w) \o behind = d \o (w \o behind)
      BY <1>7, <2>3, <2>4, NodesAssociative, Zenon
    <3>2. (output \o d) \o R = output \o (d \o R)
      BY <1>3, <1>7, <2>7, NodesAssociative, Zenon
    <3>3. QED
      BY <1>8, <2>2, <2>3, <2>4, <2>5, <2>6, <3>1, <3>2, Zenon
  <2>9. (\E V : OnWay(V)') /\ Delivered'
    <3>1. R = Waiting(Final)' \o Behind(U, Count)
      BY <2>6
    <3> HIDE DEF w, behind
    <3>2. QED
      BY <1>2, <1>3, <1>4, <2>7, <2>8, <3>1, LimitKeepsOnWay
  <2>10. Printed'
    <3>1. Whole' = Whole
      BY WholeKept
    <3>2. Len(output') = curCnt'[Final] /\ curCnt'[Final] < Limit
      BY <1>1, <1>9, <1>10, <1>12, <1>14 DEF room
    <3>3. QED
      BY <1>3, <2>1, <3>1, <3>2 DEF Printed
  <2>11. QED
    BY <2>9, <2>10 DEF AnswerInv
<1>15. QED
  BY <1>13, <1>14

\* The EOS of LIMIT finds the whole answer printed.
LEMMA LimitEosKeepsAnswer ==
  ASSUME Inv, QInv, AnswerInv, UNCHANGED <<query, answer, sent>>, LimitLastEos(Final)
  PROVE  AnswerInv'
<1>1. Final \in Addr /\ Limit \in Nat /\ Count \in 1..Count /\ Final = Pipeline[Count]
  BY PipelineFacts
<1>2. PICK U : OnWay(U)
  BY DEF AnswerInv
<1>3. Delivered /\ Printed /\ output \in Seq(Node)
  BY DEF AnswerInv, Inv, TypeOK
<1>4. /\ Working(Final) /\ CancelMe(Final) /\ Head(inbox[Final]).kind = "EOS"
      /\ UNCHANGED <<mailbox, outPayload, curCnt, output>>
  BY DEF LimitLastEos
<1>5. inbox[Final] # <<>> /\ ~terminating[Final] /\ terminating'[Final]
  <2>1. inbox[Final] # <<>> /\ ~terminating[Final] /\ terminating'[Final] = TRUE
    BY <1>1, <1>4, TurnFacts
  <2>2. QED
    BY <2>1
<1>6. U[Count] = <<>> /\ output \o U[Count] = Whole
  <2>1. Feed(U, Count) = <<>>
    BY <1>1, <1>2, <1>4, <1>5, EosMeansEmpty
  <2>2. QED
    BY <1>1, <1>2, <1>5, <2>1 DEF OnWay
<1>7. output = Whole
  BY <1>3, <1>6, ConcatEmptySeq
<1>8. Len(output) <= Limit
  <2>1. curCnt[Final] \in Nat /\ Len(output) = curCnt[Final] /\ curCnt[Final] < Limit
    BY <1>1, <1>3, <1>5 DEF Printed, Inv, TypeOK
  <2>2. QED
    BY <1>1, <2>1
<1>9. Cut(Whole, Limit) = Whole
  BY <1>1, <1>3, <1>7, <1>8, CutFacts
<1>10. Printed'
  <2>1. Whole' = Whole
    BY WholeKept
  <2>2. QED
    BY <1>3, <1>4, <1>5, <1>7, <1>9, <2>1 DEF Printed
<1>11. (\E V : OnWay(V)') /\ Delivered'
  <2>1. PICK R : R = <<>>
    OBVIOUS
  <2>2. R \in Seq(Node)
    BY <2>1, EmptySeq
  <2>3. QED
    BY <1>2, <1>3, <1>4, <1>5, <2>2, LimitKeepsOnWay
<1>12. QED
  BY <1>10, <1>11 DEF AnswerInv

-----------------------------------------------------------------------------
(* The theorems. *)

LEMMA WorkKeepsAnswer ==
  ASSUME Inv, DoneOperatorsStop, QInv, AnswerInv, UNCHANGED <<query, answer, sent>>,
         NEW a \in Addr, DoWork(a)
  PROVE  AnswerInv'
<1>1. Working(a) /\ (CancelMe(a) \/ Available(a))
  BY DEF DoWork, OutData, OutLastEos, LimitDiscard, LimitData, LimitLastEos, EarlierEos,
         UndefinedData
<1>2. ~terminating[a]
  BY <1>1, TurnFacts
<1>3. OpCode[a] = "LIMIT" => a = Final
  <2>1. PICK k \in 1..Count : a = Pipeline[k]
    BY PipelineFacts
  <2>2. k # Count => OpCode[a] = "OUT"
    <3>1. k # Count => k \in 1..(Count - 1)
      BY PipelineFacts
    <3>2. QED
      BY <2>1, <3>1, PipelineFacts
  <2>3. QED
    BY <2>1, <2>2, PipelineFacts
<1>4. CASE OutData(a)
  BY <1>4, OutDataKeepsAnswer
<1>5. CASE OutLastEos(a)
  BY <1>5, OutEosKeepsAnswer
<1>6. CASE LimitDiscard(a)
  <2>1. OpCode[a] = "LIMIT" /\ ~LimitOpen(a)
    BY <1>6 DEF LimitDiscard
  <2>2. curCnt[a] > 0
    <3>1. curCnt[a] \in Nat /\ LimitCount[a] \in Nat /\ LimitCount[a] > 0
      BY <2>1, ChainFacts, NumberAssumption DEF Inv, TypeOK
    <3>2. QED
      BY <2>1, <3>1 DEF LimitOpen
  <2>3. QED
    BY <1>2, <2>1, <2>2 DEF DoneOperatorsStop
<1>7. CASE LimitData(a)
  <2>1. a = Final
    BY <1>3, <1>7 DEF LimitData
  <2>2. QED
    BY <1>7, <2>1, LimitDataKeepsAnswer
<1>8. CASE LimitLastEos(a)
  <2>1. a = Final
    BY <1>3, <1>8 DEF LimitLastEos
  <2>2. QED
    BY <1>8, <2>1, LimitEosKeepsAnswer
<1>9. CASE EarlierEos(a)
  <2>1. numRcvEos[a] = 0 /\ NumUpstreams = 1
    BY <1>2, PipelineFacts DEF QInv, Tame
  <2>2. OpCode[a] = "LIMIT" => Downstream[a] = NoAddr
    BY <1>3, PipelineFacts
  <2>3. QED
    BY <1>9, <2>1, <2>2 DEF EarlierEos, LastEos
<1>10. CASE UndefinedData(a)
  BY <1>10, UndefinedKeepsAnswer
<1>11. QED
  BY <1>4, <1>5, <1>6, <1>7, <1>8, <1>9, <1>10 DEF DoWork

\* Steps that move no message and change no operator.
LEMMA QuietKeepsAnswer ==
  ASSUME Inv, AnswerInv,
         UNCHANGED <<mailbox, inbox, terminating, opVars, query, answer, sent>>
  PROVE  AnswerInv'
<1>1. PICK U : OnWay(U)
  BY DEF AnswerInv
<1>2. \A k \in 1..Count : Waiting(Pipeline[k])' = Waiting(Pipeline[k])
  BY DEF Waiting
<1>3. OnWay(U)'
  BY <1>1, <1>2, StillOnWay DEF opVars
<1>4. Delivered' /\ Printed'
  BY PrintedKept DEF AnswerInv, Delivered, opVars
<1>5. QED
  BY <1>3, <1>4 DEF AnswerInv

LEMMA AnswerStep ==
  ASSUME Inv, DoneOperatorsStop, QInv, AnswerInv, [ClientNext]_cvars
  PROVE  AnswerInv'
<1>1. CASE UNCHANGED cvars
  BY <1>1, QuietKeepsAnswer DEF cvars, vars, actorVars, opVars
<1>2. CASE ClientEnqueue
  BY <1>2, EnqueueKeepsAnswer
<1>3. CASE ClientRun
  BY <1>3, QuietKeepsAnswer DEF ClientRun, RunAndDispose, stopVars
<1>4. CASE Engine /\ UNCHANGED <<query, answer, sent>>
  <2>1. CASE TaskLoop \/ MailboxEmpty
    BY <1>4, <2>1, QuietKeepsAnswer DEF TaskLoop, RunTask, TasksExpired, TasksDone,
       MailboxEmpty, stopVars, actorVars
  <2>2. CASE UserToLive \/ UserToAbsent \/ UserToDisabled
    BY <1>4, <2>2, MailboxKeepsAnswer
  <2>3. CASE CancelScope \/ DropControl
    BY <2>3, FirstMessage DEF CancelScope, DropControl, QInv
  <2>4. ASSUME NEW a \in Addr, DoWork(a)
        PROVE  AnswerInv'
    BY <1>4, <2>4, WorkKeepsAnswer
  <2>5. ASSUME NEW a \in Addr, Terminated(a) \/ Yield(a)
        PROVE  AnswerInv'
    BY <1>4, <2>5, QuietKeepsAnswer DEF Terminated, Yield, LeaveLoop
  <2>6. QED
    BY <1>4, <2>1, <2>2, <2>3, <2>4, <2>5 DEF Engine, ProcessMailbox, ActorRun
<1>5. QED
  BY <1>1, <1>2, <1>3, <1>4 DEF ClientNext, Client

LEMMA AnswerInitially == ClientInit => AnswerInv
<1> SUFFICES ASSUME ClientInit PROVE AnswerInv
  OBVIOUS
<1>1. /\ query \in Queries /\ sent = 0 /\ answer = Cut(Whole, Limit) /\ output = <<>>
      /\ curCnt[Final] = 0 /\ mailbox = <<>>
      /\ \A a \in Addr : inbox[a] = <<>> /\ ~terminating[a] /\ outPayload[a] = <<>>
  BY PipelineFacts DEF ClientInit, Init, Whole, Limit, Final
<1>2. Delivered
  <2>1. \A a \in Addr : Len(inbox[a]) = 0
    BY <1>1
  <2>2. QED
    BY <2>1 DEF Delivered
<1>3. Printed
  BY <1>1, PipelineFacts DEF Printed
<1>4. query \in Seq(Seq(Node)) /\ FlattenSeq(query) \in Seq(Node)
  BY <1>1, PipelineAssumption, FlattenType
<1>5. PICK f \in [0..(Count - 1) -> Seq(Node)] :
         /\ f[0] = FlattenSeq(query) /\ f[Count - 1] = Whole
         /\ \A i \in 1..(Count - 1) : f[i] = Expand(f[i - 1])
  BY <1>4, ReachedSteps DEF Whole
<1>6. PICK U : U = [k \in 1..Count |-> f[k - 1]]
  OBVIOUS
<1>7. Count \in Nat /\ Count > 1 /\ Count \in 1..Count
  BY PipelineFacts
<1>8. \A k \in 1..Count : k - 1 \in 0..(Count - 1) /\ U[k] = f[k - 1]
  BY <1>6, <1>7
<1>9. U \in [1..Count -> Seq(Node)]
  BY <1>6, <1>8
<1>10. \A a \in Addr : Waiting(a) = <<>>
  <2>1. \A a : DataTo(a, <<>>) = <<>>
    BY DEF DataTo, FlattenSeq
  <2>2. <<>> \o <<>> = <<>>
    BY ConcatEmptySeq, EmptySeq
  <2>3. QED
    BY <1>1, <2>1, <2>2 DEF Waiting
<1>11. Unsent = FlattenSeq(query)
  <2> DEFINE S == Seq(Node)
  <2>1. query \in Seq(S) /\ sent + 1 = 1
    BY <1>1, <1>4
  <2> HIDE DEF S
  <2>2. SubSeq(query, 1, Len(query)) = query
    BY <2>1, SubSeqFull
  <2>3. QED
    BY <2>1, <2>2 DEF Unsent
<1>12. ASSUME NEW k \in 1..Count
       PROVE  U[k] = Feed(U, k)
  <2>1. Waiting(Pipeline[k]) = <<>>
    BY <1>10, PipelineFacts
  <2>2. CASE k = 1
    <3>1. Feed(U, k) = <<>> \o FlattenSeq(query)
      BY <2>1, <2>2, <1>11 DEF Feed
    <3>2. <<>> \o FlattenSeq(query) = FlattenSeq(query)
      BY <1>4, ConcatEmptySeq
    <3>3. U[k] = f[0]
      BY <2>2, <1>8
    <3>4. QED
      BY <3>1, <3>2, <3>3, <1>5
  <2>3. CASE k # 1
    <3>1. k - 1 \in 1..Count /\ k - 1 \in 1..(Count - 1)
      BY <2>3, <1>7
    <3>2. U[k] = Expand(f[(k - 1) - 1]) /\ U[k - 1] = f[(k - 1) - 1]
      BY <3>1, <1>5, <1>8
    <3>3. outPayload[Pipeline[k - 1]] = <<>>
      BY <3>1, <1>1, PipelineFacts
    <3>4. Feed(U, k) = <<>> \o (<<>> \o U[k])
      BY <2>1, <2>3, <3>2, <3>3 DEF Feed
    <3>5. U[k] \in Seq(Node)
      BY <1>9
    <3>6. <<>> \o U[k] = U[k]
      BY <3>5, ConcatEmptySeq
    <3>7. QED
      BY <3>4, <3>6
  <2>4. QED
    BY <2>2, <2>3
<1>13. output \o U[Count] = Whole
  <2>1. U[Count] = Whole /\ U[Count] \in Seq(Node)
    BY <1>5, <1>7, <1>8, <1>9
  <2>2. QED
    BY <1>1, <2>1, ConcatEmptySeq
<1>14. \A k \in 1..(Count - 1) : ~terminating[Pipeline[k]]
  BY <1>1, PipelineFacts
<1>15. OnWay(U)
  BY <1>9, <1>12, <1>13, <1>14 DEF OnWay
<1>16. QED
  BY <1>2, <1>3, <1>15 DEF AnswerInv

LEMMA AnswerInvariance == ClientSpec => [](Inv /\ QInv /\ AnswerInv)
<1>1. Inv /\ DoneOperatorsStop /\ QInv /\ AnswerInv /\ [ClientNext]_cvars => AnswerInv'
  BY AnswerStep
<1>2. ClientSpec => [](Inv /\ DoneOperatorsStop /\ QInv)
  BY ClientIsHost, DoneOperatorsAreStopped, QueryInvariance, PTL
<1>3. QED
  BY <1>1, <1>2, AnswerInitially, PTL DEF ClientSpec

\* For every graph, chain of OUT operators, limit and query, and for every way
\* of cutting the data into payloads, slices and runs: no node of the answer is
\* lost, repeated or overtaken between the operators.
THEOREM AnswerStaysInSight == ClientSpec => []AnswerInSight
<1>1. ASSUME Inv, QInv, AnswerInv
      PROVE  AnswerInSight
  <2>1. CASE terminating[Final]
    BY <1>1, <2>1 DEF AnswerInv, Printed, AnswerInSight, Final
  <2>2. CASE ~terminating[Final]
    <3>1. PICK U : OnWay(U)
      BY <1>1 DEF AnswerInv
    <3>2. /\ U \in [1..Count -> Seq(Node)] /\ \A k \in 1..Count : U[k] = Feed(U, k)
          /\ output \o U[Count] = Whole
      BY <2>2, <3>1 DEF OnWay
    <3>3. Ahead = U[Count]
      BY <3>2, AheadFacts
    <3>4. answer = Cut(output \o Ahead, Limit)
      BY <1>1, <3>2, <3>3 DEF AnswerInv, Printed
    <3>5. QED
      BY <2>2, <3>4 DEF AnswerInSight, Final, Limit
  <2>3. QED
    BY <2>1, <2>2
<1>2. QED
  BY <1>1, AnswerInvariance, PTL

\* When the client returns, LIMIT has been told to stop, by its limit or by the EOS
\* that followed all data through the chain, and what it has printed is the
\* answer: for every graph, chain of OUT operators, limit and query.
THEOREM AnswerIsThereOnReturn == ClientSpec => []AnswerOnReturn
<1>1. ASSUME Inv, QInv, QuietWhenIdle, AnswerInv
      PROVE  AnswerOnReturn
  <2> SUFFICES ASSUME Returned
               PROVE  output = answer
    BY DEF AnswerOnReturn
  <2>1. \A a \in Addr : inbox[a] = <<>>
    BY <1>1 DEF Returned, QuietWhenIdle
  <2>2. \A a \in Addr : terminating[a]
    BY <1>1, <2>1, AllStopped DEF Returned
  <2>3. terminating[Final]
    BY <2>2, PipelineFacts
  <2>4. QED
    BY <1>1, <2>3 DEF AnswerInv, Printed
<1>2. QED
  BY <1>1, AnswerInvariance, QueryInvariance, PTL

-----------------------------------------------------------------------------
(* The client gets what Traversal allows, and nothing else. *)

\* The query has ended: every operator is deleted.
Over == \A i \in 1..Len(Pipeline) : life[Pipeline[i]] = "freed"

\* Only LIMIT prints, while it is alive, and it never takes back a node.
LEMMA OutputGrows ==
  ASSUME Inv, QInv, Begun, [ClientNext]_cvars
  PROVE  /\ answer' = answer
         /\ \/ output' = output
            \/ Len(output') >= Len(output) /\ ~Over /\ ~Over'
<1>1. answer' = answer
  BY DEF ClientNext, Client, ClientEnqueue, ClientRun, cvars
<1>2. ASSUME UNCHANGED output
      PROVE  output' = output
  BY <1>2
<1>3. CASE UNCHANGED cvars
  BY <1>1, <1>3 DEF cvars, vars, opVars
<1>4. CASE Client
  BY <1>1, <1>4 DEF Client, ClientEnqueue, ClientRun, HostEnqueue, RunAndDispose, opVars
<1>5. CASE Engine
  <2>1. CASE ProcessMailbox \/ TaskLoop
    BY <1>1, <2>1 DEF ProcessMailbox, UserToLive, UserToAbsent, UserToDisabled, CancelScope,
       DropControl, MailboxEmpty, TaskLoop, RunTask, TasksExpired, TasksDone, opVars
  <2>2. ASSUME NEW a \in Addr, Terminated(a) \/ Yield(a)
        PROVE  output' = output
    BY <2>2 DEF Terminated, Yield, LeaveLoop, opVars
  <2>3. ASSUME NEW a \in Addr, DoWork(a), ~LimitData(a)
        PROVE  output' = output
    BY <2>3 DEF DoWork, OutData, OutLastEos, LimitDiscard, LimitLastEos, EarlierEos,
       UndefinedData, opVars
  <2>4. ASSUME NEW a \in Addr, LimitData(a)
        PROVE  Len(output') >= Len(output) /\ ~Over /\ ~Over'
    <3> DEFINE d == Head(inbox[a]).data
               room == LimitCount[a] - curCnt[a]
               n == IF Len(d) < room THEN Len(d) ELSE room
               s == SubSeq(d, 1, n)
    <3>1. Working(a) /\ LimitOpen(a) /\ output' = output \o s
      BY <2>4 DEF LimitData
    <3>2. inbox[a] # <<>> /\ UNCHANGED life
      BY <3>1 DEF Working
    <3>3. life[a] = "alive" /\ life'[a] = "alive"
      BY <3>2 DEF Inv, Consistent, NoLostWakeUp
    <3>4. ~Over /\ ~Over'
      BY <3>3, PipelineFacts DEF Over, Count
    <3>5. d \in Seq(Node)
      BY <2>4, <3>1, WorkingType DEF Inv
    <3>6. n \in Nat /\ n <= Len(d)
      <4>1. /\ Len(d) \in Nat /\ curCnt[a] \in Nat /\ LimitCount[a] \in Nat
            /\ curCnt[a] < LimitCount[a]
        BY <3>1, <3>5, LenProperties, NumberAssumption DEF LimitOpen, Inv, TypeOK
      <4> HIDE DEF d
      <4>2. QED
        BY <4>1
    <3> HIDE DEF d, n
    <3>7. s \in Seq(Node)
      <4>1. \A i \in 1..n : d[i] \in Node
        BY <3>5, <3>6, ElementOfSeq
      <4>2. QED
        BY <3>6, <4>1, SubSeqProperties
    <3> HIDE DEF s
    <3>8. Len(output \o s) = Len(output) + Len(s) /\ Len(output) \in Nat /\ Len(s) \in Nat
      BY <3>7, ConcatProperties, LenProperties DEF Begun
    <3>9. QED
      BY <3>1, <3>4, <3>8
  <2>5. QED
    BY <1>1, <1>5, <2>1, <2>2, <2>3, <2>4 DEF Engine, ActorRun
<1>6. QED
  BY <1>3, <1>4, <1>5 DEF ClientNext

\* A query that is over stays over, and all of its answer was returned before.
LEMMA EndsOnce ==
  ASSUME Inv, Inv', QInv', Begun', [Next]_vars
  PROVE  (Over => Over') /\ (Over' => output' = answer')
<1>1. ASSUME Over PROVE Over'
  <2>1. ASSUME NEW i \in 1..Count PROVE life'[Pipeline[i]] = "freed"
    <3> DEFINE a == Pipeline[i]
    <3>1. a \in Addr /\ life[a] = "freed"
      BY <1>1, PipelineFacts DEF Over, Count
    <3>2. tree[a] # "absent"
      BY <3>1 DEF Inv, Consistent, IndexSound
    <3>3. Guarded(a)
      BY <3>1, StepGuarded
    <3>4. QED
      BY <3>1, <3>2, <3>3 DEF Guarded
  <2>2. QED
    BY <2>1 DEF Over, Count
<1>2. ASSUME Over' PROVE output' = answer'
  <2>1. Final \in Addr /\ life'[Final] = "freed"
    BY <1>2, PipelineFacts DEF Over, Count
  <2>2. tree'[Final] = "disabled"
    BY <2>1 DEF Inv, TypeOK, Consistent, IndexSound
  <2>3. terminating'[Final]
    BY <2>1, <2>2 DEF QInv, Tame
  <2>4. QED
    BY <2>3 DEF Begun
<1>3. QED
  BY <1>1, <1>2

LEMMA TraversalStep ==
  ASSUME Inv, Inv', QInv, QInv', Begun, Begun', [Next]_vars, [ClientNext]_cvars
  PROVE  [Query!Next]_(Query!tvars)
<1>1. /\ answer' = answer
      /\ output' = output \/ (Len(output') >= Len(output) /\ ~Over /\ ~Over')
  BY OutputGrows
<1>2. (Over => Over') /\ (Over' => output' = answer')
  BY EndsOnce
<1>3. /\ Len(output) \in Nat /\ Len(output') \in Nat /\ Len(answer) \in Nat
      /\ output = SubSeq(answer, 1, Len(output))
      /\ output' = SubSeq(answer, 1, Len(output')) /\ Len(output') <= Len(answer)
  BY <1>1, LenProperties DEF Begun
<1>4. CASE output' # output
  <2>1. Len(output') >= Len(output) /\ ~Over /\ ~Over'
    BY <1>1, <1>4
  <2>2. Len(output') # Len(output)
    BY <1>3, <1>4
  <2>3. Len(output') \in (Len(output) + 1)..Len(answer)
    <3>1. \A j, k, l \in Nat : j >= k /\ j # k /\ j <= l => j \in (k + 1)..l
      OBVIOUS
    <3>2. Len(output) \in Nat /\ Len(output') \in Nat /\ Len(answer) \in Nat
      BY <1>3
    <3>3. QED
      BY <1>3, <2>1, <2>2, <3>1, <3>2, Zenon
  <2>4. \E n \in (Len(output) + 1)..Len(answer) : output' = SubSeq(answer, 1, n)
    BY <1>3, <2>3
  <2>5. Query!Return
    BY <1>1, <2>1, <2>4 DEF Query!Return, Over
  <2>6. QED
    BY <2>5 DEF Query!Next
<1>5. CASE output' = output /\ Over' /\ ~Over
  <2>1. output = answer
    BY <1>1, <1>2, <1>5
  <2>2. Query!Finish
    BY <1>1, <1>5, <2>1 DEF Query!Finish, Over
  <2>3. QED
    BY <2>2 DEF Query!Next
<1>6. CASE output' = output /\ (Over => Over') /\ (Over' => Over)
  BY <1>1, <1>6 DEF Query!tvars, Over
<1>7. QED
  BY <1>2, <1>4, <1>5, <1>6

LEMMA TraversalInitially ==
  ASSUME ClientInit, Begun
  PROVE  Query!Init
<1>1. output = <<>> /\ \A a \in Addr : life[a] = "none"
  BY DEF ClientInit, Init
<1>2. ~Over
  BY <1>1, PipelineFacts DEF Over, Count
<1>3. QED
  BY <1>1, <1>2 DEF Begun, Query!Init, Over

\* The safety half of ImplementsTraversal, for every chain, graph and query: what
\* LIMIT has printed is at every moment the beginning of the answer, it is never
\* taken back, and the whole answer is there when the last operator is deleted.
THEOREM OnlyTheAnswerReturns == ClientSpec => Query!Safe
<1>1. ClientSpec => [](Inv /\ QInv /\ Begun)
  <2>1. Inv /\ QInv /\ AnswerInv => Begun
    BY PrintedBegins
  <2>2. QED
    BY <2>1, AnswerInvariance, PTL
<1>2. Inv /\ Inv' /\ QInv /\ QInv' /\ Begun /\ Begun' /\ [Next]_vars /\ [ClientNext]_cvars
        => [Query!Next]_(Query!tvars)
  BY TraversalStep
<1>3. ClientInit /\ Begun => Query!Init
  BY TraversalInitially
<1>4. QED
  BY <1>1, <1>2, <1>3, ClientIsHost, PTL DEF ClientSpec, Spec, Query!Safe

-----------------------------------------------------------------------------
(* The client ends. *)

\* The pipeline lists the operators in an order in which results go forward.
LEMMA ChainIsAcyclic == Acyclic
<1>1. Pipeline \in Seq(Addr) /\ ToSet(Pipeline) = Addr
  BY PipelineAssumption
<1>2. ASSUME NEW i \in 1..Len(Pipeline), NEW j \in 1..Len(Pipeline),
             Downstream[Pipeline[i]] = Pipeline[j]
      PROVE  i < j
  <2>1. i \in 1..Count /\ j \in 1..Count
    BY DEF Count
  <2>2. CASE i = Count
    <3>1. Downstream[Pipeline[i]] \in Addr
      BY <1>2, <2>1, PipelineFacts
    <3>2. QED
      BY <2>2, <3>1, PipelineFacts, PlanAssumption
  <2>3. CASE i # Count
    <3>1. i \in 1..(Count - 1) /\ i + 1 \in 1..Count
      BY <2>1, <2>3, PipelineFacts
    <3>2. Pipeline[i + 1] = Pipeline[j]
      BY <1>2, <3>1, PipelineFacts
    <3>3. i + 1 = j
      BY <2>1, <3>1, <3>2, PipelineFacts
    <3>4. QED
      BY <2>1, <3>3
  <2>4. QED
    BY <2>2, <2>3
<1>3. QED
  BY <1>1, <1>2 DEF Acyclic

\* For every chain, graph and query: a step of the client's program that enqueues
\* nothing lowers the measure, in a run and between two of them.  The script is
\* finite (InScript) and nothing descends for ever (DescentEnds), so the program
\* has no infinite behaviour, whatever the payloads and the slices.
THEOREM ClientEnds == ClientSpec => ClientDescends /\ []InScript /\ [](Measure \in Measures)
<1>1. Inv /\ Inv' /\ InScript /\ [ClientNext]_cvars
        => [sent' > sent \/ Lower(Measure', Measure)]_cvars
  <2> SUFFICES ASSUME Inv, Inv', InScript, ClientNext
               PROVE  sent' > sent \/ Lower(Measure', Measure)
    OBVIOUS
  <2>1. CASE ClientEnqueue
    <3>1. sent \in Nat
      BY ScriptFacts DEF InScript
    <3>2. QED
      BY <2>1, <3>1 DEF ClientEnqueue
  <2>2. CASE ClientRun
    <3>1. pc = "idle" /\ pc' = "mailbox" /\ mailbox # <<>>
      BY <2>2 DEF ClientRun, RunAndDispose
    <3>2. UNCHANGED <<mailbox, inbox, taskQueue>>
      BY <2>2 DEF ClientRun, RunAndDispose, stopVars
    <3>3. Scheduled' = Scheduled
      BY <3>1, <3>2 DEF Scheduled
    <3>4. Turn' < Turn
      BY <3>1, <3>2 DEF Turn
    <3>5. QED
      BY <3>2, <3>3, <3>4, RestDescends
  <2>3. CASE Engine
    BY <2>3, ChainIsAcyclic, EngineDescends DEF Inv
  <2>4. QED
    BY <2>1, <2>2, <2>3 DEF ClientNext, Client
<1>2. Inv => Measure \in Measures
  BY MeasureType DEF Inv
<1>3. ClientSpec => [](Inv /\ InScript)
  BY ClientIsHost, Invariance, PTL
<1>4. QED
  BY <1>1, <1>2, <1>3, PTL DEF ClientSpec, ClientDescends
=============================================================================
