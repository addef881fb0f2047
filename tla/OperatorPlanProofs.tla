------------------------ MODULE OperatorPlanProofs ------------------------
(***************************************************************************)
(* Proofs about OperatorPlan.  The address of a place spells the path to   *)
(* it, field after field; the walk over the bytes of a buffer therefore    *)
(* follows that path, and every address the dataflow computes is the       *)
(* address of a place again.                                               *)
(***************************************************************************)
EXTENDS OperatorPlan, SequenceFacts

Byte == 0..255
Short == 0..65535

-----------------------------------------------------------------------------
(* Fields and addresses. *)

\* The length of an address that fits in a buffer is a byte.
LEMMA LengthIsByte ==
  /\ MaxAddrLen \in Nat /\ 0 \in Byte /\ Unset \notin Byte
  /\ \A l \in Nat : l < MaxAddrLen => l \in Byte
<1>1. MaxAddrLen \in 1..256 /\ Unset \notin Byte
  BY WidthAssumption, SMT DEF Byte
<1>2. MaxAddrLen \in Nat /\ MaxAddrLen <= 256
  BY <1>1, SMT
<1>3. ASSUME NEW l \in Nat, l < MaxAddrLen PROVE l \in Byte
  BY <1>2, <1>3, SMT DEF Byte
<1>4. 0 \in Byte
  BY SMT DEF Byte
<1>5. QED
  BY <1>1, <1>2, <1>3, <1>4

\* An id fits in its field.
LEMMA IdIsShort ==
  ASSUME NEW i \in Id
  PROVE  i \in Short
BY SMT DEF Id, Short

\* The two bytes of an id are bytes, and spell it.
LEMMA IdFieldFacts ==
  ASSUME NEW i \in Short
  PROVE  /\ IdField(i) \in Seq(Byte) /\ Len(IdField(i)) = 2
         /\ IdField(i)[1] + 256 * IdField(i)[2] = i
<1>1. i % 256 \in Byte /\ i \div 256 \in Byte /\ (i % 256) + 256 * (i \div 256) = i
  BY SMT DEF Byte, Short
<1>2. QED
  BY <1>1 DEF IdField

\* A field of an address: an id and a branch in six bytes.
LEMMA FieldFacts ==
  ASSUME NEW i \in Id, NEW b \in BranchId
  PROVE  LET field == IdField(i) \o BranchField(b) IN
         /\ field \in Seq(Byte) /\ Len(field) = 6
         /\ field[1] + 256 * field[2] = i
<1> DEFINE low == b % 65536
           high == b \div 65536
<1>1. BranchField(b) = IdField(low) \o IdField(high)
  BY SMT DEF BranchField
<1>2. i \in Short /\ low \in Short /\ high \in Short
  <2>1. i \in Short
    BY IdIsShort
  <2>2. b \in Nat /\ b \div 65536 < 65536
    BY WidthAssumption, SMT
  <2> DEFINE top == 65535
  <2>3. Short = 0..top /\ top \in Nat
    BY DEF Short
  <2>4. low \in Nat /\ low <= top /\ high \in Nat /\ high <= top
    BY <2>2, SMT
  <2> HIDE DEF low, high, top
  <2>5. QED
    BY <2>1, <2>3, <2>4
<1> HIDE DEF low, high
<1> DEFINE lower == IdField(low)
           upper == IdField(high)
           number == IdField(i)
<1>4. /\ lower \in Seq(Byte) /\ Len(lower) = 2
      /\ upper \in Seq(Byte) /\ Len(upper) = 2
      /\ number \in Seq(Byte) /\ Len(number) = 2 /\ number[1] + 256 * number[2] = i
  <2> DEFINE Good(j) == /\ IdField(j) \in Seq(Byte) /\ Len(IdField(j)) = 2
                        /\ IdField(j)[1] + 256 * IdField(j)[2] = j
  <2>1. \A j \in Short : Good(j)
    BY IdFieldFacts
  <2>2. Good(low) /\ Good(high) /\ Good(i)
    <3> HIDE DEF Good
    <3> QED
      BY <1>2, <2>1, Zenon
  <2>3. QED
    BY <2>2, Zenon
<1>5. BranchField(b) = lower \o upper
  BY <1>1
<1> HIDE DEF lower, upper, number
<1>6. lower \o upper \in Seq(Byte) /\ Len(lower \o upper) = 4
  <2>1. /\ lower \o upper \in Seq(Byte)
        /\ Len(lower \o upper) = Len(lower) + Len(upper)
    BY <1>4, ConcatProperties
  <2>2. QED
    BY <2>1, <1>4
<1> DEFINE branch == BranchField(b)
<1>7. branch \in Seq(Byte) /\ Len(branch) = 4
  BY <1>5, <1>6
<1> HIDE DEF branch
<1>8. /\ number \o branch \in Seq(Byte)
      /\ Len(number \o branch) = Len(number) + Len(branch)
      /\ \A j \in 1..Len(number) + Len(branch) :
            (number \o branch)[j] = IF j <= Len(number) THEN number[j]
                                    ELSE branch[j - Len(number)]
  BY <1>4, <1>7, ConcatProperties
<1>9. /\ Len(number \o branch) = 6
      /\ (number \o branch)[1] = number[1] /\ (number \o branch)[2] = number[2]
  BY <1>4, <1>7, <1>8
<1>10. QED
  BY <1>4, <1>8, <1>9 DEF number, branch

\* All of an address but the id at its end.
Upstream(o) ==
    DataflowId \o FlattenSeq([i \in DOMAIN o.scope |->
                                IdField(o.scope[i][1]) \o BranchField(o.scope[i][2])])

\* What leads to a place has two bytes for the dataflow and six for every group.
LEMMA UpstreamFacts ==
  ASSUME NEW nodes, NEW path \in Seq(Id), Len(path) >= 1,
         NEW branches \in [1..(Len(path) - 1) -> BranchId]
  PROVE  LET u == Upstream(PlaceAt(nodes, path, branches)) IN
         /\ u \in Seq(Byte) /\ Len(u) = 6 * Len(path) - 4
         /\ \A k \in 1..(Len(path) - 1) :
               u[6 * k - 3] + 256 * u[6 * k - 2] = path[k]
<1> DEFINE n == Len(path) - 1
           fields == [i \in 1..n |-> IdField(path[i]) \o BranchField(branches[i])]
           flat == FlattenSeq(fields)
           u == DataflowId \o flat
<1>1. n \in Nat /\ Len(path) = n + 1 /\ \A k \in 1..n : path[k] \in Id
  BY DEF n
<1>2. \A k \in 1..n : /\ fields[k] \in Seq(Byte) /\ Len(fields[k]) = 6
                      /\ fields[k][1] + 256 * fields[k][2] = path[k]
  <2> SUFFICES ASSUME NEW k \in 1..n
               PROVE  /\ fields[k] \in Seq(Byte) /\ Len(fields[k]) = 6
                      /\ fields[k][1] + 256 * fields[k][2] = path[k]
    OBVIOUS
  <2>1. path[k] \in Id /\ branches[k] \in BranchId
    BY <1>1
  <2>2. fields[k] = IdField(path[k]) \o BranchField(branches[k])
    OBVIOUS
  <2>3. QED
    BY <2>1, <2>2, FieldFacts
<1>3. fields \in Seq(Seq(Byte)) /\ Len(fields) = n
  <2> HIDE DEF n
  <2>1. fields \in [1..n -> Seq(Byte)]
    BY <1>2
  <2>2. QED
    BY <1>1, <2>1
<1>4. Upstream(PlaceAt(nodes, path, branches)) = u
  <2> DEFINE scope == PlaceAt(nodes, path, branches).scope
  <2>1. scope = [i \in 1..n |-> <<path[i], branches[i]>>]
    BY DEF PlaceAt
  <2>2. DOMAIN scope = 1..n /\ \A i \in 1..n : scope[i][1] = path[i] /\ scope[i][2] = branches[i]
    BY <2>1
  <2> HIDE DEF scope, n
  <2>3. [i \in DOMAIN scope |-> IdField(scope[i][1]) \o BranchField(scope[i][2])] = fields
    BY <2>2
  <2>4. QED
    BY <2>3 DEF Upstream, scope
<1> HIDE DEF n, fields
<1>5. /\ flat \in Seq(Byte) /\ Len(flat) = 6 * n
      /\ \A k \in 1..n : \A j \in 1..6 : flat[6 * (k - 1) + j] = fields[k][j]
  <2>1. FlattenSeq(fields) \in Seq(Byte)
    BY <1>3, FlattenType, Zenon
  <2>2. \A k \in 1..Len(fields) : Len(fields[k]) = 6
    BY <1>2, <1>3, Zenon
  <2>3. /\ Len(FlattenSeq(fields)) = 6 * Len(fields)
        /\ \A k \in 1..Len(fields) : \A j \in 1..6 :
              FlattenSeq(fields)[6 * (k - 1) + j] = fields[k][j]
    BY <1>3, <2>2, FlattenSixes, Zenon
  <2>4. QED
    BY <1>3, <2>1, <2>3, Zenon
<1>6. DataflowId \in Seq(Byte) /\ Len(DataflowId) = 2
  <2> DEFINE m == 2
  <2>1. DataflowId \in [1..m -> Byte] /\ m \in Nat
    BY WidthAssumption, SMT DEF Byte
  <2> HIDE DEF m
  <2>2. DataflowId \in Seq(Byte) /\ Len(DataflowId) = m
    BY <2>1
  <2>3. QED
    BY <2>2 DEF m
<1> HIDE DEF flat
<1>7. /\ u \in Seq(Byte) /\ Len(u) = 6 * n + 2
      /\ \A i \in 1..6 * n : u[i + 2] = flat[i]
  <2>1. /\ DataflowId \o flat \in Seq(Byte)
        /\ Len(DataflowId \o flat) = Len(DataflowId) + Len(flat)
        /\ \A i \in 1..Len(DataflowId) + Len(flat) :
              (DataflowId \o flat)[i] = IF i <= Len(DataflowId) THEN DataflowId[i]
                                        ELSE flat[i - Len(DataflowId)]
    BY <1>5, <1>6, ConcatProperties
  <2>2. ASSUME NEW i \in 1..6 * n PROVE u[i + 2] = flat[i]
    <3>1. 6 * n \in Nat
      BY <1>1, SMT
    <3>2. i + 2 \in 1..2 + 6 * n /\ ~(i + 2 <= 2) /\ (i + 2) - 2 = i
      BY <3>1, SMT
    <3>3. i + 2 \in 1..Len(DataflowId) + Len(flat)
      BY <3>2, <1>5, <1>6
    <3>4. u[i + 2] = IF i + 2 <= Len(DataflowId) THEN DataflowId[i + 2]
                     ELSE flat[(i + 2) - Len(DataflowId)]
      BY <2>1, <3>3
    <3>5. QED
      BY <3>4, <3>2, <1>6
  <2>3. Len(u) = 6 * n + 2
    BY <2>1, <1>1, <1>5, <1>6
  <2>4. QED
    BY <2>1, <2>2, <2>3
<1> HIDE DEF u
<1>8. ASSUME NEW k \in 1..n PROVE u[6 * k - 3] + 256 * u[6 * k - 2] = path[k]
  <2>1. /\ 6 * (k - 1) + 1 \in 1..6 * n /\ (6 * (k - 1) + 1) + 2 = 6 * k - 3
        /\ 6 * (k - 1) + 2 \in 1..6 * n /\ (6 * (k - 1) + 2) + 2 = 6 * k - 2
    BY <1>1
  <2>2. u[6 * k - 3] = flat[6 * (k - 1) + 1] /\ u[6 * k - 2] = flat[6 * (k - 1) + 2]
    BY <2>1, <1>7
  <2>3. flat[6 * (k - 1) + 1] = fields[k][1] /\ flat[6 * (k - 1) + 2] = fields[k][2]
    BY <1>5
  <2>4. QED
    BY <2>2, <2>3, <1>2
<1>9. 6 * n + 2 = 6 * Len(path) - 4 /\ 1..n = 1..(Len(path) - 1)
  BY <1>1
<1>10. QED
  BY <1>4, <1>7, <1>8, <1>9

\* An address spells a path when the id in front of every branch, and the one at
\* the end, are the ids of the path.
Spells(a, path) ==
    \A k \in 1..Len(path) : a[6 * k - 3] + 256 * a[6 * k - 2] = path[k]

\* The address of a place spells its path, field after field.
LEMMA AddressFacts ==
  ASSUME NEW nodes, NEW path \in Seq(Id), Len(path) >= 1,
         NEW branches \in [1..(Len(path) - 1) -> BranchId]
  PROVE  LET o == PlaceAt(nodes, path, branches)
             a == Address(o)
         IN  /\ a \in Seq(Byte) /\ Len(a) = 6 * Len(path) - 2
             /\ Spells(a, path)
             /\ SubSeq(a, 1, Len(a) - 2) = Upstream(o)
<1> DEFINE o == PlaceAt(nodes, path, branches)
           a == Address(o)
           u == Upstream(o)
           id == IdField(path[Len(path)])
           n == Len(path)
<1>1. a = u \o id
  BY DEF Address, Upstream, PlaceAt
<1>2. /\ u \in Seq(Byte) /\ Len(u) = 6 * n - 4
      /\ \A k \in 1..(n - 1) : u[6 * k - 3] + 256 * u[6 * k - 2] = path[k]
  BY UpstreamFacts
<1>3. id \in Seq(Byte) /\ Len(id) = 2 /\ id[1] + 256 * id[2] = path[n]
  <2>1. path[n] \in Id
    OBVIOUS
  <2> HIDE DEF n
  <2>2. path[n] \in Short
    BY <2>1, IdIsShort
  <2>3. QED
    BY <2>2, IdFieldFacts DEF n
<1>4. n \in Nat /\ n >= 1
  OBVIOUS
<1> HIDE DEF a, u, id, n
<1>5. /\ u \o id \in Seq(Byte)
      /\ Len(u \o id) = Len(u) + Len(id)
      /\ \A i \in 1..Len(u) + Len(id) :
            (u \o id)[i] = IF i <= Len(u) THEN u[i] ELSE id[i - Len(u)]
  BY <1>2, <1>3, ConcatProperties
<1>6. /\ a \in Seq(Byte) /\ Len(a) = 6 * n - 2
      /\ \A i \in 1..(6 * n - 2) : a[i] = IF i <= 6 * n - 4 THEN u[i] ELSE id[i - (6 * n - 4)]
  <2>1. Len(u) = 6 * n - 4 /\ Len(u) + Len(id) = 6 * n - 2
    BY <1>2, <1>3, <1>4
  <2>2. QED
    BY <2>1, <1>1, <1>5
<1>7. ASSUME NEW k \in 1..n PROVE a[6 * k - 3] + 256 * a[6 * k - 2] = path[k]
  <2>1. CASE k = n
    <3>1. 6 * n - 3 \in 1..(6 * n - 2) /\ 6 * n - 2 \in 1..(6 * n - 2)
      BY <1>4
    <3>2. a[6 * n - 3] = id[1] /\ a[6 * n - 2] = id[2]
      BY <3>1, <1>4, <1>6
    <3>3. QED
      BY <3>2, <1>3, <2>1
  <2>2. CASE k # n
    <3>1. k \in 1..(n - 1)
      BY <1>4, <2>2
    <3>2. /\ 6 * k - 3 \in 1..(6 * n - 2) /\ 6 * k - 3 <= 6 * n - 4
          /\ 6 * k - 2 \in 1..(6 * n - 2) /\ 6 * k - 2 <= 6 * n - 4
      BY <1>4, <3>1
    <3>3. a[6 * k - 3] = u[6 * k - 3] /\ a[6 * k - 2] = u[6 * k - 2]
      BY <1>6, <3>2
    <3>4. QED
      BY <1>2, <3>1, <3>3
  <2>3. QED
    BY <2>1, <2>2
<1>8. SubSeq(a, 1, Len(a) - 2) = u
  <2>1. Len(a) - 2 = 6 * n - 4 /\ Len(a) - 2 \in Int /\ \A i \in 1..(Len(a) - 2) : a[i] \in Byte
    BY <1>4, <1>6
  <2>2. /\ SubSeq(a, 1, Len(a) - 2) \in Seq(Byte)
        /\ Len(SubSeq(a, 1, Len(a) - 2)) = IF 1 <= Len(a) - 2 THEN (Len(a) - 2) - 1 + 1 ELSE 0
        /\ \A i \in 1..((Len(a) - 2) - 1 + 1) : SubSeq(a, 1, Len(a) - 2)[i] = a[1 + i - 1]
    BY <2>1, SubSeqProperties
  <2> DEFINE t == SubSeq(a, 1, Len(a) - 2)
  <2>3. t \in Seq(Byte) /\ Len(t) = 6 * n - 4 /\ \A i \in 1..(6 * n - 4) : t[i] = a[i]
    BY <2>1, <2>2, <1>4
  <2> HIDE DEF t
  <2>4. \A i \in 1..(6 * n - 4) : a[i] = u[i]
    BY <1>4, <1>6
  <2>5. t = u
    BY <2>3, <2>4, <1>2, SeqEqual
  <2>6. QED
    BY <2>5 DEF t
<1>9. QED
  BY <1>6, <1>7, <1>8 DEF a, u, n, Spells

\* A buffer holds the length of an address, the address, and zeros; the address
\* is read back from it.
LEMMA BufferFacts ==
  ASSUME NEW a \in Seq(Byte), Len(a) < MaxAddrLen
  PROVE  /\ Buffer(a) \in Seq(Byte) /\ Len(Buffer(a)) = MaxAddrLen
         /\ Buffer(a)[1] = Len(a)
         /\ \A i \in 1..Len(a) : Buffer(a)[i + 1] = a[i]
         /\ AddressIn(Buffer(a)) = a
<1> DEFINE l == Len(a)
           rest == MaxAddrLen - 1 - l
           zeros == [i \in 1..rest |-> 0]
           front == <<l>> \o a
           b == Buffer(a)
<1>1. /\ l \in Nat /\ rest \in Nat /\ l + 1 + rest = MaxAddrLen
      /\ 0 \in Byte /\ l \in Byte
  <2>1. l \in Nat /\ l < MaxAddrLen /\ MaxAddrLen \in Nat
    BY LengthIsByte
  <2> HIDE DEF l, b
  <2>2. rest \in Nat /\ l + 1 + rest = MaxAddrLen
    BY <2>1
  <2>3. QED
    BY <2>1, <2>2, LengthIsByte
<1>2. b = front \o zeros
  BY DEF Buffer
<1> HIDE DEF l, rest, b
<1>3. zeros \in Seq(Byte) /\ Len(zeros) = rest
  BY <1>1
<1>4. <<l>> \in Seq(Byte) /\ Len(<<l>>) = 1 /\ <<l>>[1] = l
  BY <1>1
<1> HIDE DEF zeros
<1>5. /\ front \in Seq(Byte) /\ Len(front) = l + 1 /\ front[1] = l
      /\ \A i \in 1..l : front[i + 1] = a[i]
  <2>1. /\ <<l>> \o a \in Seq(Byte) /\ Len(<<l>> \o a) = Len(<<l>>) + Len(a)
        /\ \A i \in 1..Len(<<l>>) + Len(a) :
              (<<l>> \o a)[i] = IF i <= Len(<<l>>) THEN <<l>>[i] ELSE a[i - Len(<<l>>)]
    BY <1>4, ConcatProperties
  <2>2. Len(a) = l
    BY DEF l
  <2>3. \A i \in 1..l : i + 1 \in 1..(1 + l) /\ ~(i + 1 <= 1) /\ (i + 1) - 1 = i
    BY <1>1
  <2>4. \A i \in 1..(1 + l) : front[i] = IF i <= 1 THEN <<l>>[i] ELSE a[i - 1]
    BY <2>1, <2>2, <1>4
  <2> HIDE DEF front
  <2>5. \A i \in 1..l : front[i + 1] = a[i]
    BY <2>3, <2>4
  <2>6. front[1] = l
    BY <1>1, <1>4, <2>4
  <2>7. front \in Seq(Byte) /\ Len(front) = l + 1
    BY <2>1, <2>2, <1>4, <1>1 DEF front
  <2>8. QED
    BY <2>5, <2>6, <2>7
<1> HIDE DEF front
<1>6. /\ b \in Seq(Byte) /\ Len(b) = MaxAddrLen
      /\ \A i \in 1..(l + 1) : b[i] = front[i]
  <2>1. /\ front \o zeros \in Seq(Byte) /\ Len(front \o zeros) = Len(front) + Len(zeros)
        /\ \A i \in 1..Len(front) + Len(zeros) :
              (front \o zeros)[i] = IF i <= Len(front) THEN front[i] ELSE zeros[i - Len(front)]
    BY <1>3, <1>5, ConcatProperties
  <2>2. QED
    BY <2>1, <1>1, <1>2, <1>3, <1>5
<1>7. b[1] = l
  BY <1>1, <1>5, <1>6
<1>8. \A i \in 1..l : b[i + 1] = a[i]
  BY <1>1, <1>5, <1>6
<1>9. SubSeq(b, 2, 1 + l) = a
  <2>1. 1 + l \in Int /\ \A i \in 2..(1 + l) : b[i] \in Byte
    <3>1. 2..(1 + l) \subseteq 1..Len(b)
      BY <1>1, <1>6
    <3>2. QED
      BY <3>1, <1>1, <1>6
  <2> DEFINE t == SubSeq(b, 2, 1 + l)
  <2>2. /\ t \in Seq(Byte)
        /\ Len(t) = IF 2 <= 1 + l THEN (1 + l) - 2 + 1 ELSE 0
        /\ \A i \in 1..((1 + l) - 2 + 1) : t[i] = b[2 + i - 1]
    BY <2>1, SubSeqProperties
  <2> HIDE DEF t
  <2>3. Len(t) = l
    BY <2>2, <1>1
  <2>4. \A i \in 1..l : t[i] = b[i + 1]
    BY <2>2, <1>1
  <2>5. \A i \in 1..l : t[i] = a[i]
    BY <2>4, <1>8
  <2>6. t = a
    BY <2>2, <2>3, <2>5, SeqEqual DEF l
  <2>7. QED
    BY <2>6 DEF t
<1>10. QED
  BY <1>6, <1>7, <1>8, <1>9 DEF AddressIn, l, b

-----------------------------------------------------------------------------
(* The walk. *)

\* The first k ids of a path.
FirstIds(path, k) == SubSeq(path, 1, k)

LEMMA FirstIdsFacts ==
  ASSUME NEW path \in Seq(Id), NEW k \in 0..Len(path)
  PROVE  /\ FirstIds(path, k) \in Seq(Id) /\ Len(FirstIds(path, k)) = k
         /\ \A j \in 1..k : FirstIds(path, k)[j] = path[j]
         /\ FirstIds(path, 0) = Root
         /\ FirstIds(path, Len(path)) = path
         /\ k > 0 => /\ Front(FirstIds(path, k)) = FirstIds(path, k - 1)
                     /\ Append(FirstIds(path, k - 1), path[k]) = FirstIds(path, k)
<1>1. Len(path) \in Nat /\ \A j \in 1..Len(path) : path[j] \in Id
  BY LenProperties
<1>2. ASSUME NEW l \in 0..Len(path)
      PROVE  /\ FirstIds(path, l) \in Seq(Id) /\ Len(FirstIds(path, l)) = l
             /\ \A j \in 1..l : FirstIds(path, l)[j] = path[j]
  <2>1. l \in Int /\ \A j \in 1..l : path[j] \in Id
    BY <1>1
  <2> DEFINE t == SubSeq(path, 1, l)
  <2>2. /\ t \in Seq(Id) /\ Len(t) = IF 1 <= l THEN l - 1 + 1 ELSE 0
        /\ \A j \in 1..(l - 1 + 1) : t[j] = path[1 + j - 1]
    BY <2>1, SubSeqProperties
  <2> HIDE DEF t
  <2>3. t \in Seq(Id) /\ Len(t) = l /\ \A j \in 1..l : t[j] = path[j]
    BY <2>2, <1>1
  <2>4. QED
    BY <2>3 DEF FirstIds, t
<1>3. FirstIds(path, 0) = Root
  BY SubSeqEmpty DEF FirstIds, Root
<1>4. FirstIds(path, Len(path)) = path
  BY SubSeqFull DEF FirstIds
<1>5. ASSUME k > 0
      PROVE  /\ Front(FirstIds(path, k)) = FirstIds(path, k - 1)
             /\ Append(FirstIds(path, k - 1), path[k]) = FirstIds(path, k)
  <2> DEFINE s == FirstIds(path, k)
             t == FirstIds(path, k - 1)
  <2>1. k - 1 \in 0..Len(path) /\ k \in 1..Len(path) /\ path[k] \in Id
    BY <1>1, <1>5
  <2>2. /\ s \in Seq(Id) /\ Len(s) = k /\ \A j \in 1..k : s[j] = path[j]
        /\ t \in Seq(Id) /\ Len(t) = k - 1 /\ \A j \in 1..(k - 1) : t[j] = path[j]
    BY <1>2, <2>1
  <2> HIDE DEF s, t
  <2>3. Front(s) = t
    <3> DEFINE f == SubSeq(s, 1, k - 1)
    <3>1. k - 1 \in Int /\ \A j \in 1..(k - 1) : s[j] \in Id
      BY <1>1, <2>1, <2>2
    <3>2. /\ f \in Seq(Id) /\ Len(f) = IF 1 <= k - 1 THEN (k - 1) - 1 + 1 ELSE 0
          /\ \A j \in 1..((k - 1) - 1 + 1) : f[j] = s[1 + j - 1]
      BY <3>1, SubSeqProperties
    <3> HIDE DEF f
    <3>3. Len(f) = Len(t) /\ \A j \in 1..Len(f) : f[j] = t[j]
      BY <2>1, <2>2, <3>2
    <3>4. f = t
      BY <2>2, <3>2, <3>3, SeqEqual
    <3>5. QED
      BY <2>2, <3>4 DEF Front, f
  <2>4. Append(t, path[k]) = s
    <3>1. /\ Append(t, path[k]) \in Seq(Id) /\ Len(Append(t, path[k])) = k
          /\ \A j \in 1..(k - 1) : Append(t, path[k])[j] = t[j]
          /\ Append(t, path[k])[k] = path[k]
      BY <2>1, <2>2, AppendProperties
    <3>2. \A j \in 1..k : Append(t, path[k])[j] = s[j]
      BY <2>1, <2>2, <3>1
    <3>3. QED
      BY <2>2, <3>1, <3>2, SeqEqual
  <2>5. QED
    BY <2>3, <2>4 DEF s, t
<1>6. QED
  BY <1>2, <1>3, <1>4, <1>5

\* Above an operator of a plan there are only nodes that lead on.
LEMMA AboveAnOperator ==
  ASSUME NEW nodes \in Plans, NEW path \in OperatorPaths(nodes)
  PROVE  /\ path \in Seq(Id) /\ Len(path) >= 1 /\ 6 * Len(path) - 2 < MaxAddrLen
         /\ \A k \in 0..(Len(path) - 1) :
               /\ ~IsOperator(nodes[FirstIds(path, k)])
               /\ nodes[FirstIds(path, k)].ignoreLen = IF k = 0 THEN 0 ELSE 4
<1>1. /\ path \in DOMAIN nodes /\ IsOperator(nodes[path])
      /\ 6 * Len(path) - 2 < MaxAddrLen
  BY PlansAssumption DEF OperatorPaths
<1>2. /\ DOMAIN nodes \subseteq Seq(Id) /\ ~IsOperator(nodes[Root])
      /\ nodes[Root].ignoreLen = 0
      /\ \A p \in DOMAIN nodes \ {Root} :
            /\ Front(p) \in DOMAIN nodes /\ ~IsOperator(nodes[Front(p)])
            /\ ~IsOperator(nodes[p]) => nodes[p].ignoreLen = 4
  BY PlansAssumption
<1>3. path \in Seq(Id) /\ path # Root
  BY <1>1, <1>2
<1>4. Len(path) \in Nat /\ Len(path) >= 1
  BY <1>3, EmptySeq, LenProperties DEF Root
<1> DEFINE n == Len(path)
           Good(j) == /\ FirstIds(path, n - j) \in DOMAIN nodes
                      /\ ~IsOperator(nodes[FirstIds(path, n - j)])
<1>5. \A j \in 1..n : Good(j)
  <2> DEFINE T == {j \in 1..n : ~Good(j)}
  <2> SUFFICES ASSUME T # {} PROVE FALSE
    BY DEF T
  <2>1. PICK m \in T : \A j \in T : m <= j
    <3>1. T \in SUBSET Nat
      BY <1>4
    <3> HIDE DEF T
    <3> QED
      BY <3>1, LeastNatural
  <2>2. m \in 1..n /\ ~Good(m)
    OBVIOUS
  <2>3. /\ FirstIds(path, n - m + 1) \in DOMAIN nodes
        /\ FirstIds(path, n - m + 1) # Root
    <3>1. FirstIds(path, n - m + 1) \in DOMAIN nodes
      <4>1. CASE m = 1
        <5>1. n - m + 1 = n
          BY <4>1, <1>4
        <5>2. FirstIds(path, n) = path
          BY <1>3, <1>4, FirstIdsFacts
        <5>3. QED
          BY <5>1, <5>2, <1>1
      <4>2. CASE m # 1
        <5>1. m - 1 \in 1..n /\ ~(m <= m - 1) /\ n - (m - 1) = n - m + 1
          BY <4>2, <2>2, <1>4
        <5>2. m - 1 \notin T
          <6> HIDE DEF T
          <6> QED
            BY <5>1, <2>1
        <5>3. Good(m - 1)
          <6> HIDE DEF Good
          <6> QED
            BY <5>1, <5>2
        <5>4. QED
          BY <5>1, <5>3
      <4>3. QED
        BY <4>1, <4>2
    <3>2. n - m + 1 \in 0..n /\ n - m + 1 >= 1
      BY <2>2, <1>4
    <3>3. Len(FirstIds(path, n - m + 1)) = n - m + 1
      BY <3>2, <1>3, FirstIdsFacts
    <3>4. QED
      BY <3>1, <3>2, <3>3, EmptySeq DEF Root
  <2>4. Front(FirstIds(path, n - m + 1)) = FirstIds(path, n - m)
    <3>1. n - m + 1 \in 0..n /\ n - m + 1 > 0 /\ (n - m + 1) - 1 = n - m
      BY <2>2, <1>4
    <3>2. Front(FirstIds(path, n - m + 1)) = FirstIds(path, (n - m + 1) - 1)
      BY <3>1, <1>3, FirstIdsFacts
    <3>3. QED
      BY <3>1, <3>2
  <2>5. Good(m)
    BY <2>3, <2>4, <1>2
  <2>6. QED
    BY <2>2, <2>5
<1>6. ASSUME NEW k \in 0..(n - 1)
      PROVE  /\ ~IsOperator(nodes[FirstIds(path, k)])
             /\ nodes[FirstIds(path, k)].ignoreLen = IF k = 0 THEN 0 ELSE 4
  <2>1. n - k \in 1..n /\ n - (n - k) = k /\ k \in 0..n
    BY <1>4
  <2>2. Good(n - k)
    <3> HIDE DEF Good
    <3> QED
      BY <2>1, <1>5
  <2>3. FirstIds(path, k) \in DOMAIN nodes /\ ~IsOperator(nodes[FirstIds(path, k)])
    BY <2>1, <2>2
  <2>4. CASE k = 0
    <3>1. FirstIds(path, k) = Root
      BY <2>1, <2>4, <1>3, FirstIdsFacts
    <3>2. QED
      BY <2>3, <2>4, <3>1, <1>2
  <2>5. CASE k # 0
    <3>1. FirstIds(path, k) # Root
      <4>1. Len(FirstIds(path, k)) = k
        BY <2>1, <1>3, FirstIdsFacts
      <4>2. QED
        BY <4>1, <2>5, EmptySeq DEF Root
    <3>2. QED
      BY <2>3, <2>5, <3>1, <1>2
  <2>6. QED
    BY <2>4, <2>5
<1>7. QED
  BY <1>1, <1>3, <1>4, <1>6

\* Where the walk over the address of an operator is after k steps: on the path
\* to that operator, in front of the next id.
OnTheWay(path, k) ==
    LET j == IF k < Len(path) THEN k ELSE Len(path)
    IN  [path |-> FirstIds(path, j), offset |-> IF j = 0 THEN 0 ELSE 6 * j - 4]

\* Every step of the walk reads the next id of the path.
LEMMA WalkStep ==
  ASSUME NEW nodes \in Plans, NEW path \in OperatorPaths(nodes),
         NEW branches \in [1..(Len(path) - 1) -> BranchId], NEW k \in Nat
  PROVE  NextNode(nodes, Buffer(Address(PlaceAt(nodes, path, branches))), OnTheWay(path, k))
           = OnTheWay(path, k + 1)
<1> DEFINE n == Len(path)
           a == Address(PlaceAt(nodes, path, branches))
           buffer == Buffer(a)
           at == OnTheWay(path, k)
<1>1. /\ path \in Seq(Id) /\ n \in Nat /\ n >= 1 /\ 6 * n - 2 < MaxAddrLen
      /\ \A j \in 0..(n - 1) :
            /\ ~IsOperator(nodes[FirstIds(path, j)])
            /\ nodes[FirstIds(path, j)].ignoreLen = IF j = 0 THEN 0 ELSE 4
  BY AboveAnOperator, LenProperties
<1>2. /\ a \in Seq(Byte) /\ Len(a) = 6 * n - 2
      /\ \A j \in 1..n : a[6 * j - 3] + 256 * a[6 * j - 2] = path[j]
  <2>1. path \in Seq(Id) /\ Len(path) >= 1
    BY <1>1
  <2>2. a \in Seq(Byte) /\ Len(a) = 6 * Len(path) - 2
    BY <2>1, AddressFacts, Zenon
  <2>3. Spells(a, path)
    BY <2>1, AddressFacts, Zenon
  <2>4. QED
    BY <2>2, <2>3 DEF Spells
<1> HIDE DEF a
<1>3. \A i \in 1..(6 * n - 2) : buffer[i + 1] = a[i]
  BY <1>1, <1>2, BufferFacts
<1> HIDE DEF buffer
<1>4. CASE k < n
  <2>1. at = [path |-> FirstIds(path, k), offset |-> IF k = 0 THEN 0 ELSE 6 * k - 4]
    BY <1>4 DEF OnTheWay
  <2>2. OnTheWay(path, k + 1) = [path |-> FirstIds(path, k + 1), offset |-> 6 * (k + 1) - 4]
    <3>1. (IF k + 1 < n THEN k + 1 ELSE n) = k + 1 /\ k + 1 # 0
      BY <1>1, <1>4
    <3> HIDE DEF n
    <3>2. QED
      BY <3>1 DEF OnTheWay, n
  <2> HIDE DEF at
  <2>3. k \in 0..(n - 1) /\ k + 1 \in 1..n /\ k + 1 \in 0..n
    BY <1>1, <1>4
  <2>4. ~IsOperator(nodes[at.path]) /\ nodes[at.path].ignoreLen = IF k = 0 THEN 0 ELSE 4
    BY <1>1, <2>1, <2>3
  <2>5. Step(nodes[at.path], at.offset) = 6 * (k + 1) - 4
    <3>1. CASE k = 0
      BY <2>1, <2>4, <3>1 DEF Step
    <3>2. CASE k # 0
      BY <2>1, <2>4, <3>2 DEF Step
    <3>3. QED
      BY <3>1, <3>2
  <2>6. IdAt(buffer, 6 * (k + 1) - 4) = path[k + 1]
    <3>1. /\ 6 * (k + 1) - 3 \in 1..(6 * n - 2) /\ 6 * (k + 1) - 2 \in 1..(6 * n - 2)
          /\ (6 * (k + 1) - 3) + 1 = (6 * (k + 1) - 4) + 2
          /\ (6 * (k + 1) - 2) + 1 = (6 * (k + 1) - 4) + 3
      BY <1>1, <2>3
    <3>2. /\ buffer[(6 * (k + 1) - 3) + 1] = a[6 * (k + 1) - 3]
          /\ buffer[(6 * (k + 1) - 2) + 1] = a[6 * (k + 1) - 2]
      BY <1>3, <3>1
    <3>3. a[6 * (k + 1) - 3] + 256 * a[6 * (k + 1) - 2] = path[k + 1]
      BY <1>2, <2>3
    <3>4. IdAt(buffer, 6 * (k + 1) - 4) = a[6 * (k + 1) - 3] + 256 * a[6 * (k + 1) - 2]
      BY <3>1, <3>2 DEF IdAt
    <3>5. QED
      BY <3>3, <3>4
  <2>7. Append(FirstIds(path, k), path[k + 1]) = FirstIds(path, k + 1)
    <3>1. k + 1 > 0 /\ (k + 1) - 1 = k
      OBVIOUS
    <3>2. Append(FirstIds(path, (k + 1) - 1), path[k + 1]) = FirstIds(path, k + 1)
      BY <1>1, <2>3, <3>1, FirstIdsFacts
    <3>3. QED
      BY <3>1, <3>2
  <2>8. Onward(nodes, buffer, at)
          = [path |-> FirstIds(path, k + 1), offset |-> 6 * (k + 1) - 4]
    BY <2>1, <2>5, <2>6, <2>7 DEF Onward
  <2>9. NextNode(nodes, buffer, at) = OnTheWay(path, k + 1)
    BY <2>2, <2>4, <2>8 DEF NextNode
  <2>10. QED
    BY <2>9 DEF at, buffer, a
<1>5. CASE ~(k < n)
  <2>1. ~(k + 1 < n)
    BY <1>1, <1>5
  <2>2. OnTheWay(path, k + 1) = at
    BY <1>5, <2>1 DEF OnTheWay
  <2>3. at.path = path
    <3>1. at.path = FirstIds(path, n)
      BY <1>5 DEF OnTheWay
    <3>2. FirstIds(path, n) = path
      BY <1>1, FirstIdsFacts
    <3>3. QED
      BY <3>1, <3>2
  <2> HIDE DEF at
  <2>4. IsOperator(nodes[at.path])
    BY <2>3 DEF OperatorPaths
  <2>5. QED
    BY <2>2, <2>4 DEF NextNode, at, buffer, a
<1>6. QED
  BY <1>4, <1>5

\* The walk over the address of an operator finds the code of that operator.
LEMMA GetFindsCode ==
  ASSUME NEW nodes \in Plans, NEW path \in OperatorPaths(nodes),
         NEW branches \in [1..(Len(path) - 1) -> BranchId]
  PROVE  Get(nodes, Buffer(Address(PlaceAt(nodes, path, branches)))) = nodes[path].code
<1> DEFINE buffer == Buffer(Address(PlaceAt(nodes, path, branches)))
           IsWalk(f) == f = [k \in 0..MaxAddrLen |->
                               IF k = 0 THEN [path |-> Root, offset |-> 0]
                               ELSE NextNode(nodes, buffer, f[k - 1])]
           way == [k \in 0..MaxAddrLen |-> OnTheWay(path, k)]
<1>1. /\ path \in Seq(Id) /\ Len(path) \in Nat /\ Len(path) >= 1
      /\ 6 * Len(path) - 2 < MaxAddrLen /\ MaxAddrLen \in Nat
  BY AboveAnOperator, LengthIsByte, LenProperties
<1>2. OnTheWay(path, 0) = [path |-> Root, offset |-> 0]
  <2>1. FirstIds(path, 0) = Root
    BY <1>1, FirstIdsFacts
  <2>2. 0 < Len(path)
    BY <1>1
  <2>3. QED
    BY <2>1, <2>2 DEF OnTheWay
<1>3. \A k \in Nat : NextNode(nodes, buffer, OnTheWay(path, k)) = OnTheWay(path, k + 1)
  BY WalkStep
<1> HIDE DEF buffer
<1>4. IsWalk(way)
  <2>1. ASSUME NEW k \in 0..MaxAddrLen
        PROVE  way[k] = IF k = 0 THEN [path |-> Root, offset |-> 0]
                        ELSE NextNode(nodes, buffer, way[k - 1])
    <3>1. CASE k = 0
      BY <1>1, <1>2, <3>1
    <3>2. CASE k # 0
      <4>1. k - 1 \in 0..MaxAddrLen /\ k - 1 \in Nat /\ (k - 1) + 1 = k
        BY <1>1, <3>2
      <4>2. way[k - 1] = OnTheWay(path, k - 1) /\ way[k] = OnTheWay(path, k)
        BY <4>1
      <4>3. NextNode(nodes, buffer, OnTheWay(path, k - 1)) = OnTheWay(path, (k - 1) + 1)
        BY <1>3, <4>1
      <4> HIDE DEF way
      <4>4. QED
        BY <3>2, <4>1, <4>2, <4>3
    <3>3. QED
      BY <3>1, <3>2
  <2>2. way = [k \in 0..MaxAddrLen |-> way[k]]
    OBVIOUS
  <2> HIDE DEF way
  <2>3. QED
    BY <2>1, <2>2
<1> DEFINE walk == CHOOSE f : IsWalk(f)
<1>5. IsWalk(walk)
  <2> HIDE DEF IsWalk, way
  <2> QED
    BY <1>4
<1>6. Get(nodes, buffer) = nodes[walk[MaxAddrLen].path].code
  BY DEF Get
<1>7. \A k \in 0..MaxAddrLen :
         walk[k] = IF k = 0 THEN [path |-> Root, offset |-> 0]
                   ELSE NextNode(nodes, buffer, walk[k - 1])
  <2> HIDE DEF walk
  <2> QED
    BY <1>5
<1> HIDE DEF walk, IsWalk, way
<1>8. \A k \in 0..MaxAddrLen : walk[k] = OnTheWay(path, k)
  <2> DEFINE T == {k \in 0..MaxAddrLen : walk[k] # OnTheWay(path, k)}
  <2> SUFFICES ASSUME T # {} PROVE FALSE
    OBVIOUS
  <2>1. PICK m \in T : \A k \in T : m <= k
    <3>1. T \in SUBSET Nat
      BY <1>1
    <3> HIDE DEF T
    <3> QED
      BY <3>1, LeastNatural
  <2>2. m \in 0..MaxAddrLen /\ walk[m] # OnTheWay(path, m)
    OBVIOUS
  <2>3. m # 0
    BY <1>2, <1>7, <2>2
  <2>4. m - 1 \in 0..MaxAddrLen /\ m - 1 \in Nat /\ (m - 1) + 1 = m /\ ~(m <= m - 1)
    BY <1>1, <2>2, <2>3
  <2>5. m - 1 \notin T
    <3> HIDE DEF T
    <3> QED
      BY <2>1, <2>4
  <2>6. walk[m - 1] = OnTheWay(path, m - 1)
    BY <2>4, <2>5
  <2>7. walk[m] = NextNode(nodes, buffer, OnTheWay(path, m - 1))
    BY <1>7, <2>2, <2>3, <2>6
  <2>8. NextNode(nodes, buffer, OnTheWay(path, m - 1)) = OnTheWay(path, (m - 1) + 1)
    BY <1>3, <2>4
  <2>9. QED
    BY <2>2, <2>4, <2>7, <2>8
<1>9. OnTheWay(path, MaxAddrLen).path = path
  <2>1. ~(MaxAddrLen < Len(path))
    BY <1>1
  <2>2. FirstIds(path, Len(path)) = path
    BY <1>1, FirstIdsFacts
  <2>3. QED
    BY <2>1, <2>2 DEF OnTheWay
<1>10. MaxAddrLen \in 0..MaxAddrLen
  BY <1>1
<1>11. QED
  BY <1>6, <1>8, <1>9, <1>10 DEF buffer

-----------------------------------------------------------------------------
(* The places of a plan. *)

\* An operator stands at a path, and the walk over its address finds its code.
LEMMA PlaceFacts ==
  ASSUME NEW nodes \in Plans, NEW o \in Places(nodes)
  PROVE  /\ Address(o) \in Seq(Byte) /\ Len(Address(o)) < MaxAddrLen
         /\ Get(nodes, Buffer(Address(o))) = o.code
         /\ o.code.op = "OUT" => o.code.ds # -1
<1>0. PICK path \in OperatorPaths(nodes) :
         \E branches \in [1..(Len(path) - 1) -> BranchId] :
            o = PlaceAt(nodes, path, branches)
  BY DEF Places
<1>1. PICK branches \in [1..(Len(path) - 1) -> BranchId] :
         o = PlaceAt(nodes, path, branches)
  BY <1>0
<1>2. path \in Seq(Id) /\ Len(path) >= 1 /\ 6 * Len(path) - 2 < MaxAddrLen
  BY AboveAnOperator
<1>3. Address(o) \in Seq(Byte) /\ Len(Address(o)) = 6 * Len(path) - 2
  BY <1>1, <1>2, AddressFacts, Zenon
<1>4. Get(nodes, Buffer(Address(o))) = nodes[path].code
  BY <1>1, GetFindsCode, Zenon
<1>5. o.code = nodes[path].code
  BY <1>1 DEF PlaceAt
<1>6. nodes[path].code.op = "OUT" => nodes[path].code.ds # -1
  BY PlansAssumption
<1>7. QED
  BY <1>2, <1>3, <1>4, <1>5, <1>6

\* The downstream of an operator stands beside it, at the address its last field
\* changed.
LEMMA DownstreamFacts ==
  ASSUME NEW nodes \in Plans, NEW o \in Places(nodes), o.code.ds # -1
  PROVE  /\ DownstreamAddr(Address(o), o.code.ds) = Address([o EXCEPT !.id = o.code.ds])
         /\ \E p \in Places(nodes) : Address(p) = DownstreamAddr(Address(o), o.code.ds)
<1> DEFINE ds == o.code.ds
           q == [o EXCEPT !.id = ds]
<1>0. PICK path \in OperatorPaths(nodes) :
         \E branches \in [1..(Len(path) - 1) -> BranchId] :
            o = PlaceAt(nodes, path, branches)
  BY DEF Places
<1>1. PICK branches \in [1..(Len(path) - 1) -> BranchId] :
         o = PlaceAt(nodes, path, branches)
  BY <1>0
<1>2. path \in Seq(Id) /\ Len(path) \in Nat /\ Len(path) >= 1
  BY AboveAnOperator, LenProperties
<1>3. /\ o.code = nodes[path].code
      /\ o.scope = [i \in 1..(Len(path) - 1) |-> <<path[i], branches[i]>>]
      /\ q.scope = o.scope /\ q.id = ds
  BY <1>1 DEF PlaceAt
<1>4. DownstreamAddr(Address(o), ds) = Address(q)
  <2>1. SubSeq(Address(o), 1, Len(Address(o)) - 2) = Upstream(o)
    BY <1>1, <1>2, AddressFacts, Zenon
  <2>2. Address(q) = Upstream(q) \o IdField(q.id)
    BY DEF Address, Upstream
  <2> HIDE DEF q
  <2>3. Upstream(q) = Upstream(o)
    BY <1>3 DEF Upstream
  <2>4. QED
    BY <2>1, <2>2, <2>3, <1>3 DEF DownstreamAddr
<1> DEFINE beside == Append(Front(path), ds)
           p == PlaceAt(nodes, beside, branches)
<1>5. beside \in OperatorPaths(nodes) /\ beside \in Seq(Id)
  <2>1. beside \in OperatorPaths(nodes)
    BY <1>3, PlansAssumption
  <2>2. QED
    BY <2>1, AboveAnOperator
<1>6. /\ Len(beside) = Len(path) /\ beside[Len(path)] = ds
      /\ \A i \in 1..(Len(path) - 1) : beside[i] = path[i]
  <2>1. Len(path) \in 0..Len(path) /\ Len(path) > 0 /\ FirstIds(path, Len(path)) = path
    BY <1>2, FirstIdsFacts
  <2>2. Front(path) = FirstIds(path, Len(path) - 1)
    BY <2>1, <1>2, FirstIdsFacts
  <2>3. Len(path) - 1 \in 0..Len(path)
    BY <1>2
  <2> DEFINE front == Front(path)
  <2>4. /\ front \in Seq(Id) /\ Len(front) = Len(path) - 1
        /\ \A i \in 1..(Len(path) - 1) : front[i] = path[i]
    <3> DEFINE k == Len(path) - 1
    <3>1. k \in 0..Len(path) /\ front = FirstIds(path, k)
      BY <2>2, <2>3
    <3> HIDE DEF k, front
    <3>2. front \in Seq(Id) /\ Len(front) = k /\ \A i \in 1..k : front[i] = path[i]
      BY <3>1, <1>2, FirstIdsFacts
    <3>3. QED
      BY <3>2 DEF k
  <2> HIDE DEF front, ds
  <2>5. /\ Len(Append(front, ds)) = Len(front) + 1
        /\ Append(front, ds)[Len(front) + 1] = ds
        /\ \A i \in 1..Len(front) : Append(front, ds)[i] = front[i]
    BY <2>4
  <2>6. QED
    BY <2>4, <2>5, <1>2 DEF front
<1>7. p \in Places(nodes)
  <2> HIDE DEF beside
  <2>1. branches \in [1..(Len(beside) - 1) -> BranchId]
    BY <1>6
  <2>2. QED
    BY <2>1, <1>5 DEF Places
<1>8. Address(p) = Address(q)
  <2> HIDE DEF beside, ds
  <2>1. p.id = ds
    BY <1>6 DEF PlaceAt
  <2>2. p.scope = [i \in 1..(Len(beside) - 1) |-> <<beside[i], branches[i]>>]
    BY DEF PlaceAt
  <2>3. p.scope = o.scope
    BY <2>2, <1>3, <1>6
  <2> HIDE DEF p, q
  <2>4. QED
    BY <2>1, <2>3, <1>3 DEF Address
<1>9. QED
  BY <1>4, <1>7, <1>8

-----------------------------------------------------------------------------
(* string_to_unsigned_int: the sum from the last digit to the first is what *)
(* reading the digits from the first to the last gives.                     *)

\* What is left after as many W as possible are taken off.
LEMMA RemainderUnique ==
  ASSUME NEW W \in Nat \ {0}, NEW q \in Nat, NEW r \in 0..(W - 1)
  PROVE  ((W * q) + r) % W = r
<1>1. PICK c \in Nat : c = (W * q) + r
  OBVIOUS
<1>2. PICK d \in Nat, m \in 0..(W - 1) : m = c % W /\ c = (W * d) + m
  <2> DEFINE d == c \div W
  <2>1. d \in Nat
    OBVIOUS
  <2>2. c % W \in 0..(W - 1)
    OBVIOUS
  <2>3. c = (W * d) + (c % W)
    OBVIOUS
  <2> HIDE DEF d
  <2>4. QED
    BY <2>1, <2>2, <2>3
<1>3. \A x, y \in Nat : x < y => (W * x) + W <= W * y
  <2> SUFFICES ASSUME NEW x \in Nat, NEW y \in Nat, x < y
               PROVE  (W * x) + W <= W * y
    OBVIOUS
  <2>1. PICK z \in Nat : y = x + 1 + z
    <3>1. y - x - 1 \in Nat
      OBVIOUS
    <3>2. QED
      BY <3>1
  <2>2. W * y = (W * x) + W + (W * z) /\ W * z \in Nat
    BY <2>1
  <2>3. QED
    BY <2>2
<1>4. W * q \in Nat /\ W * d \in Nat
  OBVIOUS
<1>5. ~ (d < q) /\ ~ (q < d)
  BY <1>1, <1>2, <1>3, <1>4
<1>6. d = q
  BY <1>5
<1>7. m = r
  BY <1>1, <1>2, <1>4, <1>6
<1>8. QED
  BY <1>1, <1>2, <1>7

\* What addition and multiplication do to a remainder.
LEMMA RemainderFacts ==
  ASSUME NEW W \in Nat \ {0}, NEW a \in Nat, NEW b \in Nat
  PROVE  /\ a % W \in 0..(W - 1)
         /\ a < W => a % W = a
         /\ (a + b) % W = ((a % W) + b) % W
         /\ (10 * a) % W = (10 * (a % W)) % W
<1>1. PICK d \in Nat, m \in 0..(W - 1) : m = a % W /\ a = (W * d) + m
  <2> DEFINE d == a \div W
  <2>1. d \in Nat
    OBVIOUS
  <2>2. a % W \in 0..(W - 1)
    OBVIOUS
  <2>3. a = (W * d) + (a % W)
    OBVIOUS
  <2> HIDE DEF d
  <2>4. QED
    BY <2>1, <2>2, <2>3
\* Full rounds make no difference.
<1>2. ASSUME NEW n \in Nat, NEW q \in Nat PROVE ((W * q) + n) % W = n % W
  <2>1. PICK e \in Nat, r \in 0..(W - 1) : r = n % W /\ n = (W * e) + r
    <3> DEFINE e == n \div W
    <3>1. e \in Nat
      OBVIOUS
    <3>2. n % W \in 0..(W - 1)
      OBVIOUS
    <3>3. n = (W * e) + (n % W)
      OBVIOUS
    <3> HIDE DEF e
    <3>4. QED
      BY <3>1, <3>2, <3>3
  <2>2. W * (q + e) = (W * q) + (W * e) /\ W * q \in Nat /\ W * e \in Nat
    OBVIOUS
  <2>3. (W * q) + n = (W * (q + e)) + r
    BY <2>1, <2>2
  <2>4. ((W * (q + e)) + r) % W = r
    <3>1. q + e \in Nat
      OBVIOUS
    <3>2. QED
      BY <3>1, RemainderUnique
  <2>5. QED
    BY <2>1, <2>3, <2>4
<1>3. a < W => a % W = a
  OBVIOUS
<1>4. (a + b) % W = (m + b) % W
  <2>1. W * d \in Nat /\ m + b \in Nat
    OBVIOUS
  <2>2. a + b = (W * d) + (m + b)
    BY <1>1, <2>1
  <2>3. QED
    BY <1>2, <2>1, <2>2
<1>5. (10 * a) % W = (10 * m) % W
  <2>1. W * (10 * d) = 10 * (W * d) /\ W * d \in Nat /\ 10 * m \in Nat /\ 10 * d \in Nat
    OBVIOUS
  <2>2. 10 * a = (W * (10 * d)) + (10 * m)
    BY <1>1, <2>1
  <2>3. QED
    BY <1>2, <2>1, <2>2
<1>6. QED
  BY <1>1, <1>3, <1>4, <1>5

\* Shifting by one more place.
LEMMA ShiftedFacts ==
  ASSUME NEW x \in Nat, NEW k \in Nat
  PROVE  /\ Shifted(x, 0) = x
         /\ Shifted(x, k) \in Nat
         /\ Shifted(x, k + 1) = (10 * Shifted(x, k)) % WordModulus
<1> DEFINE IsTemp(temp, n) ==
             temp = [j \in 0..n |->
                       IF j = 0 THEN x ELSE (10 * temp[j - 1]) % WordModulus]
           step(n) == [j \in 1..n |-> [d \in Nat |-> (10 * d) % WordModulus]]
           Steps(f, n) == /\ f \in [0..n -> Nat] /\ f[0] = x
                          /\ \A j \in 1..n : f[j] = (10 * f[j - 1]) % WordModulus
<1>1. WordModulus \in Nat \ {0}
  BY WidthAssumption
<1>2. ASSUME NEW n \in Nat
      PROVE  \E f : /\ Steps(f, n) /\ Shifted(x, n) = f[n]
                    /\ \A g : (/\ g[0] = x
                               /\ \A j \in 1..n : g[j - 1] \in Nat =>
                                     g[j] = (10 * g[j - 1]) % WordModulus)
                              => \A j \in 0..n : g[j] = f[j]
  <2>1. \A d \in Nat : (10 * d) % WordModulus \in Nat
    <3> SUFFICES ASSUME NEW d \in Nat PROVE (10 * d) % WordModulus \in Nat
      OBVIOUS
    <3>1. 10 * d \in Nat
      OBVIOUS
    <3>2. QED
      BY <1>1, <3>1, RemainderFacts
  <2>2. step(n) \in [1..n -> [Nat -> Nat]]
    BY <2>1
  <2>3. \A j \in 1..n : \A d \in Nat : step(n)[j][d] = (10 * d) % WordModulus
    OBVIOUS
  <2> DEFINE st == step(n)
  <2> HIDE DEF step
  <2>4. PICK f : Recursion(f, Nat, x, n, st)
    <3> HIDE DEF st
    <3>1. st \in [1..n -> [Nat -> Nat]]
      BY <2>2 DEF st
    <3>2. QED
      BY <3>1, RecursionFacts
  <2>5. Steps(f, n)
    <3>1. \A j \in 1..n : j - 1 \in 0..n
      OBVIOUS
    <3>2. \A j \in 1..n : f[j - 1] \in Nat
      BY <2>4, <3>1 DEF Recursion
    <3>3. QED
      BY <2>3, <2>4, <3>2 DEF Recursion, Follows
  <2>6. ASSUME NEW g, g[0] = x,
               \A j \in 1..n : g[j - 1] \in Nat => g[j] = (10 * g[j - 1]) % WordModulus
        PROVE  \A j \in 0..n : g[j] = f[j]
    <3>1. Follows(g, Nat, x, n, st)
      BY <2>3, <2>6 DEF Follows
    <3> HIDE DEF st
    <3>2. QED
      BY <2>4, <3>1 DEF Recursion
  <2>7. IsTemp(f, n)
    <3>1. \A j \in 0..n : f[j] = IF j = 0 THEN x ELSE (10 * f[j - 1]) % WordModulus
      BY <2>5
    <3>2. f = [j \in 0..n |-> f[j]]
      BY <2>4 DEF Recursion
    <3>3. QED
      BY <3>1, <3>2
  <2> DEFINE temp == CHOOSE g : IsTemp(g, n)
  <2>8. IsTemp(temp, n)
    <3> HIDE DEF IsTemp
    <3> QED
      BY <2>7
  <2>9. Shifted(x, n) = temp[n]
    BY DEF Shifted
  <2> HIDE DEF temp
  <2>10. /\ temp[0] = x
         /\ \A j \in 1..n : temp[j] = (10 * temp[j - 1]) % WordModulus
    BY <2>8
  <2>11. temp[n] = f[n]
    BY <2>6, <2>10
  <2> HIDE DEF IsTemp, Steps
  <2>12. QED
    BY <2>5, <2>6, <2>9, <2>11
<1>3. PICK a : /\ Steps(a, k) /\ Shifted(x, k) = a[k]
               /\ \A g : (/\ g[0] = x
                          /\ \A j \in 1..k : g[j - 1] \in Nat =>
                                g[j] = (10 * g[j - 1]) % WordModulus)
                         => \A j \in 0..k : g[j] = a[j]
  <2> HIDE DEF Steps
  <2> QED
    BY <1>2
<1>4. PICK b : Steps(b, k + 1) /\ Shifted(x, k + 1) = b[k + 1]
  <2> HIDE DEF Steps
  <2>1. k + 1 \in Nat
    OBVIOUS
  <2> QED
    BY <1>2, <2>1
<1>5. PICK c : Steps(c, 0) /\ Shifted(x, 0) = c[0]
  <2> HIDE DEF Steps
  <2> QED
    BY <1>2
<1>6. b[k] = a[k]
  <2>1. \A j \in 1..k : b[j] = (10 * b[j - 1]) % WordModulus
    BY <1>4
  <2>2. b[0] = x /\ k \in 0..k
    BY <1>4
  <2> HIDE DEF Steps
  <2>3. QED
    BY <1>3, <2>1, <2>2
<1>7. b[k + 1] = (10 * b[k]) % WordModulus
  <2>1. k + 1 \in 1..(k + 1) /\ (k + 1) - 1 = k
    OBVIOUS
  <2>2. b[k + 1] = (10 * b[(k + 1) - 1]) % WordModulus
    BY <1>4, <2>1
  <2> HIDE DEF Steps
  <2>3. QED
    BY <2>1, <2>2
<1>8. a[k] \in Nat
  <2>1. k \in 0..k
    OBVIOUS
  <2>2. QED
    BY <1>3, <2>1
<1>9. c[0] = x
  BY <1>5
<1>10. QED
  BY <1>3, <1>4, <1>5, <1>6, <1>7, <1>8, <1>9

\* Shifting respects sums.
LEMMA ShiftedSum ==
  ASSUME NEW a \in Nat, NEW b \in Nat
  PROVE  \A k \in Nat :
            Shifted((10 * a) + b, k) % WordModulus
                = (Shifted(a, k + 1) + Shifted(b, k)) % WordModulus
<1> DEFINE W == WordModulus
           A(k) == Shifted(a, k)
           B(k) == Shifted(b, k)
           S(k) == Shifted((10 * a) + b, k)
           T == {k \in Nat : S(k) % W # (A(k + 1) + B(k)) % W}
<1>1. W \in Nat \ {0}
  BY WidthAssumption
<1>2. /\ A(0) = a /\ B(0) = b /\ S(0) = (10 * a) + b
      /\ \A k \in Nat : A(k) \in Nat /\ A(k + 1) = (10 * A(k)) % W
      /\ \A k \in Nat : B(k) \in Nat /\ B(k + 1) = (10 * B(k)) % W
      /\ \A k \in Nat : S(k) \in Nat /\ S(k + 1) = (10 * S(k)) % W
  <2>1. (10 * a) + b \in Nat /\ 0 \in Nat
    OBVIOUS
  <2>2. QED
    BY <2>1, ShiftedFacts
<1> HIDE DEF W, A, B, S
<1>3. S(0) % W = (A(0 + 1) + B(0)) % W
  <2>1. A(0 + 1) = (10 * a) % W
    BY <1>2
  <2>2. 10 * a \in Nat
    OBVIOUS
  <2>3. ((10 * a) + b) % W = (((10 * a) % W) + b) % W
    BY <1>1, <2>2, RemainderFacts
  <2>4. QED
    BY <1>2, <2>1, <2>3
<1>4. ASSUME NEW k \in Nat, S(k) % W = (A(k + 1) + B(k)) % W
      PROVE  S(k + 1) % W = (A((k + 1) + 1) + B(k + 1)) % W
  <2>1. PICK s, p, q \in Nat : s = S(k) /\ p = A(k + 1) /\ q = B(k)
    <3>1. k + 1 \in Nat
      OBVIOUS
    <3>2. QED
      BY <1>2, <3>1
  <2>2. /\ S(k + 1) = (10 * s) % W /\ B(k + 1) = (10 * q) % W
        /\ A((k + 1) + 1) = (10 * p) % W
    <3>1. k + 1 \in Nat
      OBVIOUS
    <3>2. QED
      BY <1>2, <2>1, <3>1
  <2>3. s % W = (p + q) % W
    BY <1>4, <2>1
  <2>4. (10 * s) % W = (10 * (p + q)) % W
    <3>1. p + q \in Nat
      OBVIOUS
    <3>2. (10 * s) % W = (10 * (s % W)) % W
      BY <1>1, RemainderFacts
    <3>3. (10 * (p + q)) % W = (10 * ((p + q) % W)) % W
      BY <1>1, <3>1, RemainderFacts
    <3>4. QED
      BY <2>3, <3>2, <3>3
  <2>5. PICK x, y \in Nat : x = 10 * p /\ y = 10 * q
    OBVIOUS
  <2>6. 10 * (p + q) = x + y
    BY <2>5
  <2>7. (x + y) % W = ((x % W) + (y % W)) % W
    <3>1. (x + y) % W = ((x % W) + y) % W
      BY <1>1, RemainderFacts
    <3>2. PICK r, t \in Nat : r = x % W /\ t = y % W
      <4>1. x % W \in Nat /\ y % W \in Nat
        BY <1>1, RemainderFacts
      <4>2. QED
        BY <4>1
    <3>3. (y + r) % W = (t + r) % W
      BY <1>1, <3>2, RemainderFacts
    <3>4. y + r = r + y /\ t + r = r + t
      OBVIOUS
    <3>5. QED
      BY <3>1, <3>2, <3>3, <3>4
  <2>8. PICK z \in Nat : z = (x + y) % W
    <3>1. x + y \in Nat
      OBVIOUS
    <3>2. QED
      BY <1>1, <3>1, RemainderFacts
  <2>9. z % W = z
    <3>1. x + y \in Nat
      OBVIOUS
    <3>2. z < W
      BY <1>1, <2>8, <3>1, RemainderFacts
    <3>3. QED
      BY <1>1, <3>2, RemainderFacts
  <2>10. S(k + 1) = z
    BY <2>2, <2>4, <2>6, <2>8
  <2>11. (A((k + 1) + 1) + B(k + 1)) % W = z
    BY <2>2, <2>5, <2>7, <2>8
  <2>12. QED
    BY <2>9, <2>10, <2>11
<1>5. T = {}
  <2>1. SUFFICES ASSUME T # {} PROVE FALSE
    OBVIOUS
  <2>2. T \in SUBSET Nat
    OBVIOUS
  <2>3. PICK m \in T : \A k \in T : m <= k
    <3> HIDE DEF T
    <3> QED
      BY <2>1, <2>2, LeastNatural
  <2>4. m \in Nat /\ S(m) % W # (A(m + 1) + B(m)) % W
    OBVIOUS
  <2>5. m # 0
    BY <1>3, <2>4
  <2>6. PICK k \in Nat : m = k + 1
    <3>1. m - 1 \in Nat /\ m = (m - 1) + 1
      BY <2>4, <2>5
    <3>2. QED
      BY <3>1
  <2>7. k \notin T
    <3> HIDE DEF T
    <3> QED
      BY <2>3, <2>6
  <2>8. S(k) % W = (A(k + 1) + B(k)) % W
    BY <2>7
  <2>9. S(k + 1) % W = (A((k + 1) + 1) + B(k + 1)) % W
    BY <1>4, <2>8
  <2>10. QED
    BY <2>4, <2>6, <2>9, Zenon
<1>6. QED
  BY <1>5 DEF W, A, B, S

\* Shifting what was cut off at the width of the word makes no difference.
LEMMA ShiftedRemainder ==
  ASSUME NEW a \in Nat
  PROVE  \A k \in Nat : /\ Shifted(a % WordModulus, k) % WordModulus
                              = Shifted(a, k) % WordModulus
                        /\ Shifted(0, k) = 0
<1> DEFINE W == WordModulus
           A(k) == Shifted(a, k)
           R(k) == Shifted(a % W, k)
           Z(k) == Shifted(0, k)
           T == {k \in Nat : ~ (R(k) % W = A(k) % W /\ Z(k) = 0)}
<1>1. W \in Nat \ {0}
  BY WidthAssumption
<1>2. a % W \in Nat /\ (a % W) % W = a % W
  <2>1. a % W \in Nat /\ a % W < W
    BY <1>1, RemainderFacts
  <2>2. QED
    BY <1>1, <2>1, RemainderFacts
<1>3. /\ A(0) = a /\ R(0) = a % W /\ Z(0) = 0
      /\ \A k \in Nat : A(k) \in Nat /\ A(k + 1) = (10 * A(k)) % W
      /\ \A k \in Nat : R(k) \in Nat /\ R(k + 1) = (10 * R(k)) % W
      /\ \A k \in Nat : Z(k) \in Nat /\ Z(k + 1) = (10 * Z(k)) % W
  BY <1>2, ShiftedFacts
<1> HIDE DEF W, A, R, Z
<1>4. ASSUME NEW k \in Nat, R(k) % W = A(k) % W, Z(k) = 0
      PROVE  R(k + 1) % W = A(k + 1) % W /\ Z(k + 1) = 0
  <2>1. (10 * R(k)) % W = (10 * (R(k) % W)) % W /\ (10 * A(k)) % W = (10 * (A(k) % W)) % W
    BY <1>1, <1>3, RemainderFacts
  <2>2. R(k + 1) = A(k + 1)
    BY <1>3, <1>4, <2>1
  <2>3. 0 % W = 0
    BY <1>1, RemainderFacts
  <2>4. Z(k + 1) = 0
    BY <1>3, <1>4, <2>3
  <2>5. QED
    BY <2>2, <2>4
<1>5. T = {}
  <2>1. SUFFICES ASSUME T # {} PROVE FALSE
    OBVIOUS
  <2>2. T \in SUBSET Nat
    OBVIOUS
  <2>3. PICK m \in T : \A k \in T : m <= k
    <3> HIDE DEF T
    <3> QED
      BY <2>1, <2>2, LeastNatural
  <2>4. m \in Nat /\ ~ (R(m) % W = A(m) % W /\ Z(m) = 0)
    OBVIOUS
  <2>5. m # 0
    BY <1>2, <1>3, <2>4
  <2>6. PICK k \in Nat : m = k + 1
    <3>1. m - 1 \in Nat /\ m = (m - 1) + 1
      BY <2>4, <2>5
    <3>2. QED
      BY <3>1
  <2>7. k \notin T
    <3> HIDE DEF T
    <3> QED
      BY <2>3, <2>6
  <2>8. R(k) % W = A(k) % W /\ Z(k) = 0
    BY <2>7
  <2>9. R(k + 1) % W = A(k + 1) % W /\ Z(k + 1) = 0
    BY <1>4, <2>8
  <2>10. QED
    BY <2>4, <2>6, <2>9, Zenon
<1>6. QED
  BY <1>5 DEF W, A, R, Z

\* A fold of a text reads it character by character, from the first to the last.
LEMMA FoldDecimal ==
  ASSUME NEW text \in Seq(Nat)
  PROVE  \E h : /\ h[0] = 0 /\ h[Len(text)] = FoldLeft(Decimal, 0, text)
                /\ \A k \in 1..Len(text) : h[k] = Decimal(h[k - 1], text[k])
<1> DEFINE Next1(f, s) == IF s = {} THEN 0 ELSE Decimal(f[s \ {Max(s)}], text[Max(s)])
           IsIter(f, m) == f = [s \in SUBSET (1..m) |-> Next1(f, s)]
           T == {m \in Nat : ~ \E f : IsIter(f, m)}
           iter == CHOOSE f : IsIter(f, Len(text))
<1>1. DOMAIN text = 1..Len(text) /\ Len(text) \in Nat
  BY LenProperties
<1>2. FoldLeft(Decimal, 0, text) = iter[1..Len(text)]
  BY <1>1 DEF FoldLeft, MapThenFoldSet
<1>3. \E f : IsIter(f, 0)
  <2>1. SUBSET (1..0) = {{}}
    OBVIOUS
  <2>2. IsIter([s \in {{}} |-> 0], 0)
    BY <2>1
  <2>3. QED
    BY <2>2
<1>4. ASSUME NEW m \in Nat, NEW f, IsIter(f, m)
      PROVE  \E g : IsIter(g, m + 1)
  <2> DEFINE g == [s \in SUBSET (1..(m + 1)) |->
                     IF m + 1 \in s THEN Decimal(f[s \ {m + 1}], text[m + 1]) ELSE f[s]]
  <2>1. \A s \in SUBSET (1..m) : s \in SUBSET (1..(m + 1)) /\ m + 1 \notin s
    OBVIOUS
  <2>2. \A s \in SUBSET (1..m) : g[s] = f[s]
    BY <2>1
  <2>3. \A s \in SUBSET (1..m) : f[s] = Next1(f, s)
    BY <1>4
  <2>4. \A s \in SUBSET (1..(m + 1)) :
           g[s] = IF m + 1 \in s THEN Decimal(f[s \ {m + 1}], text[m + 1]) ELSE f[s]
    OBVIOUS
  <2>5. g = [s \in SUBSET (1..(m + 1)) |-> g[s]]
    OBVIOUS
  <2> HIDE DEF g
  <2>6. ASSUME NEW s \in SUBSET (1..(m + 1)) PROVE g[s] = Next1(g, s)
    <3>1. CASE m + 1 \in s
      <4>1. Max(s) = m + 1
        <5>1. \A y \in s : m + 1 >= y
          OBVIOUS
        <5>2. \A x \in s : (\A y \in s : x >= y) => x = m + 1
          BY <3>1
        <5>3. QED
          BY <3>1, <5>1, <5>2 DEF Max
      <4>2. s \ {m + 1} \in SUBSET (1..m)
        OBVIOUS
      <4>3. g[s \ {m + 1}] = f[s \ {m + 1}]
        BY <2>2, <4>2
      <4>4. QED
        BY <2>4, <3>1, <4>1, <4>3
    <3>2. CASE m + 1 \notin s
      <4>1. s \in SUBSET (1..m)
        BY <3>2
      <4>2. s \ {Max(s)} \in SUBSET (1..m)
        BY <4>1
      <4>3. g[s \ {Max(s)}] = f[s \ {Max(s)}] /\ g[s] = f[s] /\ f[s] = Next1(f, s)
        BY <2>2, <2>3, <4>1, <4>2
      <4>4. QED
        BY <4>3
    <3>3. QED
      BY <3>1, <3>2
  <2>7. [s \in SUBSET (1..(m + 1)) |-> g[s]] = [s \in SUBSET (1..(m + 1)) |-> Next1(g, s)]
    <3> HIDE DEF Next1
    <3> QED
      BY <2>6
  <2>8. IsIter(g, m + 1)
    BY <2>5, <2>7
  <2>9. QED
    <3> HIDE DEF IsIter
    <3> QED
      BY <2>8
<1> HIDE DEF IsIter
<1>5. T = {}
  <2>1. SUFFICES ASSUME T # {} PROVE FALSE
    OBVIOUS
  <2>2. T \in SUBSET Nat
    OBVIOUS
  <2>3. PICK m \in T : \A k \in T : m <= k
    <3> HIDE DEF T
    <3> QED
      BY <2>1, <2>2, LeastNatural
  <2>4. m \in Nat /\ ~ \E f : IsIter(f, m)
    OBVIOUS
  <2>5. m # 0
    BY <1>3, <2>4
  <2>6. PICK k \in Nat : m = k + 1
    <3>1. m - 1 \in Nat /\ m = (m - 1) + 1
      BY <2>4, <2>5
    <3>2. QED
      BY <3>1
  <2>7. k \notin T
    <3> HIDE DEF T
    <3> QED
      BY <2>3, <2>6
  <2>8. PICK f : IsIter(f, k)
    BY <2>7
  <2>9. \E g : IsIter(g, k + 1)
    BY <1>4, <2>8
  <2>10. QED
    BY <2>4, <2>6, <2>9
<1>6. IsIter(iter, Len(text))
  BY <1>1, <1>5
<1> HIDE DEF iter, T
<1>7. \A s \in SUBSET (1..Len(text)) : iter[s] = Next1(iter, s)
  BY <1>6 DEF IsIter
<1> DEFINE h == [k \in 0..Len(text) |-> iter[1..k]]
<1>8. \A k \in 0..Len(text) : h[k] = iter[1..k]
  OBVIOUS
<1> HIDE DEF h
<1>9. h[0] = 0
  <2>1. 1..0 = {} /\ {} \in SUBSET (1..Len(text)) /\ 0 \in 0..Len(text)
    BY <1>1
  <2>2. QED
    BY <1>7, <1>8, <2>1
<1>10. ASSUME NEW k \in 1..Len(text) PROVE h[k] = Decimal(h[k - 1], text[k])
  <2>1. /\ 1..k \in SUBSET (1..Len(text)) /\ 1..k # {}
        /\ k \in 0..Len(text) /\ k - 1 \in 0..Len(text)
    <3>1. k \in 1..k /\ \A i \in 1..k : i \in 1..Len(text)
      BY <1>1
    <3>2. QED
      BY <1>1, <3>1
  <2>2. Max(1..k) = k
    <3>1. k \in 1..k /\ \A y \in 1..k : k >= y
      BY <1>1
    <3>2. \A x \in 1..k : (\A y \in 1..k : x >= y) => x = k
      BY <1>1
    <3>3. QED
      BY <3>1, <3>2 DEF Max
  <2>3. (1..k) \ {k} = 1..(k - 1)
    BY <1>1
  <2>4. iter[1..k] = Decimal(iter[(1..k) \ {k}], text[k])
    BY <1>7, <2>1, <2>2
  <2>5. QED
    BY <1>8, <2>1, <2>3, <2>4
<1>11. h[Len(text)] = FoldLeft(Decimal, 0, text)
  BY <1>1, <1>2, <1>8
<1>12. QED
  BY <1>9, <1>10, <1>11

\* The digits at the end of a text, and what comes before them.
LEMMA DigitsFacts ==
  ASSUME NEW text \in Seq(Nat)
  PROVE  /\ Digits(text) \in 0..Len(text)
         /\ \A i \in (Len(text) - Digits(text) + 1)..Len(text) : text[i] \in 0..9
         /\ Digits(text) < Len(text) => text[Len(text) - Digits(text)] \notin 0..9
<1> DEFINE L == Len(text)
           Ends(n) == /\ \A i \in (L - n + 1)..L : text[i] \in 0..9
                      /\ n < L => text[L - n] \notin 0..9
           T == {n \in 0..L : n < L => text[L - n] \notin 0..9}
<1>1. L \in Nat
  BY LenProperties
<1> HIDE DEF L
<1>2. L \in T /\ T \in SUBSET Nat
  BY <1>1
<1>3. PICK n \in T : \A k \in T : n <= k
  <2> HIDE DEF T
  <2> QED
    BY <1>2, LeastNatural
<1>4. n \in 0..L /\ (n < L => text[L - n] \notin 0..9)
  BY <1>3
<1>5. ASSUME NEW i \in (L - n + 1)..L PROVE text[i] \in 0..9
  <2>1. PICK k \in 0..L : k = L - i /\ k < n /\ k < L /\ L - k = i
    <3>1. L - i \in 0..L /\ L - i < n /\ L - i < L /\ L - (L - i) = i
      BY <1>1, <1>4
    <3>2. QED
      BY <3>1
  <2>2. k \notin T
    <3> HIDE DEF T
    <3> QED
      BY <1>1, <1>3, <1>4, <2>1
  <2>3. text[L - k] \in 0..9
    BY <2>1, <2>2
  <2>4. QED
    BY <2>1, <2>3
<1>6. Ends(n)
  BY <1>4, <1>5
<1>7. Digits(text) = CHOOSE k \in 0..L : Ends(k)
  BY DEF Digits, L
<1> HIDE DEF Ends, T
<1>8. Digits(text) \in 0..L /\ Ends(Digits(text))
  BY <1>4, <1>6, <1>7
<1>9. QED
  BY <1>8 DEF Ends, L

\* The sum of the code, unrolled.
LEMMA SumFacts ==
  ASSUME NEW text \in Seq(Nat), NEW n \in 0..Len(text)
  PROVE  \E r : /\ r \in [0..n -> Nat] /\ r[0] = 0 /\ SumOfDigits(text, n) = r[n]
                /\ \A k \in 1..n :
                      r[k] = (r[k - 1] + Shifted(text[Len(text) - k + 1], k - 1)) % WordModulus
<1> DEFINE digit(k) == Shifted(text[Len(text) - k + 1], k - 1)
           step == [k \in 1..n |-> [d \in Nat |-> (d + digit(k)) % WordModulus]]
           IsResult(r) == r = [k \in 0..n |-> IF k = 0 THEN 0
                                              ELSE (r[k - 1] + digit(k)) % WordModulus]
           result == CHOOSE r : IsResult(r)
<1>1. WordModulus \in Nat \ {0} /\ Len(text) \in Nat /\ n \in Nat /\ n <= Len(text)
  BY WidthAssumption, LenProperties
<1>2. ASSUME NEW k \in 1..n PROVE digit(k) \in Nat
  <2>1. Len(text) - k + 1 \in 1..Len(text) /\ k - 1 \in Nat
    BY <1>1
  <2>2. text[Len(text) - k + 1] \in Nat
    BY <2>1, ElementOfSeq
  <2>3. QED
    BY <2>1, <2>2, ShiftedFacts
<1> HIDE DEF digit
<1>3. \A k \in 1..n : \A d \in Nat : (d + digit(k)) % WordModulus \in Nat
  <2> SUFFICES ASSUME NEW k \in 1..n, NEW d \in Nat
               PROVE  (d + digit(k)) % WordModulus \in Nat
    OBVIOUS
  <2>1. d + digit(k) \in Nat
    BY <1>2
  <2>2. QED
    BY <1>1, <2>1, RemainderFacts
<1>4. step \in [1..n -> [Nat -> Nat]]
  BY <1>3
<1>5. \A k \in 1..n : \A d \in Nat : step[k][d] = (d + digit(k)) % WordModulus
  OBVIOUS
<1> HIDE DEF step
<1>6. PICK f : Recursion(f, Nat, 0, n, step)
  <2>1. PICK base \in Nat : base = 0
    OBVIOUS
  <2>2. \E f : Recursion(f, Nat, base, n, step)
    BY <1>1, <1>4, RecursionFacts
  <2>3. QED
    BY <2>1, <2>2
<1>7. /\ f \in [0..n -> Nat] /\ f[0] = 0
      /\ \A k \in 1..n : f[k] = (f[k - 1] + digit(k)) % WordModulus
  <2>1. f \in [0..n -> Nat] /\ f[0] = 0
    BY <1>6 DEF Recursion, Follows
  <2>2. \A k \in 1..n : k - 1 \in 0..n
    BY <1>1
  <2>3. \A k \in 1..n : f[k - 1] \in Nat
    BY <2>1, <2>2
  <2>4. QED
    BY <1>5, <1>6, <2>1, <2>3 DEF Recursion, Follows
<1>8. IsResult(f)
  <2>1. \A k \in 0..n : f[k] = IF k = 0 THEN 0 ELSE (f[k - 1] + digit(k)) % WordModulus
    BY <1>1, <1>7
  <2>2. f = [k \in 0..n |-> f[k]]
    BY <1>7
  <2>3. QED
    BY <2>1, <2>2
<1>9. IsResult(result)
  <2> HIDE DEF IsResult
  <2> QED
    BY <1>8
<1>10. SumOfDigits(text, n) = result[n]
  BY DEF SumOfDigits, digit
<1> HIDE DEF result
<1>11. Follows(result, Nat, 0, n, step)
  <2>1. \A k \in 0..n :
           result[k] = IF k = 0 THEN 0 ELSE (result[k - 1] + digit(k)) % WordModulus
    BY <1>9
  <2>2. result[0] = 0
    BY <1>1, <2>1
  <2>3. \A k \in 1..n : result[k] = (result[k - 1] + digit(k)) % WordModulus
    BY <1>1, <2>1
  <2>4. QED
    BY <1>5, <2>2, <2>3 DEF Follows
<1> HIDE DEF IsResult
<1>12. result[n] = f[n]
  BY <1>1, <1>6, <1>11 DEF Recursion
<1>13. QED
  BY <1>7, <1>10, <1>12 DEF digit

\* Reading the digits from the last to the first, each with its power of ten, or
\* from the first to the last gives the same number.
LEMMA SumIsDecimal ==
  ASSUME NEW text \in Seq(Nat)
  PROVE  StringToUnsignedInt(text) = FoldLeft(Decimal, 0, text)
<1> DEFINE L == Len(text)
           n == Digits(text)
           W == WordModulus
<1>1. L \in Nat /\ W \in Nat \ {0} /\ n \in 0..L /\ n \in Nat
  BY WidthAssumption, LenProperties, DigitsFacts
<1>2. /\ \A i \in 1..L : text[i] \in Nat
      /\ \A i \in (L - n + 1)..L : text[i] \in 0..9
      /\ n < L => text[L - n] \notin 0..9
  BY ElementOfSeq, DigitsFacts
<1>3. PICK r : /\ r \in [0..n -> Nat] /\ r[0] = 0 /\ StringToUnsignedInt(text) = r[n]
               /\ \A k \in 1..n : r[k] = (r[k - 1] + Shifted(text[L - k + 1], k - 1)) % W
  BY <1>1, SumFacts DEF StringToUnsignedInt
<1>4. PICK h : /\ h[0] = 0 /\ h[L] = FoldLeft(Decimal, 0, text)
               /\ \A k \in 1..L : h[k] = Decimal(h[k - 1], text[k])
  BY FoldDecimal
<1> HIDE DEF L, n, W
\* Every number that is read fits the word.
<1>5. \A k \in 0..L : h[k] \in 0..(W - 1)
  <2> DEFINE T == {k \in 0..L : h[k] \notin 0..(W - 1)}
  <2>1. SUFFICES ASSUME T # {} PROVE FALSE
    OBVIOUS
  <2>2. T \in SUBSET Nat
    BY <1>1
  <2>3. PICK m \in T : \A k \in T : m <= k
    <3> HIDE DEF T
    <3> QED
      BY <2>1, <2>2, LeastNatural
  <2>4. m \in 0..L /\ h[m] \notin 0..(W - 1)
    OBVIOUS
  <2>5. m \in 1..L
    BY <1>1, <1>4, <2>4
  <2>6. m - 1 \in 0..L /\ m - 1 \notin T
    <3> HIDE DEF T
    <3> QED
      BY <1>1, <2>3, <2>5
  <2>7. h[m - 1] \in Nat
    BY <1>1, <2>6
  <2>8. text[m] \in 0..9 => ((10 * h[m - 1]) + text[m]) % W \in 0..(W - 1)
    <3> SUFFICES ASSUME text[m] \in 0..9
                 PROVE  ((10 * h[m - 1]) + text[m]) % W \in 0..(W - 1)
      OBVIOUS
    <3>1. (10 * h[m - 1]) + text[m] \in Nat
      BY <2>7
    <3>2. QED
      BY <1>1, <3>1, RemainderFacts
  <2>9. h[m] \in 0..(W - 1)
    <3>1. h[m] = IF text[m] \in 0..9 THEN ((10 * h[m - 1]) + text[m]) % W ELSE 0
      BY <1>4, <2>5 DEF Decimal, W
    <3>2. QED
      BY <1>1, <2>8, <3>1
  <2>10. QED
    BY <2>4, <2>9
<1> DEFINE rest(k) == Shifted(h[L - k], k)
\* What the code has summed up, and what is before it, shifted behind it.
<1>6. ASSUME NEW k \in Nat, k < n, h[L] = (r[k] + rest(k)) % W
      PROVE  h[L] = (r[k + 1] + rest(k + 1)) % W
  <2>1. PICK i \in 1..L : i = L - k /\ i - 1 = L - (k + 1) /\ i \in (L - n + 1)..L
    <3>1. /\ L - k \in 1..L /\ (L - k) - 1 = L - (k + 1)
          /\ L - k \in (L - n + 1)..L
      BY <1>1, <1>6
    <3>2. QED
      BY <3>1
  <2>2. PICK a \in Nat, b \in Nat : a = h[i - 1] /\ b = text[i]
    <3>1. i - 1 \in 0..L
      BY <1>1
    <3>2. h[i - 1] \in Nat /\ text[i] \in Nat
      BY <1>1, <1>2, <1>5, <3>1
    <3>3. QED
      BY <3>2
  <2>3. h[i] = ((10 * a) + b) % W
    BY <1>2, <1>4, <2>1, <2>2 DEF Decimal, W
  <2>4. PICK x \in Nat, y \in Nat, z \in Nat, s \in Nat :
            /\ x = Shifted(a, k + 1) /\ y = Shifted(b, k)
            /\ z = Shifted(h[i], k) /\ s = r[k]
    <3>1. k \in 0..n /\ k + 1 \in Nat
      BY <1>1, <1>6
    <3>2. r[k] \in Nat
      BY <1>3, <3>1
    <3>3. h[i] \in Nat
      BY <1>1, <1>5
    <3>4. Shifted(a, k + 1) \in Nat /\ Shifted(b, k) \in Nat /\ Shifted(h[i], k) \in Nat
      BY <3>1, <3>3, ShiftedFacts
    <3>5. QED
      BY <3>2, <3>4
  <2>5. z % W = (x + y) % W
    <3>1. PICK c \in Nat : c = (10 * a) + b
      OBVIOUS
    <3>2. Shifted(c % W, k) % W = Shifted(c, k) % W
      BY ShiftedRemainder DEF W
    <3>3. Shifted(c, k) % W = (Shifted(a, k + 1) + Shifted(b, k)) % W
      BY <3>1, ShiftedSum DEF W
    <3>4. QED
      BY <2>3, <2>4, <3>1, <3>2, <3>3
  <2>6. (s + z) % W = ((s + y) + x) % W
    <3>1. (z + s) % W = ((z % W) + s) % W
      BY <1>1, RemainderFacts
    <3>2. ((x + y) + s) % W = (((x + y) % W) + s) % W
      <4>1. x + y \in Nat
        OBVIOUS
      <4>2. QED
        BY <1>1, <4>1, RemainderFacts
    <3>3. z + s = s + z /\ (x + y) + s = (s + y) + x
      OBVIOUS
    <3>4. QED
      BY <2>5, <3>1, <3>2, <3>3
  <2>7. r[k + 1] = (s + y) % W
    <3>1. k + 1 \in 1..n /\ (k + 1) - 1 = k /\ L - (k + 1) + 1 = i
      BY <1>1, <1>6, <2>1
    <3>2. r[k + 1] = (r[(k + 1) - 1] + Shifted(text[L - (k + 1) + 1], (k + 1) - 1)) % W
      BY <1>3, <3>1
    <3>3. QED
      BY <2>2, <2>4, <3>1, <3>2
  <2>8. ((s + y) + x) % W = (((s + y) % W) + x) % W
    <3>1. s + y \in Nat
      OBVIOUS
    <3>2. QED
      BY <1>1, <3>1, RemainderFacts
  <2>9. rest(k) = z /\ rest(k + 1) = x
    BY <2>1, <2>2, <2>4
  <2> HIDE DEF rest
  <2>10. QED
    BY <1>6, <2>4, <2>6, <2>7, <2>8, <2>9
<1>7. h[L] = (r[0] + rest(0)) % W
  <2>1. L - 0 = L /\ L \in 0..L /\ 0 \in Nat
    BY <1>1
  <2>2. h[L] \in Nat /\ h[L] < W
    BY <1>1, <1>5, <2>1
  <2>3. rest(0) = h[L]
    BY <2>1, <2>2, ShiftedFacts
  <2>4. h[L] % W = h[L]
    BY <1>1, <2>2, RemainderFacts
  <2> HIDE DEF rest
  <2>5. QED
    BY <1>3, <2>2, <2>3, <2>4
<1>8. h[L] = (r[n] + rest(n)) % W
  <2> HIDE DEF rest
  <2> DEFINE T == {k \in 0..n : h[L] # (r[k] + rest(k)) % W}
  <2>1. SUFFICES ASSUME T # {} PROVE FALSE
    BY <1>1
  <2>2. T \in SUBSET Nat
    BY <1>1
  <2>3. PICK m \in T : \A k \in T : m <= k
    <3> HIDE DEF T
    <3> QED
      BY <2>1, <2>2, LeastNatural
  <2>4. m \in 0..n /\ h[L] # (r[m] + rest(m)) % W
    OBVIOUS
  <2>5. m # 0
    BY <1>7, <2>4
  <2>6. PICK k \in Nat : m = k + 1 /\ k < n /\ k \in 0..n
    <3>1. m - 1 \in Nat /\ m = (m - 1) + 1 /\ m - 1 < n /\ m - 1 \in 0..n
      BY <1>1, <2>4, <2>5
    <3>2. QED
      BY <3>1
  <2>7. k \notin T
    <3> HIDE DEF T
    <3> QED
      BY <1>1, <2>3, <2>4, <2>6
  <2>8. h[L] = (r[k] + rest(k)) % W
    BY <2>6, <2>7
  <2>9. h[L] = (r[k + 1] + rest(k + 1)) % W
    BY <1>6, <2>6, <2>8
  <2>10. QED
    BY <2>4, <2>6, <2>9, Zenon
<1>9. rest(n) = 0
  <2>1. h[L - n] = 0
    <3>1. CASE n = L
      BY <1>1, <1>4, <3>1
    <3>2. CASE n # L
      <4>1. L - n \in 1..L /\ n < L
        BY <1>1, <3>2
      <4>2. QED
        BY <1>2, <1>4, <4>1 DEF Decimal
    <3>3. QED
      BY <3>1, <3>2
  <2>2. Shifted(0, n) = 0
    <3>1. PICK zero \in Nat : zero = 0
      OBVIOUS
    <3>2. QED
      BY <1>1, <3>1, ShiftedRemainder
  <2>3. QED
    BY <2>1, <2>2
<1> HIDE DEF rest
<1>10. r[n] = r[n] % W /\ r[n] \in Nat
  <2>1. n \in 0..n
    BY <1>1
  <2>2. r[n] \in Nat
    BY <1>3, <2>1
  <2>3. r[n] < W
    <3>1. CASE n = 0
      BY <1>1, <1>3, <3>1
    <3>2. CASE n # 0
      <4>1. n \in 1..n /\ n - 1 \in 0..n /\ n - 1 \in Nat /\ L - n + 1 \in 1..L
        BY <1>1, <3>2
      <4>2. r[n - 1] \in Nat /\ text[L - n + 1] \in Nat
        BY <1>2, <1>3, <4>1
      <4>3. PICK u \in Nat : u = r[n - 1] + Shifted(text[L - n + 1], n - 1)
        <5>1. Shifted(text[L - n + 1], n - 1) \in Nat
          BY <4>1, <4>2, ShiftedFacts
        <5>2. QED
          BY <4>2, <5>1
      <4>4. r[n] = u % W
        BY <1>3, <4>1, <4>3
      <4>5. QED
        BY <1>1, <4>4, RemainderFacts
    <3>3. QED
      BY <3>1, <3>2
  <2>4. QED
    BY <1>1, <2>2, <2>3, RemainderFacts
<1>11. r[n] + 0 = r[n]
  BY <1>10
<1>12. QED
  BY <1>3, <1>4, <1>8, <1>9, <1>10, <1>11

-----------------------------------------------------------------------------
(* The invariant: whatever the dataflow holds is about places of its plan. *)

Inv ==
    /\ plan \in Plans
    /\ \A buffer \in mailbox : \E o \in Places(plan) : buffer = Buffer(Address(o))
    /\ \A addr \in DOMAIN operators :
          \E o \in Places(plan) :
              Address(o) = addr /\ operators[addr] = NewOperator(addr, o.code)

LEMMA InvInit == PlanInit => Inv
BY DEF PlanInit, Inv

LEMMA InvNext == Inv /\ [PlanNext]_planVars => Inv'
<1> SUFFICES ASSUME Inv, [PlanNext]_planVars
             PROVE  Inv'
  OBVIOUS
<1>1. ASSUME NEW o \in Places(plan), HostSend(o)
      PROVE  Inv'
  BY <1>1 DEF HostSend, Inv
<1>2. ASSUME NEW buffer \in mailbox, Receive(buffer)
      PROVE  Inv'
  <2> DEFINE addr == AddressIn(buffer)
  <2>1. plan' = plan /\ plan \in Plans /\ mailbox' = mailbox \ {buffer}
    BY <1>2 DEF Receive, Inv
  <2>2. PICK o \in Places(plan) : buffer = Buffer(Address(o))
    BY DEF Inv
  <2>3. addr = Address(o) /\ Get(plan, buffer) = o.code
    BY <2>1, <2>2, PlaceFacts, BufferFacts
  <2>4. /\ DOMAIN operators' = DOMAIN operators \cup {addr}
        /\ \A a \in DOMAIN operators' :
              operators'[a] = IF a \in DOMAIN operators THEN operators[a]
                              ELSE NewOperator(addr, o.code)
    BY <1>2, <2>3 DEF Receive
  <2> HIDE DEF addr
  <2>5. QED
    BY <2>1, <2>3, <2>4 DEF Inv
<1>3. ASSUME NEW addr \in DOMAIN operators, Send(addr)
      PROVE  Inv'
  <2>1. /\ plan' = plan /\ operators' = operators
        /\ mailbox' = mailbox \cup {Buffer(operators[addr].ds)}
        /\ plan \in Plans /\ operators[addr].op = "OUT"
    BY <1>3 DEF Send, Inv
  <2>2. PICK o \in Places(plan) :
             Address(o) = addr /\ operators[addr] = NewOperator(addr, o.code)
    BY DEF Inv
  <2>3. o.code.op = "OUT" /\ operators[addr].ds = DownstreamAddr(addr, o.code.ds)
    BY <2>1, <2>2 DEF NewOperator
  <2>4. \E p \in Places(plan) : Address(p) = operators[addr].ds
    BY <2>1, <2>2, <2>3, PlaceFacts, DownstreamFacts
  <2>5. QED
    BY <2>1, <2>4 DEF Inv
<1>4. CASE UNCHANGED planVars
  BY <1>4 DEF planVars, Inv
<1>5. QED
  BY <1>1, <1>2, <1>3, <1>4 DEF PlanNext

LEMMA InvHolds == PlanSpec => []Inv
BY InvInit, InvNext, PTL DEF PlanSpec

\* No address is sent that was never written, and every one leaves room in its
\* buffer for its length: the assertion in flush_ds_addr_to_msg does not fail,
\* for whatever plan, branches and buffer size.
THEOREM AddressesAreWritten == PlanSpec => []BuffersWritten
<1>1. Inv => BuffersWritten
  <2> SUFFICES ASSUME Inv, NEW buffer \in mailbox
               PROVE  /\ Len(buffer) = MaxAddrLen /\ buffer[1] < MaxAddrLen
                      /\ \A i \in DOMAIN buffer : buffer[i] # Unset
    BY DEF BuffersWritten
  <2>1. PICK o \in Places(plan) : buffer = Buffer(Address(o))
    BY DEF Inv
  <2>2. Address(o) \in Seq(Byte) /\ Len(Address(o)) < MaxAddrLen
    BY PlaceFacts DEF Inv
  <2>3. /\ buffer \in Seq(Byte) /\ Len(buffer) = MaxAddrLen
        /\ buffer[1] = Len(Address(o))
    BY <2>1, <2>2, BufferFacts
  <2>4. \A i \in DOMAIN buffer : buffer[i] \in Byte
    BY <2>3, LenProperties
  <2>5. QED
    BY <2>2, <2>3, <2>4, LengthIsByte
<1>2. QED
  BY <1>1, InvHolds, PTL

\* The walk of op_code_tree::get over the bytes of an address finds the operator
\* the address names, at every depth: no operator runs the code of another.
THEOREM OperatorsHaveTheirCode == PlanSpec => []OwnCode
<1>1. Inv => OwnCode
  BY DEF Inv, OwnCode, NewOperator
<1>2. QED
  BY <1>1, InvHolds, PTL

\* What an operator sends goes to the operator its plan names, in the branch the
\* sender runs in: get_downstream_addr changes the last field and nothing else.
THEOREM ResultsStayInTheBranch == PlanSpec => []SameBranch
<1>1. Inv => SameBranch
  <2> SUFFICES ASSUME Inv, NEW o \in Places(plan),
                      Address(o) \in DOMAIN operators, o.code.ds # -1
               PROVE  operators[Address(o)].ds = Address([o EXCEPT !.id = o.code.ds])
    BY DEF SameBranch
  <2>1. plan \in Plans
    BY DEF Inv
  <2>2. PICK p \in Places(plan) :
             /\ Address(p) = Address(o)
             /\ operators[Address(o)] = NewOperator(Address(o), p.code)
    BY DEF Inv
  <2>3. p.code = o.code
    <3>1. Get(plan, Buffer(Address(p))) = p.code /\ Get(plan, Buffer(Address(o))) = o.code
      BY <2>1, PlaceFacts
    <3>2. QED
      BY <2>2, <3>1
  <2>4. operators[Address(o)].ds = DownstreamAddr(Address(o), o.code.ds)
    BY <2>2, <2>3 DEF NewOperator
  <2>5. QED
    BY <2>1, <2>4, DownstreamFacts
<1>2. QED
  BY <1>1, InvHolds, PTL

\* A LIMIT counts to the number its parameter says: the loop over the text from
\* its end meets every digit, the first one too, and none beyond them.
THEOREM LimitsAreDecimal == PlanSpec => []LimitIsDecimal
<1>1. Inv => LimitIsDecimal
  <2> SUFFICES ASSUME Inv, NEW o \in Places(plan),
                      o.code.op = "LIMIT", Address(o) \in DOMAIN operators
               PROVE  operators[Address(o)].limit = FoldLeft(Decimal, 0, o.code.params)
    BY DEF LimitIsDecimal
  <2>1. plan \in Plans
    BY DEF Inv
  <2>2. PICK p \in Places(plan) :
             /\ Address(p) = Address(o)
             /\ operators[Address(o)] = NewOperator(Address(o), p.code)
    BY DEF Inv
  <2>3. p.code = o.code
    <3>1. Get(plan, Buffer(Address(p))) = p.code /\ Get(plan, Buffer(Address(o))) = o.code
      BY <2>1, PlaceFacts
    <3>2. QED
      BY <2>2, <3>1
  <2>4. operators[Address(o)].limit = StringToUnsignedInt(o.code.params)
    BY <2>2, <2>3 DEF NewOperator
  <2>5. o.code.params \in Seq(Nat)
    <3>1. PICK path \in OperatorPaths(plan) : o.code = plan[path].code
      BY DEF Places, PlaceAt
    <3>2. QED
      BY <2>1, <3>1, PlansAssumption
  <2>6. QED
    BY <2>4, <2>5, SumIsDecimal
<1>2. QED
  BY <1>1, InvHolds, PTL
===========================================================================
