---------------------------- MODULE OperatorPlan ----------------------------
(***************************************************************************)
(* How a dataflow turns the address of a message into an operator.  The    *)
(* address travels in a buffer of fixed size; op_code_tree walks over its  *)
(* bytes to the code of the operator, and the operator derives from its    *)
(* own address the one it sends to, of which it knows only the last field. *)
(*                                                                         *)
(* What the messages carry, and the lives of the operators after their     *)
(* creation, are left to module Dataflow.                                  *)
(***************************************************************************)
EXTENDS Integers, FiniteSets, Sequences, SequencesExt

CONSTANTS
    Plans,          \* op_code_tree: the plans a query may have
    DataflowId,     \* the first field of every address
    BranchId,       \* branches that occur in addresses
    MaxAddrLen,     \* max_addr_len
    WordModulus,    \* uint32_t wraps here
    Unset,          \* a byte that has been allocated and not written
    MaxMail         \* bound: the host sends only below this many messages

\* Fields are little-endian: operator_id_t takes two bytes, branch_id_t four.
IdField(i) == <<i % 256, i \div 256>>
BranchField(i) == IdField(i % 65536) \o IdField(i \div 65536)

\* op_code_tree as a function from the path of a node, the ids that lead to it
\* from the head, to the node: an operator has a code, any other node skips the
\* branch of its group, but for the head, which has none.
Id == 0..32767      \* operator_id_t is signed, and an id is an index
Root == <<>>

IsOperator(node) == "code" \in DOMAIN node

\* The places of the operators of a plan: the groups and branches that lead
\* there, and the number of the operator in its branch.
PlaceAt(nodes, path, branches) ==
    [scope |-> [i \in 1..(Len(path) - 1) |-> <<path[i], branches[i]>>],
     id    |-> path[Len(path)],
     code  |-> nodes[path].code]

OperatorPaths(nodes) == {path \in DOMAIN nodes : IsOperator(nodes[path])}

Places(nodes) ==
    UNION {{PlaceAt(nodes, path, branches) : branches \in [1..(Len(path) - 1) -> BranchId]} :
           path \in OperatorPaths(nodes)}

\* The address format of tag_message.
Address(o) ==
    DataflowId
    \o FlattenSeq([i \in DOMAIN o.scope |->
                      IdField(o.scope[i][1]) \o BranchField(o.scope[i][2])])
    \o IdField(o.id)

ASSUME WidthAssumption ==
    /\ DataflowId \in [1..2 -> 0..255]
    /\ BranchId \subseteq Nat /\ \A b \in BranchId : b \div 65536 < 65536
    /\ MaxAddrLen \in 1..256 /\ Unset \notin 0..255
    /\ WordModulus \in Nat \ {0}

\* A plan is a tree below its head.  Addresses fit in a buffer behind their
\* length.  A downstream is an operator of the same branch, and every operator
\* that sends has one.
ASSUME PlansAssumption ==
    \A nodes \in Plans :
        /\ DOMAIN nodes \subseteq Seq(Id) /\ ~IsOperator(nodes[Root])
        /\ \A path \in DOMAIN nodes \ {Root} :
              /\ Front(path) \in DOMAIN nodes /\ ~IsOperator(nodes[Front(path)])
              /\ ~IsOperator(nodes[path]) => nodes[path].ignoreLen = 4
        /\ nodes[Root].ignoreLen = 0
        /\ \A path \in OperatorPaths(nodes) :
              LET code == nodes[path].code IN
              /\ 6 * Len(path) - 2 < MaxAddrLen
              /\ code.op = "OUT" => code.ds # -1
              /\ code.params \in Seq(Nat)
              /\ code.ds # -1 => Append(Front(path), code.ds) \in OperatorPaths(nodes)

VARIABLES
    plan,           \* dataflow::_op_codes, fixed when the dataflow is made
    mailbox,        \* the address buffers of the messages in dataflow::_mailbox
    operators       \* address -> the operator created for it

planVars == <<plan, mailbox, operators>>

-----------------------------------------------------------------------------
(* string_to_unsigned_int.  Characters are the digits 0..9 and others.  The *)
(* loop runs down over the first character to the byte before the text,    *)
(* which is the top byte of a length and no digit.                         *)

\* The number of digits at the end of a text.
Digits(text) ==
    CHOOSE n \in 0..Len(text) :
        /\ \A i \in (Len(text) - n + 1)..Len(text) : text[i] \in 0..9
        /\ n < Len(text) => text[Len(text) - n] \notin 0..9

\* A digit followed by k zeros, as far as the word holds it.
Shifted(digit, k) ==
    LET temp[j \in 0..k] ==
            IF j = 0 THEN digit ELSE (10 * temp[j - 1]) % WordModulus
    IN  temp[k]

\* The sum of the last n digits, each shifted to its place.
SumOfDigits(text, n) ==
    LET result[k \in 0..n] ==
            IF k = 0 THEN 0
            ELSE (result[k - 1] + Shifted(text[Len(text) - k + 1], k - 1)) % WordModulus
    IN  result[n]

StringToUnsignedIntPositive(text) ==    \* mutant: the loop ends at i > 0
    SumOfDigits(text, IF Digits(text) = Len(text) /\ text # <<>> THEN Len(text) - 1
                      ELSE Digits(text))

StringToUnsignedInt(text) == SumOfDigits(text, Digits(text))

-----------------------------------------------------------------------------
(* The walk over an address, and the address of the downstream. *)

\* flush_ds_addr_to_msg, into a buffer that tag_message has set to zero.
Buffer(addr) ==
    <<Len(addr)>> \o addr \o [i \in 1..(MaxAddrLen - 1 - Len(addr)) |-> 0]

AddressIn(buffer) == SubSeq(buffer, 2, 1 + buffer[1])

\* The operator_id_t at offset d of the address in a buffer.
IdAt(buffer, d) == buffer[d + 2] + 256 * buffer[d + 3]

\* A step of op_code_tree::get skips an id and, but for the head, a branch, and
\* follows the id that comes next.
StepIdOnly(node, d) == d + 2                                        \* mutant

Step(node, d) == d + 2 + node.ignoreLen

Onward(nodes, buffer, at) ==
    LET d == Step(nodes[at.path], at.offset)
    IN  [path |-> Append(at.path, IdAt(buffer, d)), offset |-> d]

\* op_code_tree::get goes on from the head to a node that is an operator, and
\* never looks at the length of the address.
NextNode(nodes, buffer, at) ==
    IF IsOperator(nodes[at.path]) THEN at ELSE Onward(nodes, buffer, at)

Get(nodes, buffer) ==
    LET walk[k \in 0..MaxAddrLen] ==
            IF k = 0 THEN [path |-> Root, offset |-> 0]
            ELSE NextNode(nodes, buffer, walk[k - 1])
    IN  nodes[walk[MaxAddrLen].path].code

\* The downstream address of operator_base: its own with another last field;
\* without a downstream it is allocated and not written.
DownstreamAddrOuter(addr, ds) == DataflowId \o IdField(ds)          \* mutant

DownstreamAddr(addr, ds) ==
    IF ds = -1 THEN [i \in 1..Len(addr) |-> Unset]
    ELSE SubSeq(addr, 1, Len(addr) - 2) \o IdField(ds)

-----------------------------------------------------------------------------
(* The host, the dataflow and its operators. *)

PlanInit == plan \in Plans /\ mailbox = {} /\ operators = <<>>

HostSend(o) ==
    /\ Cardinality(mailbox) < MaxMail
    /\ mailbox' = mailbox \cup {Buffer(Address(o))}
    /\ UNCHANGED <<plan, operators>>

\* The operator that process_mailbox creates for a code, at an address.
NewOperator(addr, code) ==
    [op    |-> code.op,
     ds    |-> DownstreamAddr(addr, code.ds),
     limit |-> IF code.op = "LIMIT" THEN StringToUnsignedInt(code.params) ELSE 0]

\* process_mailbox: the first message to an address creates its operator.
Receive(buffer) ==
    LET addr == AddressIn(buffer)
    IN  /\ mailbox' = mailbox \ {buffer}
        /\ operators' = [a \in DOMAIN operators \cup {addr} |->
                            IF a \in DOMAIN operators THEN operators[a]
                            ELSE NewOperator(addr, Get(plan, buffer))]
        /\ UNCHANGED plan

\* An OUT sends data or EOS to its downstream; a LIMIT sends nothing.
SendLimitToo(addr) ==               \* mutant: LIMIT passes its last EOS on
    /\ mailbox' = mailbox \cup {Buffer(operators[addr].ds)}
    /\ UNCHANGED <<plan, operators>>

Send(addr) ==
    /\ operators[addr].op = "OUT"
    /\ mailbox' = mailbox \cup {Buffer(operators[addr].ds)}
    /\ UNCHANGED <<plan, operators>>

PlanNext ==
    \/ \E o \in Places(plan) : HostSend(o)
    \/ \E buffer \in mailbox : Receive(buffer)
    \/ \E addr \in DOMAIN operators : Send(addr)

PlanSpec == PlanInit /\ [][PlanNext]_planVars

-----------------------------------------------------------------------------
(* Properties. *)

\* Every buffer is full of written bytes, and the address in it leaves room for
\* its length: the assertion of flush_ds_addr_to_msg holds, and nothing is sent
\* to a downstream address that was never written.
BuffersWritten ==
    \A buffer \in mailbox :
        /\ Len(buffer) = MaxAddrLen /\ buffer[1] < MaxAddrLen
        /\ \A i \in DOMAIN buffer : buffer[i] # Unset

\* The walk reads the fields of an address that its format names, at every
\* depth of the plan: an operator is created with the code of its own place.
OwnCode ==
    \A addr \in DOMAIN operators :
        \E o \in Places(plan) : Address(o) = addr /\ o.code.op = operators[addr].op

\* Results stay in the branch they were computed in: the downstream of an
\* operator is the operator of its own branch with the number the plan names.
SameBranch ==
    \A o \in Places(plan) :
        Address(o) \in DOMAIN operators /\ o.code.ds # -1 =>
            operators[Address(o)].ds = Address([o EXCEPT !.id = o.code.ds])

\* The limit of a LIMIT is the decimal number its parameter ends in, modulo the
\* width of the counter: all its digits count, the first one too, and a
\* character that is no digit starts the number afresh.
Decimal(n, c) == IF c \in 0..9 THEN (10 * n + c) % WordModulus ELSE 0

LimitIsDecimal ==
    \A o \in Places(plan) :
        o.code.op = "LIMIT" /\ Address(o) \in DOMAIN operators =>
            operators[Address(o)].limit = FoldLeft(Decimal, 0, o.code.params)
=============================================================================
