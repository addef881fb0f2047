# A TLA+ development of lightquery

lightquery runs a graph query as a *dataflow*: a group of operator actors that
send each other batches of vertices until the answer is complete. Everything
runs on the thread that calls `dataflow::run_and_dispose`, but nothing runs in a
fixed order: messages go through one mailbox, actors through one task queue,
slices expire, scopes are cancelled while their actors work, and actors end
themselves. This directory models that engine, the radix tree it finds its
actors with, and the client of `tests/test_operator.cc`; TLC checks the models
on small instances, and TLAPS proves

* for every plan, graph and host: the engine keeps its main properties, implements
  an abstract pool of actors, and agrees with the index it calls; and where results
  never come back to the operator they began at, every step of a run lowers a
  well-founded measure;
* for every chain of operators and every query: the client gets the answer, in order
  and without loss, EOS comes last, nothing is left alive at the end, and the steps
  towards that end cannot go on for ever;
* for every plan: the walk over an address finds its operator at every depth, and a
  LIMIT its number;
* for the real sizes of the four layouts of a tree node: they keep exactly their
  children.

Paths below are relative to the repository (`src/` in `PROJECT.json`).

## 1. The system

| Part | State | Operations | Module |
|---|---|---|---|
| dataflow, `src/dataflow.cc` | `_mailbox`, `_task_queue`, `_actor_tree`, `_num_terminating_children`, `_terminating` | `enque_message`, `enque_urgent_message`, `run_and_dispose`, `process_mailbox`, `handle_scope_cancellation`, `handle_child_termination`, `handle_child_terminated`, `handle_stop_from_parent` | `Dataflow`, `IndexedDataflow`, `ScopedActors`, `ActorPool` |
| actor core, `src/actor_core.cc` | `_is_active`, `_terminating`, `_mailbox`, `_execution_count` | `enque_message`, `activate`, `deque_message`, `not_expired`, `clean_mailbox` | `Dataflow` |
| stateless actor, `src/actor_implementation.cc` | (as above) | `run_and_dispose`, `handle_stop_from_parent` | `Dataflow` |
| operators, `src/operators.cc`, `src/operator_base.cc` | `_num_rcv_eos`, `_cur_cnt`, `_out_payload` | `do_work` of OUT and LIMIT, `flush_out_payload`, `send_eos` | `Dataflow` |
| client, `tests/test_operator.cc` | how far its script is | `main` | `QueryClient`, `Traversal` |
| index, `util/radix_tree_index.hh`, `src/util/art.cc` | the tree, its size | `lookup`, `get`, `contains`, `insert`, `disable`, `remove_key`, `remove_prefix`, `iter_prefix_apply` | `Art`, `ArtIndex`, `PrefixIndex` |
| tree nodes, `src/util/art.cc` | four layouts | `find_child`, `add_child*`, `remove_child*` | `ArtNode` |
| operator plan, `op_code_tree.hh` | a constant tree of op codes | `get`, `string_to_unsigned_int` of `dataflow.cc` | `OperatorPlan`; constants of `Dataflow` |
| addresses, `tag_message.hh`, `operator_base.cc` | the address buffer of a message, the downstream address of an operator | `tag_message`, `operator_base`, `flush_ds_addr_to_msg` | `OperatorPlan` |
| graph store, `graph_handle`, `ldb.hh` | a prebuilt library | `GetOutV`, `GetNext` | constant `GetOutV` |

How they interact. `process_mailbox` takes a message from the mailbox of the
dataflow, asks the index for the actor of its address, creates and inserts the
actor when there is none, drops the message when the address is disabled, and
otherwise puts the message into the actor's own mailbox, which activates the
actor: a raw pointer goes to the task queue. The task loop runs the actors. An
actor works on its messages; its operator sends results to the mailbox of the
*dataflow*, never to another actor directly. An actor that is done calls back
`handle_child_termination`, which disables its address and tells the same
actor to stop; when its loop ends it reports `handle_child_terminated` and
deletes itself. A `CANCEL_SCOPE` message, or a stop of the dataflow, does the
same to all live actors below a prefix.

What is hard here:

* the pointer of an actor is in up to three places (index, task queue, call
  stack), and `delete this` is right only if the first two no longer hold it;
* `_is_active` stands for "in the task queue or running", and an actor that
  leaves its loop with messages left has to activate itself again;
* cancellation, stop and self-termination overlap, and each actor must be
  counted once in an unsigned counter;
* data and EOS of all operators share one queue, are cut into payloads, and a
  LIMIT that is full discards the EOS that would have ended it;
* the clock of a slice is never started, so progress depends on the reset of a
  counter in `not_expired`;
* the tree stores ten bytes of a prefix at most, trusts the rest, shortens the
  keys of disabled leaves, and changes layouts as it grows and shrinks;
* a cancellation stops what the *iteration* of the tree reaches and disables
  what the *prefix* names: the lives of the actors are right only if both agree;
* an address is bytes in a buffer of 19, read by a walk that never looks at its
  length and rewritten by an operator that knows one field of its downstream.

`PROJECT.json` lists 31 hazards of these kinds with their lines.

## 2. The modules

```
Traversal      what a query promises
   ^ refined by
QueryClient -- EXTENDS -> Dataflow -- refines -> ActorPool <- refines -- ScopedActors
   ^ MCQueryClient          ^ MCDataflow                       ^ MCScopedActors
   ^                        ^ DataflowProofs (with SequenceFacts)    | EXTENDS
QueryProofs -- EXTENDS ->       ^ DataflowTheorems                   v
   ^ TraversalProofs                           ArtIndex -- EXTENDS -> Art
                                                   ^ MCArtIndex
                                                   v refines
Dataflow <- EXTENDS -- IndexedDataflow -- uses -> PrefixIndex
                          ^ MCIndexedDataflow
OperatorPlan              ^ IndexedProofs
   ^ MCOperatorPlan
   ^ OperatorPlanProofs                        ArtNode <- ArtNodeProofs
```

`SequenceFacts` is EXTENDed by every module with proofs.

**`Dataflow`** is the engine. `pc` names the loop of the code that is executing:
`"idle"` (between two runs; only then does the host act, since it is the same
thread), `"mailbox"` (`process_mailbox`), `"tasks"` (the task loop) and
`"actor"` (the loop of `stateless_actor::run_and_dispose` for the actor
`running`). One action is one turn of such a loop and makes every call of that
turn: `OutLastEos`, for instance, counts the EOS, flushes the payload, sends the
EOS and runs the whole `handle_child_termination`. The outcomes of a turn are
actions of their own (`UserToLive`, `UserToAbsent`, `UserToDisabled`,
`CancelScope`, ...). `life` is the storage of an actor (`none`, `alive`,
`freed`), which the code has no variable for. Of the index only the answers
matter here: an address is `absent`, `live` or `disabled`.

The plan, the graph and the host are constants. Actions take any plan of OUT and
LIMIT operators, any graph, any number of upstreams, any payload capacity, and a
host that sends any messages of `HostMessage` in any order, urgent or not.

**`IndexedDataflow`** puts `Dataflow` and the abstract index side by side. Every
step that calls `_actor_tree` in the code makes the same call of `PrefixIndex`, on
keys and prefixes of bytes; the other steps leave it alone. `Dataflow` itself keeps
one word per address, by rules of its own (a prefix disables what is below it, an
empty index forgets): that the index would answer the same is a property here and
not an assumption. `CallInsert` has no guard, so `KeepsContract` is about the
dataflow.

**`ActorPool`** is what the dataflow promises about actors: an actor is created
once per address, works until it is told to stop, and is deleted once; a stop
takes in all live actors of a scope and none besides, and bars the addresses
that have no actor yet. `Pool` in `Dataflow` maps an actor's phase (absent, live,
stopping, gone) from index, storage and `terminating`, and the pool's count to
`_num_terminating_children`.

**`ScopedActors`** is the group over the *tree*. `Dataflow` takes the answers of
the index as exact; here `ArtLookup` decides which actor a message reaches,
`art_iter_active_prefix` which actors a cancellation counts and stops, and
`art_disable` which addresses are barred, on addresses of real widths. What
operators compute is left out: a message is any work, any work may end with
`handle_child_termination`, and messages are taken from the dataflow's mailbox
between any two tasks (as when its slice expires), which allows more orders than
the code has. The module refines `ActorPool` too.

**`OperatorPlan`** follows an address from the host's buffer, byte by byte,
through the walk of `op_code_tree::get` to the operator that is created, to the
downstream address that `operator_base` derives, and into the buffer the
operator sends. The parameter of a LIMIT goes through `string_to_unsigned_int`;
characters are the digits and one other. The tree of op codes is a function from
paths to nodes: a path lists the ids that lead from the head to a node, an inner
node has the length the walk skips (none at the head, the four bytes of a branch
in a group), and a node with a code is an operator. `PlansAssumption` says what
`dummy_insert_simple` satisfies and any plan has to: paths form a tree, addresses
fit in the buffer, and the downstream of an operator, which every OUT has, is an
operator beside it.

**`QueryClient`** puts the client of `test_operator.cc` on top: its script of
payloads and one EOS, and a run whenever it likes. **`Traversal`** is what the
client is owed: the answer in order, without gap or repetition, then the end.
The refinement maps `results` to what LIMIT printed and `finished` to "all
operators are deleted". `Safe` is the part of the promise without its fairness.
`Ahead` of `QueryClient` is what the data under way will become: operator by
operator from the end of the chain, what waits in its inbox, then in the shared
mailbox, then in the payload of the operator before it, each node replaced by
its neighbours at the hops that are left.

**`Art`** holds the algorithms of the tree as functions on nested records; where
the code overwrites the slot `ref`, the function returns the new contents of the
slot. Children are a function from bytes to nodes; that the four layouts of a
node implement such a function is what **`ArtNode`** shows. Its lists are the
arrays of NODE4 and NODE16 up to `num_children`; a NODE48 has a slot per byte (0
for none) and its children by slot; the sizes of the layouts are constants, of
which `LayoutAssumption` says only how they lie to each other. `minimum` takes the
first child; any leaf below would do for the bytes it is asked for, since all
leaves share them (`TypeOK` of `ArtIndex`), so its order does not matter to the
dataflow. **`ArtIndex`** is `radix_tree_index` as a state machine, and
**`PrefixIndex`** is what it promises: a set of active keys and a set of
disabled prefixes.

**`MC*`** modules only give constants their values.

## 3. The runs

| Run | Instance | States | Shows |
|---|---|---|---|
| `dataflow` | plan of `dummy_insert_simple` (OUT into LIMIT) and the bytes of its addresses in the abstract index, payloads of 2, slices of 2 that may expire, limit 2 | 363 458 | the named invariants and action properties of section 4; `ActorPool` is implemented; the answers `Dataflow` relies on are those of `PrefixIndex`, whose contract it keeps; every run returns, and every step of it descends |
| `branches` | three operators in two branches of an inner scope, two upstreams, slices of 3, a LIMIT of zero | 2 642 637 | `Consistent`, and `ActorPool` implemented, when scopes nest and overlap |
| `query` | two OUTs and a LIMIT of 5, three vertices, 21 queries | 9 710 | `Traversal` is implemented; the answer is in sight at any time; EOS is last; nothing is left alive and the answer is whole on return; every step descends |
| `index` | addresses and prefixes of a plan with a nested scope, real field widths, `MAX_PREFIX_LEN` 10 | 10 192 | `PrefixIndex` is implemented; lookups, gets and cancellations are exact, whatever was removed before |
| `actors` | four actors in scopes that nest, the real tree | 24 537 | `ActorPool` is implemented; pointers in the tree are those of live actors |
| `plan` | the plan of the repository, one with a group, one with two levels of groups | 19 238 | messages find their operators and stay in their branch |
| `node_layouts` | capacities 3, 5, 7, thresholds 2, 4, 5, eight bytes | 325 964 | a node finds and visits exactly its children, and its slots are coherent |
| `stop_answer` | as `dataflow`, a host that keeps running the dataflow | violation | see section 6 |
| `early_cancel` | as `dataflow` | violation | see section 6 |
| `stray_cancel` | as `actors`, two groups side by side | violation | see section 6 |
| `index_size` | two groups side by side | violation | see section 6 |
| `prefix_removal` | as `index` | violation | see section 6 |

Every property of a passing run is broken by at least one mutated definition
(`mutants` in `PROJECT.json`; the mutated operators stand beside the originals,
marked `mutant`).

Bounds, and why they are enough:

* `MaxMail` (2 or 3) bounds what the host has in the mailbox at once, not what
  it sends in all, nor what operators send. Three messages are two for the
  same actor and one that cancels, stops or ends it.
* Payloads of 2 on a graph where a vertex has three neighbours: one message
  fills a payload and leaves a rest; two fill it exactly. The code's capacity
  only moves these cases.
* `ExecInterval` 2 or 3 for the code's 10: a slice ends after one or two
  messages, so every action can be the last one of a slice. With
  `ClockAnswers = {FALSE}` (what the code does, as `_start_time` is never set)
  a slice always ends there, with `BOOLEAN` the clock may also extend it.
* Each address is used once by construction (a disabled one never returns), so
  the state space is finite without bounding the number of runs.
* In `actors` the mailbox of an actor is empty or not, so it needs no bound. Its
  four actors are one beside the scopes, two in one branch and one in the other
  branch, below a further group: prefixes of nodes are stored whole, stored in
  part and split. `SizeModulus` 1 says that the size of the tree is not tracked.
* In `dataflow` the scopes are single actors and the stop of the group contains them,
  each before or after the first message to it and before or after its own
  end: the index is disabled when it is empty, below a disabled prefix, and above
  one. `branches` nests scopes and cancels them, with slices that always end.
* In `plan` the mailbox is a set of buffers and `MaxMail` 1 keeps the host from
  sending before it is empty, since the order of messages does not matter to
  where they go. `BranchId` has 0 and 65536, a number in the upper half of its
  field, the deep plan fills the 19 bytes of the buffer as far as whole fields
  can, and `WordModulus` 256 stands for 2^32: one limit of the plans exceeds it.
* In `index`, keys have the widths of `tag_message` (two bytes for an id, four
  for a branch, little-endian), and nested scopes make prefixes longer than the
  ten bytes a node stores. `SizeModulus` 16 stands for 2^64: far above the
  number of keys. In `node_layouts` capacities and thresholds keep the order
  they have in the code (4, 16, 48, 256; 3, 12, 37), and eight bytes let a node
  pass through all four layouts and back; `num_children` wraps at 8 as the
  code's wraps at 256.

Fairness. `FairSpec` (and `IndexedFairSpec`, the same with the index) assumes
`WF(Engine)`: `run_and_dispose` is a loop of one thread that nothing blocks, so
once entered it keeps taking steps; it may choose
any order the model allows. Nothing is assumed of the host, except in
`HostedSpec` (`stop_answer`), where a host keeps calling `run_and_dispose`, and
in `ClientSpec`, where the client is one thread that goes on with its script.
`CHECK_DEADLOCK FALSE` is set only in `MCQueryClient.cfg`: `main` returns.

## 4. What the properties say

* `IndexSound`: the index maps an address to an actor exactly when that actor
  exists and has not been told to stop. No pointer to a deleted actor is ever
  followed, and no second actor is created beside a dying one.
* `ScheduledOnce`: `_is_active` means "queued or running", and no actor is
  queued twice, queued while it runs, or queued after its deletion.
* `NoLostWakeUp`: an actor with messages, or told to stop, is scheduled.
* `CountExact`: `_num_terminating_children` is the number of actors told to stop
  and not yet deleted, however cancellations, stops and self-terminations
  overlap. `Consistent` is the conjunction of these four.
* `QuietWhenIdle`: a run that returns leaves no delivered message behind; only
  actors reached by a stop of the dataflow can still be queued.
* `DoneOperatorsStop`: a full LIMIT and an OUT with its last EOS have been told
  to stop, and the OUT has sent all it computed.
* `DisabledForever`, `OnlyLiveActorsCancel`: what no step may do. A disabled
  address never speaks or lives again; only live actors are told to stop (the
  `assert` of `handle_child_termination`).
* `ImplementsPool` (of `Dataflow` and of `ScopedActors`): actors live as the
  abstract pool says, once per address, and a scope is stopped all at once.
* `ActorsExist`: the pointer that a lookup returns is that of an actor which has
  not been deleted, when the tree itself answers.
* `AnswerInSight`: what LIMIT has printed and, behind it, all that is still under
  way in inboxes, the shared mailbox, payloads and the client's script are the
  answer, up to the limit; and once LIMIT is told to stop it has printed all of
  it. No node is lost, repeated or overtaken between two operators.
* `RunReturns`, `ImplementsTraversal`, `EosIsLast`, `NothingLeftBehind`,
  `AnswerOnReturn`: the run ends, the query gets its answer, and has all of it when
  the client's last run returns.
* `RunsDescend`: a run never spins. Each step of it lowers `Measure`: for every
  operator the messages it has yet to take, then the length of the mailbox, the
  actors scheduled, and how far the loop is from its next turn. An operator that
  takes a message may send many, but only to the operator downstream. This is
  about the reset in `not_expired`, about `activate` and about the re-activation
  at the end of a slice; `RunReturns` only says that such a loop ends some day.
* `ClientDescends`: the same of a whole query, calls of `run_and_dispose`
  included; only the next message of the script may raise the measure.
* `IndexAgrees`, `KeepsContract`: what the index holds and what `Dataflow` says of it
  agree, although a disabled prefix swallows those below it, disabling below a
  disabled prefix does nothing, and an empty index records nothing; and no key is
  inserted below a disabled prefix.
* `ImplementsIndex`, `AnswersExact`, `NoneMissed`, `NoneStray`, `SizeExact`,
  `RemovePrefixComplete`, `LayoutExact`: the tree.
* `SlotsCoherent`: bytes and children of a list stay side by side; the bytes and
  slots of a NODE48 lead to each other, so that a slot is free exactly when no
  byte leads to it, and `add_child48` finds one while the node is not full.
* `BuffersWritten`, `OwnCode`, `SameBranch`, `LimitIsDecimal`: in a plan that
  satisfies `PlansAssumption` no message goes to an address that was never written
  (what a plan does that does not fit the buffer, or whose OUT has no downstream, is
  outside the model); an operator is created with the code of its
  own place in the plan, sends within its branch, and counts to the decimal
  number its parameter ends in.

## 5. What is proved

`DataflowProofs`, `DataflowTheorems`, `IndexedProofs`, `QueryProofs`,
`TraversalProofs`, `OperatorPlanProofs` and `ArtNodeProofs` are checked by TLAPS; `SequenceFacts`
holds the lemmas on sequences and recursion they need.

| Theorem | States |
|---|---|
| `TypeCorrect` | `Spec => []TypeOK` |
| `StaysConsistent` | `Spec => []Consistent` |
| `IndexStaysSound`, `StaysScheduledOnce`, `WakeUpsKept`, `CountStaysExact` | its four parts, each as an invariant |
| `LiveActorsCancel` | `Spec => OnlyLiveActorsCancel` |
| `StaysDisabled` | `Spec => DisabledForever` |
| `RunsEndQuiet` | `Spec => []QuietWhenIdle` |
| `DoneOperatorsAreStopped` | `Spec => []DoneOperatorsStop` |
| `DataflowImplementsPool` | `Spec => ImplementsPool` |
| `EveryStepDescends` | `Acyclic => (Spec => RunsDescend /\ [](Measure \in Measures))` |
| `DescentEnds` | `Acyclic` implies that no infinite sequence of measures descends |
| `IndexStaysExact`, `ContractIsKept` | `IndexedSpec => []IndexAgrees`, `IndexedSpec => KeepsContract` |
| `ClientIsHost` | `ClientSpec => []InScript /\ Spec` |
| `EosStaysLast` | `ClientSpec => []EosIsLast` |
| `NothingIsLeft` | `ClientSpec => []NothingLeftBehind` |
| `AnswerStaysInSight` | `ClientSpec => []AnswerInSight` |
| `OnlyTheAnswerReturns` | `ClientSpec => Query!Safe`, the safety half of `ImplementsTraversal` |
| `AnswerIsThereOnReturn` | `ClientSpec => []AnswerOnReturn` |
| `ClientEnds` | `ClientSpec => ClientDescends /\ []InScript /\ [](Measure \in Measures)` |
| `AddressesAreWritten`, `OperatorsHaveTheirCode`, `ResultsStayInTheBranch` | `PlanSpec => []BuffersWritten`, `[]OwnCode`, `[]SameBranch` |
| `LimitsAreDecimal` | `PlanSpec => []LimitIsDecimal` |
| `LayoutStaysWithin`, `LayoutStaysExact`, `SlotsStayCoherent` | of `ArtNode`: `Spec => []TypeOK`, `[]LayoutExact`, `[]SlotsCoherent` |

### The engine

The assumptions are those of `Dataflow`: `PlanAssumption`, `NumberAssumption`,
`HostAssumption`. They fix no size: the theorems hold for every finite plan,
every graph, every host, every payload capacity and interval, with an unbounded
number of messages and runs.

The inductive invariant is `Inv == TypeOK /\ Consistent`. Neither half is
inductive alone. `TypeOK` needs `CountExact` to show that `numTerminating - 1` is
a natural number, and `CountExact` needs `ScheduledOnce`, for only a queued
actor that is alive is run, so that what is deleted was counted. `IndexSound`
needs `NoLostWakeUp`, for an actor that works has messages, hence has not been
stopped, hence is still in the index when it asks for its termination; and
`NoLostWakeUp` needs `ScheduledOnce`, so that "active" is worth something. The
proof that a step preserves `Inv` has one lemma per group of actions; the facts
on `StopActors`, which three handlers share, are a lemma of their own.

The action properties rest on `StepGuarded`, which says what one step may change
of one actor, proved from `Inv`. `RunsEndQuiet` follows from
`EmptyQueueIsQuiet`: with no actor scheduled, `ScheduledOnce` leaves nobody
active, so `NoLostWakeUp` leaves no message and `CountExact` leaves nobody to be
deleted. `DoneOperatorsAreStopped` is inductive relative to `Inv`.

The induction over the length of a sequence that `FlattenSeq` calls for is
replaced in `SequenceFacts` by a least counterexample (`LeastNatural`).

`DataflowImplementsPool` shows that every step of the engine, from a state with
`Inv`, is a step or a stutter of the pool. `Inv` gives the mapping its meaning
(`PhaseLive`): by `IndexSound` "live" in the pool is "live" in the index. A
cancellation and the stop of the dataflow are a `Stop` of a scope (`PoolScope`),
or a stutter while the index is empty; the termination an actor asks for is a
`Stop` of its address alone; the first message to an address is a `Create`; and
the end of an actor is a `Delete`, for which `CountExact` and `ScheduledOnce`
say that it was counted and is deleted once. All other actions leave the four
variables alone that the pool sees (`PoolStutter`).

### Why a run ends

`EveryStepDescends` says of every step of a run that it lowers `Measure`, and
`DescentEnds` that such a descent is finite: together, that no run takes infinitely
many steps, without any fairness. They need no bound on anything; they do need
`Acyclic`, that no chain of downstreams leads back to where it began. `op_code_tree`
does not rule such a plan out, and with two OUTs that feed each other a run
need not end; the plan of a query satisfies it (`ChainIsAcyclic`).

The step half has a lemma per group of actions: what moves from the mailbox to an
inbox leaves the loads alone and shortens the mailbox; what an actor takes lowers its load
and what it sends raises the load of its downstream alone (`WorkSends`, `WorkTakes`); a
stop and a drop only lower loads; and steps of the loops lower `Scheduled`, or
`Turn`, for which the counter of `not_expired` must start again when a slice ends.
The other half ranks the operators by how many lie downstream of them, so that
"one load less, and more only downstream" becomes a lexicographic order on vectors of
numbers (`Vector`, `VectorDescends`), which the library shows to be well-founded.

### The index

`IndexedProofs` adds `BytesAssumption`: what is under a prefix is what its bytes are
a prefix of, and no actor's address is a prefix of another's key. The
invariant `Mirrors` says what the index holds in the words of `Dataflow`: live
addresses are the active keys, disabled ones are the keys below a disabled prefix,
and while every address is absent nothing has been disabled. The last part makes the two
notions of an empty index one (`EmptyMirrors`). `DisableMirrors` has the three cases
of `art_disable`: the index is empty; the prefix is below a disabled one, so that its
addresses are disabled already (`PrefixOrder`); or it takes the place of those below
it. `PrefixIndex` has no iteration: that the tree iterates over what a prefix names
is checked in `index` (`NoneMissed`, `NoneStray`) and `actors`. With the run `index`, in which the tree implements `PrefixIndex`, this
replaces what `Dataflow` takes for granted of its index.

### The client

`QueryProofs` adds the assumptions of `QueryClient`: `PipelineAssumption` (the
plan is one chain of OUTs that ends in a LIMIT of at least one node) and
`ClientAssumption` (the client is the host). `ClientIsHost` then carries all the
theorems above over to `ClientSpec`. The invariant is `QInv`, whose heart is
`Relay`: an EOS is pending at an operator only when the one before it may send no
more (it was told to stop, or the client has sent its EOS); and once that is so,
the EOS is pending until the operator is told to stop. The first half keeps EOS
last, since what may still be sent goes to operators without EOS. The second half
carries the end down the chain: with all mailboxes empty, the first operator not
told to stop (`LeastNatural`) would have to have its EOS pending; so all were
told to stop, and `QuietWhenIdle` leaves none of them to be deleted. It needs
`DoneOperatorsStop`, for only a LIMIT that is full could discard its EOS.

### The answer

`TraversalProofs` shows what the client gets. `AnswerInSight` is not inductive:
`Ahead` says what the data under way amounts to, not where it may be. The
invariant `AnswerInv` speaks of the work of each operator instead. `OnWay(U)`
relates a sequence of nodes `U[i]` to each operator `i` of the chain: what it has
yet to work on. What it has already made of its share (its payload, then its
messages in the mailbox and in the inbox of the next operator) comes first in
`U[i + 1]`, and what it will make of `U[i]` follows; the client's script begins
the first, and the last, behind what was printed, is the answer. There is one
lemma for each group of actions:

* an OUT that works on a message replaces the front of `U[i]` by chunks of a full
  payload and a rest; `ExpandConcat` and `FlushedData` say that chunks and rest
  put together are the old payload followed by the neighbours;
* an EOS comes to an operator only when nothing is left to it: `EosIsLast` has
  nothing behind the EOS, `Relay` nothing before it that could still speak;
  `Farewell` then empties the payload;
* a LIMIT prints the front of what is left to it, or all up to its number, and is
  told to stop: what else is under way no longer counts. If its EOS ends it first,
  nothing was left to it, and all is printed;
* delivery moves a message from the mailbox to an inbox, behind those that
  came before it (`MailboxKeepsAnswer`); messages to a disabled address are
  dropped, and those only go to operators that were told to stop.

`OnlyTheAnswerReturns` follows step by step: `OutputGrows` gives `Return` or a
stutter while operators live, for what is printed before and after a step are
two beginnings of one answer, and `EndsOnce` gives `Finish`: the last operator to
be deleted was told to stop, so LIMIT was, so the answer is complete. The
induction over messages of a sequence that all this calls for is in
`SequenceFacts` (`ConcatByElements`, `FlattenConcat`), again by a least
counterexample.

### The operator plan

`OperatorPlanProofs` assumes `WidthAssumption` (bytes, a buffer of at most 256 of
them, branches of four bytes, a word of any width) and `PlansAssumption`; the depth of a plan, the
number of its groups, branches and operators are free. The argument is in four
lemmas. `AddressFacts`: the address of a place *spells* its path, the k-th id
lying at offset 6k - 4 whatever the branches between are (`FlattenSixes`).
`AboveAnOperator`: all proper prefixes of an operator's path are nodes without
code, so the walk cannot end early. `WalkStep`: the walk stands, after k steps,
behind the first k ids, and its next step reads the next one; hence
`GetFindsCode`. The walk is a recursive function; that it exists is shown by
writing it down (`OnTheWay`), that it is the only one by a least counterexample.
`DownstreamFacts`: a downstream address is the address of a place again. The
invariant `Inv` says that every buffer in the mailbox holds the address of a
place and every operator is what its place asks for; it needs no more, since two
places with one address have one code (the walk decides).

`LimitsAreDecimal` compares two ways to read a number. The code goes from the last
digit to the first and shifts each to its place by repeated multiplication, in a
word that wraps at every step; the property reads the text from the first
character to the last. After k digits the sum of the code and the number read
before them, shifted by k places, are the whole number, as remainders of the word
(`ShiftedSum`, `ShiftedRemainder`); what is before the digits is nothing or a
character that starts the number afresh, hence zero. What a recursive function
of the model is equal to comes from `RecursionFacts`, what a fold is from
`FoldDecimal`.

### The layouts of a node

`ArtNodeProofs` assumes `LayoutAssumption`, which the sizes of the code (4, 16,
48, 256 and 3, 12, 37) satisfy and no run of TLC can reach. The inductive
invariant relates the node to the set of its children: `Holds(node, kids)` is
`SlotsCoherent` for the layout the node has, with the bytes of the lists, or the
bytes that lead to a slot, being exactly `kids`. `TypeOK` and `LayoutExact`
follow from it and are not inductive, as `FindChild` does not say that a slot no
byte leads to is empty. A shrink reads the node it came from by byte, so its list
is in byte order (`InByteOrder`), without repetition, whatever order children
came in.

### What is only model-checked

Liveness: `RunReturns`, and of `ImplementsTraversal` that every query ends. What is
proved of them is their heart, that steps cannot go on for ever (`EveryStepDescends`,
`DescentEnds`, `ClientEnds`); that the engine always *can* take a step, which is
ENABLED, and that fairness then makes it reach the end, stay with TLC, whose deadlock
check and temporal checks cover them on the instances. The
refinements of `PrefixIndex`, and of `ActorPool` by `ScopedActors`; and everything
else about the tree (`ArtIndex`, `ScopedActors`: `AnswersExact`, `NoneMissed`,
`NoneStray`, `ActorsExist`), whose functions are RECURSIVE on trees.

## 6. Where the code and its comments disagree

* **`stray_cancel`**: `art_iter_active_prefix` goes on after a node whose prefix
  agrees with the searched one in its first bytes only, and skips the rest of
  the node's prefix (`src/util/art.cc:1305`). With actors in group 2, branches 0
  and 1, cancelling group 3, branch 1 reaches the actors of group 2, branch 1.
  They are told to stop, but the prefix that is disabled is that of group 3: they
  are deleted after their run and stay in the tree, and the next message to them
  follows the pointer (`src/dataflow.cc:64`). Compiling `art.cc` and making these
  calls shows the same iteration.
* **`index_size`**: disabling a prefix a second time takes it off the size again
  (`src/util/art.cc:680`); `get_size` wraps below zero. Confirmed the same way.
* **`prefix_removal`**: `art_delete_prefix` leaves entries below the prefix in
  the tree. A root that is a leaf is removed only if its whole key equals the
  prefix (`src/util/art.cc:1334`), a prefix that ends within the root's is refused
  (line 1345), and further down the prefix of a child is compared one byte too
  early (line 1381) and the depth grows by that of the wrong node (line 1403).
  The dataflow does not call `remove_prefix`.
* **`early_cancel`**: `art_disable` on an empty tree reports success and records
  nothing (`src/util/art.cc:904`): a scope cancelled before its first message is
  not cancelled.
* **`stop_answer`**: a dataflow that is stopped while actors are alive is never
  activated, although its comment says it is, for its parent
  (`src/dataflow.cc:168-170`).

Two observations have no run. `add_child16` compares bytes as signed with SSE
(`src/util/art.cc:456`), so the children of a NODE16 are not in the order that
`art_minimum` relies on; the index does not call `art_minimum`, and no property
here depends on the order. `add_urgent_task` appends although its comment
promises the head of the queue (`src/dataflow.cc:35-40`); nobody calls it.

## 7. Abstractions, and what is not modelled

* *Index in `Dataflow`.* Answers are taken as exact. `IndexedProofs` shows for every
  plan that they are those of `PrefixIndex`, and the runs `index` and `actors` check
  for plans whose scopes nest that the tree answers so. `AddressAssumption` of `ArtIndex`
  (no key continues another) holds when actors and groups of a level have
  different numbers, as the ids of a plan do. Where the tree's answers are not
  exact (groups side by side), `stray_cancel` shows what follows.
* *Plan.* In `Dataflow` the walk of `op_code_tree::get` is a function of the
  address, which `OperatorPlan` checks. Plans where an OUT has no downstream are
  excluded: its downstream address would be uninitialised. Plans other than
  `dummy_insert_simple` are modelled because nothing in the engine depends on
  that one.
* *Undefined reads.* `string_to_unsigned_int` reads the byte before the text of
  the parameter, which here is the top byte of a length and no digit.
  `art_delete_prefix` may read the prefix of a child that is a tagged leaf; the
  model takes the outcome in which the tree stays as it was.
* *LIMIT 0* is modelled: it discards everything and is never stopped. No document
  says what it should do; `PipelineAssumption` excludes it for queries.
* *Actor messages.* The branches of `stateless_actor::run_and_dispose` for other
  types than USER cannot be taken: `process_mailbox` delivers only USER messages.
* *A byte behind a prefix.* `art_iter_active_prefix` may read one byte past the
  prefix it searches; that byte is the constant `Beyond`.
* *Memory.* Leaks (a message to a disabled address is never deleted,
  `src/dataflow.cc:93`), `new` and `delete` of messages and payloads are left
  out; the lives of actors are not.
* *Execution context.* A stop that finds no actor activates the dataflow in its
  execution context (`src/dataflow.cc:171`), which is null in the test; the model
  does not follow the pointer.
* *Not modelled*: the graph store (a prebuilt library, a constant function
  here), its headers, the demo programs; `art_maximum`, `art_minimum` and the
  iterations over all entries, which the index does not call; `add_urgent_task`
  and `idle`, which nobody calls; the setters of the slice and the move
  operations of messages, likewise.

## 8. Plan

Done, in this order: `Dataflow` and its runs, `Traversal` and `QueryClient`, the
proofs of the engine, `ArtNode`, `Art`, `ArtIndex`, `PrefixIndex`; then
`ActorPool` and its refinement by `Dataflow` with the proof, `remove_prefix`,
`ScopedActors`, `OperatorPlan`; then the proofs about `QueryClient`, the layouts of
`ArtNode` and `OperatorPlan`, and the answer of a query (`TraversalProofs`); then why
runs and queries end, and `IndexedDataflow` with its proofs. What is left is the tree
itself: its functions are RECURSIVE on nested nodes, so everything about `Art` stays
model-checked, and a proof would need induction over the tree.
