# A TLA+ model of the KaySentinel pipeline

KaySentinel watches a go-ethereum node execute blocks and turns what it sees into a
canonical, verifiable record of state changes. This directory models that way in TLA+:
the specifications are translated from the source, checked with TLC on small instances,
and the claims that everything downstream rests on are proved with TLAPS for every number
of frames, transactions, cells and values: that the tracer keeps step with the execution
and announces each self-destruct once, that lost and repeated hooks are diagnosed, that
Gate 1 passes exactly the well-formed streams and a fixture that holds anything else shows
it, that what
it passes the bridge can translate, that the bridge's handling of reverted call frames makes
transactions atomic, that the builder's reduction of a transaction is its replay, that the tables of a block
are the net effect of what the node executed, what the lifecycle pass accepts and that it finds
the incarnations of an account, that the canonical form of lifecycle facts is a normal form and
its report sound, that Gate 2 judges certificates by what the events lead to, and that sinks
fail independently of one another.

`PROJECT.json` lists components, runs, mutants, the definition-to-source map, findings,
hazards and theorems.

## 1. The system

```
 go-ethereum ──hooks──► Multiplexer ──► Tracer ──events──► Harness/Gate 1 ──fixture──►
     (external)          (Go)  │        (Go)                  (Go)
                               └──► Raw transcript ─► comparison with a legacy tracer

 ──► Bridge (wire, translate) ──CSE──► Builder: partition ─► reduce ─► lifecycle
        (Rust)                          (Rust)
                                            └─► certificates, storage roots ─► Gate 2 (verify)
                                                     └─► SSZ bytes, roots, commitments
```

| Component | State | Operations | What makes it correct |
|---|---|---|---|
| Tracer, `tracer/kaysentinel_tracer.go` | sequence counter, frame counter, frame stack, event list, error log, pending self-destructs | one per registered hook | sequence numbers increase; its stack is the EVM's; a self-destruct is announced once, for the right account; lost hooks are diagnosed |
| Multiplexer, `multiplexer/broadcast.go` | active sinks (atomic, copy on write), panic reports (mutex) | fan-out of a hook, isolation of a panic, eviction | evictions are never undone; a panic does not keep a hook from the other sinks |
| Raw transcript, `raw/transcript` | a list of numbered events | one `Append` per hook | nothing is missing from it while other sinks fail |
| Normaliser and engine, `validation/normalizer.go`, `engine.go` | none (pure) | `NormalizeRaw`, `CompareSemanticFields` | a difference is reported exactly when there is one in the compared fields |
| Gate 1, `validation/gate1.go` | locals of one pass: previous sequence, open transaction, frame stack, root frames | `VerifyGate1Invariants` | accepts exactly the well-formed streams; what it accepts the bridge can translate |
| Harness, `harness/harness.go` | slices of the tracer's arrays while a call runs; the fixture file | `ProcessAndSerialize` | a file holds one block that passed, with its diagnostics; a nil error means it is there |
| Bridge, `runtime/bridge` | locals of one pass: frame buffers, transaction output, context | `parse_event_stream`, `translate` | the output replays to the state the execution reached; timelines have no gaps |
| CSE validator, `runtime/cse` | expected sequence, in-transaction flag | `validate_and_advance` | agrees with the builder on what is well-formed |
| Builder, `runtime/builder` | locals: buckets, open bucket | `partition`, `reduce` | one bucket per transaction, net transitions, gaps refused |
| Lifecycle, `runtime/builder/src/lifecycle` | none (pure) | `resolve`, canonicalisation, schema check | generations have unique keys and disjoint intervals; the canonical form does not depend on input order |
| Certificates, `lifecycle/certificate.rs`, `hydration.rs`, `storage_root.rs` | none (pure) | certificates of the accounts a table names, in one go or by hydration; storage roots | the last generation; changes win over snapshots; a root pins down every slot |
| Gate 2, `runtime/verify` | locals of one pass: replayed accounts, errors | `replay_and_verify`, `verify_envelope_integrity` | accepts exactly the certificates that the traces lead to; accepts what the pipeline certifies |
| SSZ, hash, `runtime/ssz`, `runtime/hash` | none (pure) | encoders, decoders, Merkle roots, commitments | decoders accept exactly the encodings; a commitment is good for one value |

Interaction is by value, with one exception: each stage reads the output of the one before
it from left to right, but the harness works on slices of arrays that the tracer goes on
writing to. The node calls the hooks synchronously from the goroutine that processes the
block. The multiplexer is the one component written for concurrent callers (an atomic list
and a mutex).

Hard behaviours:

- **Reverts.** The EVM undoes a reverted frame without calling a hook. The bridge must
  forget exactly what the EVM forgets, at any nesting depth, while frameless bookkeeping
  (gas, nonce) survives.
- **Correlated hooks.** SELFDESTRUCT is recovered from two separate hook calls matched by a
  frame id that is reused in every transaction.
- **Two readers of one stream.** Gate 1 and the bridge each keep their own stack; the builder
  and Gate 2 each replay the same events in their own way; Go and Rust each read the same
  strings.
- **Limits.** The uint64 sequence space; 64-bit frame ids narrowed to 32 bits; lengths of
  byte strings that do not divide each other.
- **Shared arrays.** `Events()` hands out the tracer's own slice; later hooks append behind
  it, and the next block starts over in the same array.
- **Faults.** Lost or repeated hooks; a stage that fails half way; a sink that panics while
  other goroutines are inside a fan-out; a write that fails or a process that dies over the
  file of an earlier block; bytes altered on the way.

## 2. Modules

Vocabulary, reference definitions and abstract specifications:

| Module | Content |
|---|---|
| `Emes` | EMES events, state keys, the no-frame sentinel. The four mutation events differ only in the kind of cell, so they are one event with a key |
| `Result` | what a function that may fail returns |
| `Replay` | CSE events; `Yields` and `Continues`: what it means to replay a sequence of them, stated on last writes rather than as a fold |
| `Streams` | well-formedness of an EMES stream, by counting, without a stack |
| `Ordering` | listing a finite set in order and thinning out a sequence, by counting: sorted maps and `Vec`s |
| `Segments` | the same for a stream of CSE events: its boundaries counted, its transactions cut out |
| `AtomicJournal` | what the bridge promises, without buffers: marks, roll-back, and a log that takes in whole transactions |

Components, each a set of actions on its own variables, with the input as a parameter, or
operators where the code is pure:

| Module | Models | Correspondence |
|---|---|---|
| `Evm` | the execution (external) | a snapshot per open frame, restored on revert |
| `Tracer` | the tracer | one action per hook; `EmitAfter` is `emit`, with its overflow panic |
| `Gate1` | Gate 1 | before, in and after the loop; one action per `case` |
| `Wire`, `Hex` | the fixture's JSON as Go writes and Rust reads it; its hexadecimal strings | operators; a document is a sequence of kinds with fields |
| `Bridge` | `translate`, `append_mutation` | one action per `match` arm; an early return sets `bridge_result` |
| `Builder` | `partition.rs`, `reduce.rs`, `timeline.rs` | one action per arm; `Reduce` is the second pass |
| `Validator` | `CseValidator` | one action, one disjunct per outcome |
| `Lifecycle` | `resolve.rs`, `canonicalize.rs`, `mod.rs` | operators; sets of diagnostics |
| `Certificate` | `certificate.rs`, `hydration.rs`, `storage_root.rs` | operators; hashes are terms, a snapshot source is a pair of partial functions |
| `Gate2` | `replay_and_verify` | one disjunct per kind of trace, then `Compare` |
| `Ssz` | `runtime/ssz`, `runtime/hash`, `verify_envelope_integrity` | operators on digit sequences, with every error of the decoders |
| `Multiplexer` | `broadcast.go` | a hook call takes the list, then one step per sink; an eviction is two, load and store, with the mutex held in between |

Compositions, which supply the inputs:

| Module | Composes | Question |
|---|---|---|
| `EvmBridge` | `Evm`, `Bridge`, and an instance of `AtomicJournal` | is the buffering of reverts right? does it implement the journal? |
| `Host` | `Evm`, `Tracer` | what does the tracer make of a real execution? |
| `HookFaults` | `Tracer` | and of lost or repeated frame hooks? |
| `Harness` | `HookFaults`, `Gate1`, `Streams` | what is in the file if hooks and blocks go on during a call, writes fail and the process dies? |
| `Fixture` | `Gate1`, `Bridge`, `Streams` | does the gate accept the right streams, and enough for the bridge? What does the bridge do without it? |
| `Pipeline` | `Host`, `Gate1`, `Wire`, `Bridge`, `Builder` | from the node to the reduced tables |
| `CseInput` | `Validator`, `Builder`, `Lifecycle` | the Rust back end on arbitrary CSE streams |
| `CanonicalForm` | `Lifecycle` | canonicalisation of arbitrary facts |
| `CanonicalBytes` | `Ssz`, `Hex` | encodings that are altered before they are decoded |
| `Audit` | `Builder`, `Lifecycle`, `Certificate`, `Gate2` | what does Gate 2 accept? |
| `Transcript` | `Multiplexer`, and the recorder, normaliser and engine | what do sinks see while others fail? The repository has no sink that records, only the report of a run with one (`raw/transcript/README.md`), so this composition is the model's own |

`MC_*` modules supply constants and initial states for TLC; `MC_Canonical` runs
`CanonicalForm` and `CanonicalBytes` one or the other, and `MC_Multiplexer` concurrent
callers or one caller with recorders. `HookFaults` is checked as a part of `Harness`.

The theorems are in `PipelineProofs` (the tracer under the node, and the way of a block from
there to its tables), `HarnessProofs`, `FixtureProofs`, `EvmBridgeProofs`, `CanonicalProofs` (the
builder on arbitrary streams, and the canonical forms of facts and of bytes), `AuditProofs` and
`MultiplexerProofs`; `StreamFacts` holds the lemmas they share (sequences,
stacks and events; Gate 1 and well-formed streams; replaying, buffers and brackets; boundaries
and segments; ordered lists and the canonical form; histories and the generations they resolve
to). Operators commented "Mutant of ..." are plausible bugs; substituted for the definition
they name, they must break the property that `PROJECT.json` lists with them. No specification
uses them.

### Abstractions

- Balances, nonces, code hashes and storage words are members of one set `Value`; the code
  only compares them. Addresses and slots are model values, or numbers where the source
  sorts them.
- `U64_MAX` and `U32_MAX` are constants with `U32_MAX < U64_MAX`. Wrapping and narrowing are
  modelled; the limits are small enough to be reached.
- `translate`, the builder and Gate 2 read their input once, from left to right. `EvmBridge`,
  `Fixture`, `CseInput` and `Audit` therefore choose each event when it is read instead of
  choosing the stream first. In `Pipeline` the stages run one after the other over stored
  streams, as in the program.
- Nothing in go-ethereum is under verification. `Evm` and `Host` assume only what the
  repository's documents rely on (`docs/emes/004-bridge-buffering-spec.md` section 3,
  `docs/emes_profile.md` section 5.2): snapshots restored on revert, one root frame per
  transaction, storage written only inside a frame, a failed receipt exactly when the root
  frame reverted. The order of the two self-destruct hooks is left open. One case is
  excluded that the same document names, its "EIP-7702 / Amsterdam Scope Boundary": when an
  authorization runs out of gas, `RevertToSnapshot` undoes the earlier ones of the same list,
  which are frameless nonce and code changes, and no hook says so. `Evm` never undoes a
  frameless write. The stream then describes changes that did not take effect, and
  `Faithful`, `Atomic` and `NetEffect` do not hold of such a transaction.
- A Go slice is its contents, whether it still lies in the tracer's array, and the capacity
  of that array; `append` moves to a new array when the old one is full. Two goroutines
  that touch the same element are interleaved, one element read or one hook to a step.
  The slice headers are read whole: `Events()` and `ErrorLog()` return what a finished hook
  left, never half of an append.
- Hashes are terms: equal exactly when what was hashed is equal. An account of Gate 2 is the
  set of its written cells; its `touched` flag is that it is there at all. A storage tree is
  its rows, from the padded leaves to the root, each half as long as the one before.
- The multiplexer's list of sinks is the set of their places in the initial list, since
  sinks are only ever removed and keep their order; a walk takes the lowest place left.
- Bytes are digits of a small base and all widths are constants. In the run they are a
  quarter of the real ones, so that header, elements, certificates and chunks overlap as in
  the code (12, 68 and 32 bytes become 3, 17 and 8).
- In transcripts, `args` stands for From, To, Value and GasUsed, which are compared alike,
  and `detail` for the fields that are recorded and not compared.
- History variables (`blockBase`, `txBase`, `txLog`, `clears`, `credits`, `calls`, `claims`,
  `served`, `called`, `undisturbed`, `taken`, `diagnosable`) record what happened for the properties
  to speak of; no guard of modelled code reads them.

## 3. Runs

| Run | Checks | States |
|---|---|---|
| `evm_bridge` | `NeverFails`, `Unbroken`, `Faithful`, `BufferInvariant`, `Atomic` (refinement) | 533,959 |
| `fixture` | `GateExact`, `GateSufficient`, `OutputBracketed`, `UnbalancedRefused`, `FramesNamed` | 5,700,414 |
| `host` | `SequencesIncrease`, `DestructsPaired`, `StackMirrored` | 603,173 |
| `harness` | `FaultsDiagnosed`, `ExitsMatchEnters`, `FixtureVerified`, `FixtureDiagnosed`, `NilMeansWritten` | 2,773,403 |
| `pipeline` | `NetEffect`, `ProvenanceExact`, `Delivered` (liveness) | 850,514 |
| `cse_input` | `PartitionExact`, `ReduceExact`, `ValidatorAgrees`, `AlternationResolved`, `AcceptedExactly` | 1,415,976 |
| `canonical_forms` | `NormalForm`, `ReportSound`, `DecodesExactly`, `CommitmentsBind`, `RootIdentifies`, `HexReadersAgree` | 1,000,168 |
| `audit` | `ClaimsJudged`, `HonestJudged`, `PathsAgree`, `LastIncarnation` | 1,455,289 |
| `multiplexer` | `EvictionsAddUp`, `HealthyServed`, `RecordedAll`, `DriftFound` | 544,264 |

Bounds, and why they are enough for the question:

- `evm_bridge`: three frames give a root with two children or a chain of three, so a revert
  below a commit, a commit below a revert and two siblings all occur; three mutations on
  four cells let a cell be written, undone and written again; two transactions show what is
  carried over. Values are symmetric (every cell starts with the same one).
- `fixture`: nine events hold a block of two transactions with a frame in one of them, or
  one transaction with nested or sibling frames; every prefix is offered wrong sequence
  numbers, parents and frame ids. Without a gate, six events with frame ids and depths on
  both sides of `U32_MAX` and equal to it, so that two frames may have the same lower bits.
- `host`: two accounts, two transactions, two blocks, and `U64_MAX = 12`, so that the
  counter reaches its limit in the middle of every kind of hook.
- `harness`: six hook calls in the first block, enough for nested frames one of whose hooks
  is lost or doubled, three in the second, an array of four events, which is outgrown in one
  block and kept in another, two calls of `ProcessAndSerialize` and one crash, so that a file
  can be there already when a call fails or a process dies. A call may begin between any two
  hooks: after a block, in the middle of it, or before it. What can happen during a call
  does in this run: the block goes on behind the slice; it ends and the next one overwrites
  none, some or all of what the gate or the encoder has still to read; `emit` panics.
- `pipeline`: two transactions with two frames each and two mutations in all on a balance
  and a code cell, both self-destruct hooks included; and a second, empty block of the same
  tracer, which Gate 1 refuses (section 4). `NetEffect`, `ProvenanceExact` and `Delivered`
  are therefore about the first block of a tracer.
- `cse_input`: six events, enough for two transactions, or for four lifecycle events of one
  or two accounts within one.
- `canonical_forms`: three facts, since every check looks at neighbours. Snapshots of up to
  four events where three are allowed, so that the bound is passed and chunk counts lie on
  both sides of a power of two; certificates with and without a storage root, alone and in
  batches of two; addresses. Two edits, so that an error can hide another.
- `audit`: three events of one account (a balance, three storage slots, a transient slot,
  creation, destruction) and lifecycle events of another; three slots need a padded tree, and
  claims range over every map of them. Snapshot sources know all, some or no accounts and have
  any attributes for the first.
- `multiplexer`: two callers, three sinks (two of one name), four hooks; or one caller with
  three hooks of any kind and two recorders, one of which shares a name with another sink.
  Faults come at two opcodes.

Deadlock is checked everywhere; a specification that has finished takes an explicit
stuttering step.

**Fairness.** Only `Pipeline` assumes any: weak fairness of `Offline`, the disjunction of the
gate's, the parser's, the bridge's and the builder's steps. They are loops of one thread over
finished sequences with no waiting in them, so a step that is enabled is taken. Nothing is
assumed of the node: it may stop in any block, and `Delivered` speaks only of the first
block of a tracer, once that has ended: Gate 1 refuses the others.

## 4. Where the code and its documentation differ

Each is a run that TLC must find violated.

| Run | Statement | What the code does |
|---|---|---|
| `host_blocks` | `CountsFromZero`: sequence numbers start at 0 in every block (`docs/emes_profile.md:26`) | `OnBlockStart` does not reset the counter, so Gate 1 refuses every block but the first of a tracer, and `Delivered` is about that one only |
| `evm_bridge_withdrawals` | `FramelessSurvive`: frameless mutations always survive (`translate.rs:62`) | one outside a transaction sits in `tx_output` until it is cleared |
| `audit_captures` | `CapturesAccepted`: Gate 2 accepts every capture (`docs/live_geth_validation_runbook.md:171`) | it replays from zero and checks previous values once an account was touched, so a balance change followed by a nonce change from a nonce other than 0 is a `TraceInconsistency` |

More limits of the code are stated by properties that hold:

- `GateSufficient` holds for streams whose mutations carry the tags the tracer gives them.
  Gate 1 has no case for mutations, so it does not establish this, although `translate.rs:258`
  says of a mutation that names a frame when none is open that "frame-balance would have
  caught this".
- `AcceptedExactly` says that any lifecycle event of an account that existed before its
  transaction is refused: if it is destroyed, its generation begins and ends at one event,
  an interval that canonicalisation rejects and `resolve` reports valid (`resolve.rs:92`).
- `AcceptedExactly` also says that two creations of an account in a row are accepted.
  `diagnostics.rs:12` defines Collision as "A creation was observed on an address while a prior
  generation was still open"; it is diagnosed only for generation 0 of an account that existed.
- `HonestJudged` says when Gate 2 accepts what the pipeline certified, exactly: every account
  started from zero. An account with lifecycle events only is touched and has no certificate
  (`MissingCertificate`); one with transient writes only has a certificate and is not touched
  (`UntouchedCertificate`); an attribute filled in from a snapshot must be zero.
- `EvictionsAddUp` says that a panic evicts every sink that shares the panicking one's name.
- Nothing in the harness or the tracer asks whether the block has ended. Hooks of the same
  block that go on during a call do no harm: they append behind the slice, and a call that
  comes too early is refused by Gate 1. A block that starts during a call does: the gate reads
  the slice and the encoder reads it again, and events of the new block lie over those that
  were verified. The file then holds events of two blocks, or of one that was not verified,
  and `ProcessAndSerialize` returns nil. `FixtureVerified` says how to tell: such a file does
  not have the numbers 0, 1, 2, ... of a first block, since the counter is not reset. (Were it
  reset, as `docs/emes_profile.md:26` has it, nothing would show; that is the property's
  mutant.) The diagnostics of such a file may be another block's; those of a file with the
  right numbers are not missing if there were faults (`FixtureDiagnosed`). The node's hooks
  are synchronous, so a harness that is called from the node's goroutine is safe.
- `FramesNamed` says that an id or a depth that does not fit 32 bits is never cut off, only
  refused, and that at the first mutation of its frame and not when it is entered: a frame
  without mutations passes with any id.
- `RootIdentifies` says that a snapshot shares its root with the one that has all-zero events
  added, as far as the padding reaches: the width depends on the length and the length is not
  mixed in (`ssz/src/lib.rs:104`; `docs/ssz_specification.md:109` speaks of a fixed padding).
- `HexReadersAgree` has one exception: `u8::from_str_radix` takes a plus sign, so Rust reads
  strings that Go's `DecodeString` refuses.
- `RecordedAll` speaks of a recorder in strict mode too: there a panic of another sink may
  pass it by, and its numbers stay dense although a call is missing. Events are compared
  by their numbers, so every later one would be set against the wrong call.
- `DriftFound` says what a comparison does not see: details (balances, nonces, code hashes,
  slots), since `SemanticEvent` has no such fields, and the opcode at which a fault occurred,
  which is recorded and then replaced by the label `FAULT` (`normalizer.go:49`). And `BroadcastSink` has no nonce, code or
  storage hooks, so a recorder behind the multiplexer never gets those kinds at all, although
  the transcript has them.

## 5. What is proved

Slots, values and the addresses of the front end are arbitrary sets in all of it, finite or
not; addresses that are sorted are any naturals; all bounds are arbitrary naturals. **Assumptions**, besides: `WidthAssumption` (`U32_MAX < U64_MAX`,
naturals); for the bridge `BoundAssumption`, that a transaction opens at most 2^32 frames,
which is what `FrameIdOverflow` guards; for the tracer `HostAssumption` and the same bound;
for the fixture `FixtureAssumption`, that frame ids in a gated stream fit 32 bits and that it
has fewer than 2^32 events; for the harness `HookFaultsAssumption`, that a block has fewer
than 2^64 hook calls, so that frame ids do not wrap, and `HarnessAssumption`, that an array
has room for an event; for the builder `CseInputAssumption`, that the key of a state change is
a key and the address of a lifecycle event an address, as their Rust types say; for the lifecycle
pass `NoEndAssumption`, that `None` is no sequence number; for Gate 2 `AuditAssumption`, the same with transient keys, and
`ZeroAssumption`, that zero is a value and slots are ordered; for the multiplexer and its
recorders `MultiplexerAssumption`, `TranscriptAssumption` and `HookCallsAssumption`, the types
of names and hook calls; for bytes `CanonicalBytesAssumption`, that snapshots and certificates
have the types of their structs, `HexAssumption`, that there is more than one hexadecimal digit,
and `SszAssumption`: widths are positive, the header's length fits the offset that states it, and
a chunk is longer than a pair, which keeps a chunk from being the term of a hash.

### The tracer under the node (`PipelineProofs`, for `Host!HostSpec`)

- `TracerKeepsStep`: `[]HostInvariant`, which contains `SequencesIncrease` and is not a run's property
- `NumbersIncrease`: `[]SequencesIncrease`
- `StackIsMirror`: `[]StackMirrored`
- `DestructsArePaired`: `[]DestructsPaired`, a self-destruct is announced exactly when both
  of its hooks came, once, for the right account

That the stacks are equal is not inductive: the id that the tracer gives a frame must be the
one the execution is about to use, and that an exit pops the right one needs the tracer's
stack to be typed. `HostInvariant` adds that both frame counters are equal, a fact which the
bound on frames per transaction keeps from failing by wrap-around; that every number in the
stream is below the counter, unless the hook panicked, after which the counter is 0 and no
hook is called any more; and the types of events, diagnostics and pending self-destructs.
`DestructRight`, next to it, says what the map of pending self-destructs means: while a
transaction is open, a frame is in it exactly when the stream holds a clearing code change of
that frame that still *waits*, with neither a start of a transaction nor an announcement of
the frame after it, and the map names the account of the latest one; between transactions the
map is empty, although frame ids start over. `EmitIncreases` is the core: any number of emits
in one hook, cut off by the overflow at any point, leave increasing numbers below the
counter. Each hook's lemma then says which events the hook emits, and that it moves the
stacks together.

### The harness under faulty hooks (`HarnessProofs`, for `Harness!Spec`)

- `FaultsAreDiagnosed`: `[]FaultsDiagnosed`, the error log is empty exactly as long as the
  hook calls balance
- `ExitsAreMatched`: `[]ExitsMatchEnters`
- `NilIsWritten`: `[]NilMeansWritten`
- `FixtureIsVerified`: `[]FixtureVerified`, while no block starts the file is what was
  verified, and if one does, its events show in the file
- `FixtureIsDiagnosed`: `[]FixtureDiagnosed`

`HookRight` relates the tracer to the calls of the block and to its stream: the stack holds
ids of frames that are live in the stream (entered, and not closed since), strictly increasing,
hence each once; and while nothing has been logged it is as high as the calls say by counting.
A lost `OnExit` leaves an id on the stack until the transaction ends; that the ids start over
with the next one and the stream still pairs every exit with an entry of its own transaction
is what `Live` carries.

For the file, `CallRight` follows the slice from `Events()` to the disk. The next block begins
with the first element, and its number is then not 0 and never 0 again, since the counter
only grows (`Dense`); so while the first number is 0 the slice is as it was `taken`
(`Intact`), whatever has happened. Each other element is as it was taken or has a number that
does not belong at its place (`InHand`). While the slice is intact, or no block has started,
the gate's locals are what a scan of it up to `position` leaves (`Scanning`), so what passes
is well-formed (`Judged`); and the encoder, which copies element by element, has copied what was
taken or a wrong number with it (`Encoding`). What is in the file is `Good` then: without a
block start it is the verified stream, and whatever started, it has wrong numbers or is the
verified stream. The diagnostics are fetched late, but a stream that passed ends with the
commit of its block, after which nothing but a next block adds to them; and an intact slice
of a block that is over means that the next one has not written anything, which it does first
of all, unless `emit` panicked and left a diagnostic. The same lemmas about the gate serve
here and for `GateIsExact` below.

### Gate 1 before the bridge (`FixtureProofs`, for `Fixture!Spec`)

- `GateIsExact`: `[]GateExact`, the gate passes exactly the well-formed streams
- `GateIsEnough`: `[]GateSufficient`
- `OutputInBrackets`: `[]OutputBracketed`, whatever stream the bridge is given
- `BridgeRefusesUnbalanced`: `[]UnbalancedRefused`, for the bridge without a gate
- `FramesAreNamed`: `[]FramesNamed`, no id or depth comes out narrowed

`WellFormed` counts, the gate keeps a stack: `GateRight` joins the two. Before each event the
gate's locals are what a scan of the stream knows (`GateKnows`: the frames on its stack are
those entered and not closed, in order; the count of root frames and how the last one ended
are those of the open transaction), and every event read so far obeys the rules. Each arm
that refuses an event then breaks a rule in every continuation of the stream, each arm that
accepts one establishes its rules, and the end of the loop the two about the whole stream.
Where the gate stops before the end of what may still come, `GateExact` says that no closing
of the events read is well-formed: a closing keeps them and adds at least the commit of the
block (`ClosingContinues`), so the rule stays broken.

`OutputInBrackets` needs `Bracketing`: the finished output is a sequence of bracketed
transactions, the transaction's output an opening and nothing that closes it, the buffers no
boundaries at all, whichever way frames are reverted and joined. `BridgeRefusesUnbalanced`
needs `Accounted`: the ids on the bridge's buffers are the stack that the stream's frame events
leave, so that it reaches the end without an error only if they balance.

`FramesAreNamed` follows each event from its buffer to the output. `FramesRight` says that the
j-th buffer belongs to the j-th of the open frames and bears its id and its depth, and that
what is in it was executed in that frame or in one that has committed since; what has left
the buffers was executed in a frame that committed (`FramesKnown`). A buffer is handed on only at the
exit that closes its frame, which is then one that committed; a reverted frame's is dropped.
Nothing is assumed about the ids in the stream: two frames may have the same, and each width
may be any.

For `GateIsEnough`, the invariant `InStep` says that while both read, gate and bridge have
the same frames open, one buffer for each id, are in a transaction or not together, and the
bridge has not failed. For each kind of event, the arm in which the gate accepts it implies
the guard of the arm in which the bridge does not fail. The depth of a frame is at most the
number of events read, hence the bound on the length. The theorem is about structural events
and creations, as `Fixture` offers them; the other mutations go through the same
`append_mutation`.

### The bridge under the EVM (`EvmBridgeProofs`, for `EvmBridge!Spec`)

- `BuffersCorrect`: `[]BufferInvariant`
- `TypeCorrect`: `[]TypeOK`
- `BridgeFaithful`: `[]Faithful`, the output replays to the EVM's state
- `BridgeUnbroken`: `[]Unbroken`, no timeline has a gap
- `BridgeTotal`: `[]NeverFails`, no error path is taken

`Faithful` and `Unbroken` speak of the output between transactions and are not inductive:
nothing in them says what an open buffer holds. `BufferInvariant` adds it. The buffers cut
the history of the open transaction at the entries of its open frames: `tx_output` leads from
the state at the start of the transaction to that at the entry of the root frame, each
frame's buffer from the state at its entry to the entry of the next, the innermost one to the
state of now (`Chained`). The stacks of bridge and EVM have equal height and equal ids
(`Aligned`), and the finished output leads to where the open transaction began (`Settled`). A
mutation appends to the innermost piece; entering a frame adds an empty piece; a committed
exit joins the last two; a reverted exit drops the last, and the EVM restores the state at
which that piece began; the end of a transaction joins the only piece left to the output.

The lemmas on replaying in `StreamFacts` carry this: an empty sequence replays to where it
started, appending a write extends the replay, concatenation composes two replays, and
renumbering the events changes nothing. `Replay` states replaying as a relation on last
writes and not as a fold, because induction over sequences is out of the prover's reach and
these facts need none. Each action then has a preservation lemma of its own
(`FrameExitPreserves`, ...), and `BuffersCorrect` combines them.

### The bridge implements a journal (`EvmBridgeProofs`)

- `BridgeIsAtomic`: `EvmBridge!Spec => Journal!Spec`, the property `Atomic` of the run

`AtomicJournal` has no buffers: a mark per open frame, roll-back to a mark, and a log to
which a commit adds something that leads, without a gap, from the state of the commit before
to that of now. The refinement mapping takes the log from `final_output` without its
numbers (they are assigned at the end), the store from the state at the start of the
transaction, the view from the state of the execution, and the marks from its snapshots. A
frame's entry maps to `Mark`, a committed exit to `Release`, a reverted one to `Rollback`,
and the end of a transaction to `Commit`, the one step that needs `BufferInvariant`: with no
frame open, `tx_output` is the whole transaction. Block boundaries and the numbering are
stuttering steps.

### The builder on arbitrary streams (`CanonicalProofs`, for `CseInput!Spec`)

- `PartitionIsExact`: `[]PartitionExact`
- `ReduceIsReplay`: `[]ReduceExact`
- `ValidatorIsRight`: `[]ValidatorAgrees`

The properties read the stream as a whole: they count boundaries and cut it into segments.
`Parted` says what the partition knows while it reads: the boundaries of both types counted so
far are as many as its buckets say, every prefix was bracketed, and each bucket, the open one
too, `Holds` the events of its stretch of the stream. `PartitionIsExact` follows from the
counts. For `ReduceIsReplay`, a timeline `Lists` the events in a set of places of the stream if
there is an increasing enumeration of the places that the timeline goes along. That relation
needs no induction: an event more adds one place (`ListsNext`), neighbours in the timeline are
neighbours among the places (`ListsInOrder`), and cutting out a segment shifts it
(`ListsShift`). A timeline without a gap is then a replay as `Continues` and `Yields` state it,
and one with a gap names two writes of a cell that no state can be replayed through.
`ValidatorAgrees` is inductive once `in_transaction` is typed: both decide on the type of the
event and on whether a transaction is open (`PartitionDecides`, `ValidatorDecides`).

### The lifecycle pass (`CanonicalProofs`, for `CseInput!Spec`)

- `AcceptanceIsExact`: `[]AcceptedExactly`, a transaction is valid exactly when every account
  with a lifecycle event was absent before, is created first and is never destroyed twice in a
  row
- `AlternationIsResolved`: `[]AlternationResolved`, an account that is created and destroyed in
  turn, however often, has one generation for each incarnation

Both properties read the stream, the pass reads a table of histories that the partition filed:
the table `Keeps` for each address exactly the lifecycle events about it, in the order of the
stream (`KeepsChronicled`). `resolve` goes through a history one event at a time; `Tracked` says,
of what it has made of the first `n`, in which places the closed generations were destroyed
(`ClosedTo`), and whether one is open and since when. Each event keeps it (`TrackedNext`), so
the generations of a whole history are known place by place: they `Spans` it (`ResolvedIs`,
`SpansGenerated`). `BackwardIs` and `CrowdedIs` say which histories make a generation end before
it begins, or overlap with the one before; canonicalising does not disturb the order in which the pass
pushes facts (`PassLists`, with `InOrderOnce` of the next section), neighbours in an account's
list are neighbours in the whole list (`NeighboursStay`), and so the report names a violation
for exactly these histories (`PassAccepts`). For alternating histories places `2 g - 1` and
`2 g` are the creation and the destruction of incarnation `g` (`ResolvedInTurn`), and the part
of the canonical form that is about an address is its list and no other (`OneListing`,
`OwnGenerations`).

### The canonical form (`CanonicalProofs`, for `CanonicalForm!FormSpec`)

- `ReportIsSound`: `[]ReportSound`, a report without a violation means distinct keys, disjoint
  intervals of an account and no balance without its generation
- `FormIsNormal`: `[]NormalForm`, canonicalising again changes nothing, and facts with distinct
  keys have one form in whatever order they come

The facts are any, in any number. Lists that are sorted and thinned out are described by
counting (`Ordering`): the element of rank `r` is the one with `r - 1` before it. `ListedIs`
says that this lists a finite set once each in order, and `InOrderOnce` that there is one such
list; the sort is thus the only list of its elements that is ascending, which is what
`SortedAlike` and `GenerationsStay` need. `ReportSound` is not about neighbours, the report
is: `NeighboursSuffice` leads from the one to the other, since in a list that is ordered by
account and beginning with no overlap between neighbours ends grow as beginnings do.

### Canonical bytes (`CanonicalProofs`, for `CanonicalBytes!BytesSpec`)

- `DecodersAreExact`: `[]DecodesExactly`, the decoders accept the encodings and nothing else
- `CommitmentsAreBinding`: `[]CommitmentsBind`, a commitment is good for one object
- `RootsIdentify`: `[]RootIdentifies`, a root tells a snapshot up to all-zero events at its end
- `HexReadersAreOne`: `[]HexReadersAgree`

Base, widths, bounds and the number of edits are arbitrary. `BytesInvariant` types the bytes by
the kind of the object and says that unedited bytes are the encoder's; the rest is about the
operators. Digits: `EncodedIsDecoded` and `DecodedIsEncoded` make little-endian writing and
reading inverse to each other on numbers that fit. Fields: what is `Joined` is found again by the
slices at the same offsets (`FieldsJoined`), and slices that meet join to the whole
(`SlicesJoin`); for the list in a snapshot the same, element by element (`FlattenUniform`,
`CutIsWhole`). A decoder's value encoded again is then the bytes, since each field is.

Trees: `Wide` layers of one width have the same layer above them only if they are the same
(`AboveTells`), so two trees with one root agree on every layer counted from the root
(`RootsMeet`); a tree that is lower would have a chunk where the other has a hash
(`RootsLevel`). `MerkleBinds` says it in one line: equal roots are equal heights and equal
leaves. A leaf is a piece of the `Stream`, the bytes and then zeros without end, so two strings
share a root when their streams and their heights are the same (`SsrRootIs`). For snapshots the
stream is the header and then events, of which all but finitely many are `ZeroSummary`, and
that is `RootIdentifies`. For batches the certificates lie at fixed places of the leaves, in the
order of the addresses (`AddressesListed`, `Chunked`). Two batches with one root agree as far
as the shorter one reaches, and `NoneMore` excludes that the other goes on in the padding: the
next certificate would be all zeros, so its address would not come after that of the first.
That an empty batch is not the root of a longer one is the height again, as a certificate has
more than one chunk. So the padding that makes snapshots ambiguous does no harm to batches, but
only because they are sorted and without duplicates.

### From the node to the tables (`PipelineProofs`, for `Pipeline!Spec`)

- `BlocksAreReduced`: `[]NetEffect`, the tables of a block are the net effect of each of its
  transactions on the state of the execution
- `ProvenanceIsExact`: `[]ProvenanceExact`, the buckets account for the events of the bridge's
  output, each once

The stages run one after the other over stored streams, so an invariant about the node is of
no use any more when the bridge reads: what it did must be recovered from the stream. `Tells`
says that a stream explains an execution: there is a sequence of views of the state, one
between any two events, of which each event is a step (`Run`) and the last is the state of
now. It holds of the tracer's stream next to `HostInvariant` (`HostStepTold`), and writing and
reading the fixture does not change it. While the bridge reads, its buffers are the pieces
that the views cut the open transaction into, as in `EvmBridgeProofs`, but cut at the view
*at the place the bridge has reached* (`BridgeAt`); the finished output `Delivers` the log of
transactions stretch by stretch, bracketed, each leading from one state of the log to the
next. The builder's buckets hold those stretches (`Parted`, from the section on arbitrary streams), and a
timeline that is reduced gives the first and the last value of its stretch (`EffectReduced`).
`WayRight` is the conjunction, stage by stage; each step of a stage preserves its part and the
last step of a stage hands on to the next. The views are existentially quantified, so this
invariant is not one that TLC could evaluate; its conclusion is what the run `pipeline` checks.

### Gate 2 and the certificates (`AuditProofs`, for `Audit!Spec`)

- `AuditIsRight`: `[]AuditInvariant`
- `ClaimsAreJudgedByTheEvents`: `[]ClaimsJudged`, certificates from elsewhere are accepted
  exactly when the events chain and the claims are what they lead to, slot by slot
- `PipelineIsJudgedFromZero`: `[]HonestJudged`, exactly when the pipeline's own are accepted
- `BothPathsAgree`: `[]PathsAgree`, one go or hydration and assembly, the certificates are equal
- `LastIncarnationIsCertified`: `[]LastIncarnation`, a certificate is for the last incarnation of
  its account

`AuditInvariant` says that builder and Gate 2, each of which replays the events in its own
way, hold after every event what the events so far say: an account of Gate 2 is the last write
to each of its cells (`ReplayRight`), the builder has a timeline for every cell written and it
ends in the same value (`BuilderRight`); that the errors logged so far are none exactly when
the events chain; and that the batch that is judged is the batch that was certified. What
is left is the comparison at the end. `RootBinds` says that two storages have the same root
only if they have the same slots with the same values: two trees of one height with one root
have the same leaves, by induction over the height (`SameRootSameLeaves`), trees of different
height differ in the domain of their rows, padding is no leaf, and the hashed slots tell where
a value belongs. `Judged` then turns the list of errors of `Compare` into the statement about
claims, attribute by attribute. For `LastIncarnation` the events are any, valid or not:
`LifecyclesRight` says that the table keeps the lifecycle events so far, `GenerationsCount` that
a history has as many generations as destructions, and one more exactly when something was created
after the last of them, and `LastIsTerminal` that `Identity` finds the last generation of an
address in the canonical form of all of them.

### Sinks that fail (`MultiplexerProofs`, for `Multiplexer!Spec` and `Transcript!TranscriptSpec`)

- `MultiplexerIsRight`: `[]MultiplexerInvariant`
- `EvictionsAlwaysAddUp`: `[]EvictionsAddUp`
- `HealthySinksServed`: `[]HealthyServed`
- `RecordersMissNothing`: `[]RecordedAll`
- `DriftAlwaysFound`: `[]DriftFound`

Callers overlap in every way: each walks the list it took, and one that evicts holds the
mutex from the load of the active list until it has stored its own. `MultiplexerInvariant`
says that only one does so at a time and that what it loaded is still the active list, so that
its store brings nothing back; and that a sink whose name never panicked is, for a caller in
a call, either served or still to be walked. For the transcripts there is one caller at a
time, as the node has it (`OneCall`), and `Right` says for each recorder what is in its
transcript: all calls it has had its turn in, numbered densely; in strict mode all but those
thrown out of, for which `WithoutSome` names the calls left out.

## 6. What is only model-checked

- `Delivered`: liveness under fairness is beyond the prover.

The library's induction theorems take an operator as well. Where the theorems above need
induction (trees of any height, digits, lists of elements) they use `AllNaturals`: a set of naturals
that has 0 and is closed under successor has them all, which follows from the theorem that the
finite subsets of a set are well-founded, a statement about sets.

## 7. What is not modelled, and why

- Gas, opcodes and consensus rules of the EVM: external.
- JSON itself (quoting, numbers, white space); `Wire` has kinds and fields. `json.MarshalIndent`
  returns no error for the types of an envelope. The metadata of an envelope is not read again.
- Hexadecimal strings with characters of more than one byte, which `hex_decode` slices by
  bytes: the strings of the model have one-byte characters.
- `AccountCreatedEvent`: the tracer never emits it; it is read in `Fixture`.
- `CseValidator::reset`: nothing calls it. The version check: there is one version.
- `StreamRaw`, which hands a transcript to a callback and changes no state.
- Collisions of hashes, and that a domain tag and the content behind it are concatenated
  without a length: a commitment is a term of both. Conversions of `Digest`.
- The layout of reports and the wall-clock fields in them.
- `runtime/protocol` (constants), `runtime/ssr` (one line), scripts, schemas: no behaviour of
  the pipeline.

## 8. Plan

Done, in the order in which later stages depend on earlier ones: the bridge under the EVM with
its proofs and the journal it implements, the gate and its proof, the tracer and its proofs,
the harness with its faults, the wire, the pipeline and its proof from end to end, the builder,
lifecycle resolution, certificates, SSZ, Gate 2 and its proof, the multiplexer with recorders
and their proofs, the canonical bytes and their proofs. Left: the envelope's metadata, if a
consumer comes to read it.
