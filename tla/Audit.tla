-------------------------------- MODULE Audit --------------------------------
(***************************************************************************)
(* The end of the pipeline, in the order of verify/tests/full_pipeline.rs: *)
(* the events of one transaction are partitioned, reduced, resolved into   *)
(* generations and certified, and Gate 2 replays the same events against   *)
(* the certificates.  A batch may also come with certificates from         *)
(* somewhere else, which claim anything.                                   *)
(*                                                                         *)
(* Events are chosen when they are read; the builder and Gate 2 read them  *)
(* without looking at each other, so here they read in step.               *)
(***************************************************************************)
EXTENDS Replay, Builder, Lifecycle, Gate2

CONSTANTS
  Payloads,   \* payloads that occur in the transaction
  MaxTraces,  \* how many of them
  Sources,    \* snapshot sources
  Claims      \* sets of claims that a batch from elsewhere makes

ASSUME AuditAssumption ==
  /\ Address \subseteq Nat
  /\ MaxTraces \in Nat
  /\ \A p \in Payloads :
       /\ p.type \notin {"BeginTransaction", "EndTransaction"}
       /\ p.type = "StateChanged" => /\ p.key \in Key \cup TransientKey
                                     /\ {p.before, p.after} \subseteq Value
       /\ p.type \in {"ContractCreated", "ContractDestroyed"} => p.address \in Address
  /\ \A s \in Sources : \A a \in DOMAIN s.account : DOMAIN s.account[a] = Field
  /\ \A some \in Claims : \A c \in some :
       /\ c.derived \in BOOLEAN
       /\ \E written \in SUBSET Slot :
            IsFiniteSet(written) /\ c.slots \in [written -> Value]

VARIABLES
  input,          \* the events read
  source,         \* the snapshot source, in a 1-tuple once it is used
  certificates,   \* the certificates of the batch
  claims,         \* history: what certificates from elsewhere claim
  origin          \* "none", "pipeline", "failed" or "elsewhere"

vars == <<builderVars, gate2Vars, input, source, certificates, claims, origin>>

Init ==
  /\ BuilderInit
  /\ Gate2Init
  /\ input = << >>
  /\ source = << >>
  /\ certificates = {}
  /\ claims = {}
  /\ origin = "none"

EventOf(payload) ==
  [payload |-> payload, sequence_number |-> Len(input), block_number |-> 1,
   transaction_hash |-> 1, transaction_index |-> 0, call_frame_id |-> 0, call_depth |-> 0]

Read(payload) ==
  /\ Partition(EventOf(payload))
  /\ ReplayTrace(payload)
  /\ input' = Append(input, EventOf(payload))
  /\ UNCHANGED <<source, certificates, claims, origin>>

Begin == input = << >> /\ Read([type |-> "BeginTransaction"])

Trace(payload) ==
  /\ current_bucket # << >>
  /\ Len(input) <= MaxTraces
  /\ Read(payload)

End == current_bucket # << >> /\ Read([type |-> "EndTransaction"])

Finish ==
  /\ buckets # << >>
  /\ PartitionFinish
  /\ UNCHANGED <<gate2Vars, input, source, certificates, claims, origin>>

ReduceTimelines == Reduce /\ UNCHANGED <<gate2Vars, input, source, certificates, claims, origin>>

-----------------------------------------------------------------------------

Table == reduced_ir[1].state_table

\* full_pipeline.rs passes no pre-states and does not ask whether the pass is valid.
Generations == LifecyclePass(reduced_ir[1].lifecycle_table, << >>).generations

Certify(s) ==
  /\ builder_result = "Ok"
  /\ origin = "none"
  /\ source' = <<s>>
  /\ \/ /\ ~Certifiable(Table, Generations, s)
        /\ origin' = "failed"
        /\ UNCHANGED certificates
     \/ /\ Certifiable(Table, Generations, s)
        /\ origin' = "pipeline"
        /\ certificates' = resolve_storage_roots(
                             build_canonical_certificates(Table, Generations, s), Table)
  /\ UNCHANGED <<builderVars, gate2Vars, input, claims>>

\* A certificate as claimed; a claim of no storage at all has no root yet.
CertificateOf(claim) ==
  Certificate(claim.address, GenerationKey(claim.address, 0), claim.fields,
              IF claim.derived THEN Verified(derive(claim.slots)) ELSE AwaitingDerivation)

Claim(some) ==
  /\ builder_result \in {"Ok", "TimelineFailure"}
  /\ origin = "none"
  /\ claims' = some
  /\ certificates' = {CertificateOf(c) : c \in some}
  /\ origin' = "elsewhere"
  /\ UNCHANGED <<builderVars, gate2Vars, input, source>>

\* Traces that contradict one another are refused whatever is claimed.
Claimed == IF gate2_errors = {} THEN Claims ELSE {{}}

Verify ==
  /\ origin \in {"pipeline", "elsewhere"}
  /\ Compare(certificates)
  /\ UNCHANGED <<builderVars, input, source, certificates, claims, origin>>

Audited == (origin = "failed" \/ gate2_result # "replaying") /\ UNCHANGED vars

Next ==
  \/ Begin
  \/ \E payload \in Payloads : Trace(payload)
  \/ End
  \/ Finish
  \/ ReduceTimelines
  \/ \E s \in Sources : Certify(s)
  \/ \E some \in Claimed : Claim(some)
  \/ Verify
  \/ Audited

Spec == Init /\ [][Next]_vars

-----------------------------------------------------------------------------
(***************************************************************************)
(* What the events say when they are read as a whole                       *)
(***************************************************************************)

\* Event i of q concerns the persistent state or the lifecycle of account a.
Touches(q, i, a) ==
  LET p == q[i].payload IN
  \/ p.type = "StateChanged" /\ p.key.kind # "Transient" /\ p.key.address = a
  \/ p.type \in {"ContractCreated", "ContractDestroyed"} /\ p.address = a

Touched == {a \in Address : \E i \in DOMAIN input : Touches(input, i, a)}

Writers(q, k, n) == {i \in 1..n : Writes(q, i, k)}

\* What cell k holds after n events of q, if it held Zero before them.
ValueAfter(q, k, n) ==
  IF Writers(q, k, n) = {} THEN Zero
  ELSE q[CHOOSE i \in Writers(q, k, n) : \A j \in Writers(q, k, n) : j <= i].payload.after

\* Every write starts from what the writes before it left, or from Zero when
\* there are none; only the first event that touches an account is free.
Chained(q) ==
  \A k \in Key : \A i \in Writers(q, k, Len(q)) :
    (\E h \in 1..i-1 : Touches(q, h, k.address)) =>
      q[i].payload.before = ValueAfter(q, k, i - 1)

ChainedFromZero == Chained(input)

Written(k) == Writers(input, k, Len(input)) # {}

Final(k) == ValueAfter(input, k, Len(input))

StorageOf(a) ==
  LET key(s) == [kind |-> "Storage", address |-> a, slot |-> s]
  IN  [s \in {s \in Slot : Written(key(s))} |-> Final(key(s))]

-----------------------------------------------------------------------------
(***************************************************************************)
(* What holds at every point                                               *)
(***************************************************************************)

AuditEvent ==
  [payload : Payloads \cup [type : {"BeginTransaction", "EndTransaction"}],
   sequence_number : Nat, block_number : {1}, transaction_hash : {1},
   transaction_index : {0}, call_frame_id : {0}, call_depth : {0}]

\* Gate 2 knows the accounts touched so far, and of each the cells written.
ReplayRight ==
  /\ DOMAIN replay_state = Touched
  /\ \A a \in Touched :
       /\ DOMAIN replay_state[a] = {k \in Key : k.address = a /\ Written(k)}
       /\ \A k \in DOMAIN replay_state[a] : replay_state[a][k] = Final(k)
  /\ gate2_result = "replaying" => (gate2_errors = {} <=> ChainedFromZero)

\* Bucket b has a timeline for every cell that q writes, up to its last value.
Filed(q, b) ==
  /\ DOMAIN b.state_tables = {k \in Key \cup TransientKey : Writers(q, k, Len(q)) # {}}
  /\ \A k \in DOMAIN b.state_tables :
       LET history == b.state_tables[k] IN
       /\ history \in Seq([before : Value, after : Value, event_id : Nat])
       /\ history # << >>
       /\ history[Len(history)].after = ValueAfter(q, k, Len(q))

\* There is one transaction: not begun, open, or ended and reduced.
BuilderRight ==
  \/ /\ input = << >> /\ current_bucket = << >> /\ buckets = << >>
     /\ builder_result = "partition"
  \/ /\ input # << >> /\ buckets = << >> /\ builder_result = "partition"
     /\ current_bucket # << >> /\ current_bucket = <<current_bucket[1]>>
     /\ Filed(input, current_bucket[1])
  \/ /\ input # << >> /\ current_bucket = << >>
     /\ buckets # << >> /\ buckets = <<buckets[1]>> /\ Filed(input, buckets[1])
     /\ builder_result \in {"partition", "reduce", "TimelineFailure", "Ok"}
     /\ builder_result = "Ok" => reduced_ir[1] = ReducedBucket(buckets[1])

CertificatesRight ==
  /\ origin \in {"none", "failed", "pipeline", "elsewhere"}
  /\ origin # "none" => builder_result \in {"Ok", "TimelineFailure"}
  /\ origin = "pipeline" =>
       /\ builder_result = "Ok"
       /\ \E s \in Sources :
            /\ source = <<s>>
            /\ Certifiable(Table, Generations, s)
            /\ certificates = resolve_storage_roots(
                                build_canonical_certificates(Table, Generations, s), Table)
  /\ origin = "elsewhere" =>
       claims \in Claims \cup {{}} /\ certificates = {CertificateOf(c) : c \in claims}

VerdictRight ==
  /\ gate2_result \in {"replaying", "Ok", "Err"}
  /\ gate2_result # "replaying" =>
       /\ origin \in {"pipeline", "elsewhere"}
       /\ gate2_result = "Ok" <=> ChainedFromZero /\ CertificateErrors(certificates) = {}

\* At every point of a transaction the builder and Gate 2, each on its own, hold
\* what the events so far say, and the batch that Gate 2 judges is the one that
\* was certified (partition.rs process, verify/src/lib.rs replay_and_verify).
AuditInvariant ==
  /\ input \in Seq(AuditEvent)
  /\ ReplayRight
  /\ BuilderRight
  /\ CertificatesRight
  /\ VerdictRight

-----------------------------------------------------------------------------
(***************************************************************************)
(* Properties                                                              *)
(***************************************************************************)

\* Gate 2 accepts a batch from elsewhere exactly when its events chain and its
\* certificates are those of the touched accounts and claim, attribute by
\* attribute and slot by slot, what the events lead to.  That a root pins down
\* every slot is part of it (replay_and_verify, SimpleStorageRootDeriver).
ClaimsJudged ==
  (origin = "elsewhere" /\ gate2_result # "replaying") =>
    (gate2_result = "Ok" <=>
       /\ ChainedFromZero
       /\ {c.address : c \in claims} = Touched
       /\ \A c \in claims :
            /\ c.derived /\ c.slots = StorageOf(c.address)
            /\ \A f \in Field : c.fields[f] = Final(FieldKey(c.address, f)))

\* What the pipeline certifies, Gate 2 accepts exactly when it all started from
\* zero: the events chain from Zero, attributes that did not change are Zero in
\* the snapshot, and the accounts that were written are those that were touched.
\* Builder and Gate 2 each replay the events in their own way and agree on
\* everything else (transient storage counts as a write, a lifecycle event as a
\* touch).
HonestJudged ==
  (origin = "pipeline" /\ gate2_result # "replaying") =>
    (gate2_result = "Ok" <=>
       /\ ChainedFromZero
       /\ \A a \in Address :
            LET written == {f \in Field : Written(FieldKey(a, f))}
                keys    == {k \in Key \cup TransientKey :
                              k.address = a /\ Written(k)}
            IN  /\ a \in Touched <=> keys # {}
                /\ keys # {} => \A f \in Field \ written : source[1].account[a][f] = Zero)

\* The two ways to certify, in one go and by hydration and assembly, give the
\* same certificates, and hydration never files an account under another.
PathsAgree ==
  origin = "pipeline" =>
    LET hydrated == hydrate_accounts(Table, Generations, source[1]) IN
    /\ ~Misfiled(hydrated)
    /\ resolve_storage_roots(assemble_certificates(hydrated), Table) = certificates

\* A certificate is for the last incarnation of its account: its generation
\* counts the destructions before the one that ends it, if any does, whatever
\* the lifecycle pass thinks of the events.
LastIncarnation ==
  origin = "pipeline" =>
    \A c \in certificates :
      LET of(type)  == {i \in DOMAIN input : /\ input[i].payload.type = type
                                             /\ input[i].payload.address = c.address}
          destroyed == of("ContractDestroyed")
          ends      == \E d \in destroyed : \A i \in of("ContractCreated") : i < d
      IN  destroyed \cup of("ContractCreated") # {} =>
            c.generation = GenerationKey(c.address,
                             Cardinality(destroyed) - IF ends THEN 1 ELSE 0)

\* What docs/live_geth_validation_runbook.md says of captures: with the stages
\* of full_pipeline.rs, replay_and_verify returns Ok for every one.
CapturesAccepted ==
  (origin = "pipeline" /\ gate2_result # "replaying") => gate2_result = "Ok"

=============================================================================
