------------------------------ MODULE Lifecycle ------------------------------
(***************************************************************************)
(* runtime/builder/src/lifecycle: the resolution of the lifecycle events   *)
(* of a transaction into generations of account identity (resolve.rs),     *)
(* their canonical form and its verification (canonicalize.rs), and the    *)
(* pass that runs the two (mod.rs).  Pure functions of a lifecycle table;  *)
(* addresses are numbers, ordered as the source orders byte arrays.        *)
(*                                                                         *)
(* A provenance stands for its trace_ordinal, the one field that the       *)
(* source compares (timeline.rs, Ord for TraceProvenance); NoEnd is None.  *)
(* Diagnostics are a set: severity is always Error and their order means   *)
(* nothing.                                                                *)
(***************************************************************************)
EXTENDS Ordering

CONSTANT NoEnd   \* the end of a generation that is still open

ASSUME NoEndAssumption == NoEnd \notin Nat

GenerationKey(address, generation_id) ==
  [address |-> address, generation_id |-> generation_id]

Generation(address, id, begin, end) ==
  [key |-> GenerationKey(address, id), begin |-> begin, end |-> end]

Diagnosed(violation, key, location) ==
  [violation |-> violation, key |-> key, location |-> location]

Ordinal(obs) == obs.trace_provenance.trace_ordinal

-----------------------------------------------------------------------------
(***************************************************************************)
(* resolve.rs                                                              *)
(***************************************************************************)

\* A creation starts the generation anew; it is a collision only when the
\* account existed before the transaction and was not destroyed since.
ObserveCreated(acc, obs, address, existed_before_tx) ==
  [acc EXCEPT
     !.begin = Ordinal(obs),
     !.gen_open = TRUE,
     !.diagnostics = IF acc.current_gen_id = 0 /\ existed_before_tx
                     THEN @ \cup {Diagnosed("Collision",
                                   GenerationKey(address, acc.current_gen_id), Ordinal(obs))}
                     ELSE @]

\* Mutant of ObserveDestroyed: the generation stays open.
ObserveDestroyedOpen(acc, obs, address) ==
  [acc EXCEPT
     !.generations = Append(@, Generation(address, acc.current_gen_id, acc.begin,
                                          Ordinal(obs))),
     !.current_gen_id = @ + 1,
     !.begin = Ordinal(obs)]

\* A destruction closes the generation, opened by an event or not.
ObserveDestroyed(acc, obs, address) ==
  [acc EXCEPT
     !.generations = Append(@, Generation(address, acc.current_gen_id, acc.begin,
                                          Ordinal(obs))),
     !.current_gen_id = @ + 1,
     !.begin = Ordinal(obs),
     !.gen_open = FALSE]

\* The locals of the loop over the observations of one address, before it and
\* after each of them.
Observed(address, observations, existed_before_tx) ==
  LET acc[n \in 0..Len(observations)] ==
        IF n = 0
        THEN [current_gen_id |-> 0, begin |-> Ordinal(observations[1]), gen_open |-> TRUE,
              generations |-> << >>, diagnostics |-> {}]
        ELSE IF observations[n].payload = "ContractCreated"
        THEN ObserveCreated(acc[n-1], observations[n], address, existed_before_tx)
        ELSE ObserveDestroyed(acc[n-1], observations[n], address)
  IN  acc

\* A generation that is open after the loop has no end.
ResolveAddress(address, observations, existed_before_tx) ==
  LET acc == Observed(address, observations, existed_before_tx)[Len(observations)]
  IN  [generations |->
         IF acc.gen_open
         THEN Append(acc.generations,
                     Generation(address, acc.current_gen_id, acc.begin, NoEnd))
         ELSE acc.generations,
       diagnostics |-> acc.diagnostics]

Existed(pre_states, address) == address \in DOMAIN pre_states /\ pre_states[address]

Addresses(table) == Ascending(DOMAIN table)

Resolved(table, pre_states, a) == ResolveAddress(a, table[a], Existed(pre_states, a))

\* The generations pushed for the first addresses, by their number.
GenerationsPushed(table, pre_states) ==
  LET pushed[n \in 0..Cardinality(DOMAIN table)] ==
        IF n = 0 THEN << >>
        ELSE pushed[n-1] \o Resolved(table, pre_states, Addresses(table)[n]).generations
  IN  pushed

resolve(table, pre_states) ==
  LET order == Addresses(table)
  IN  [pre_states |-> [i \in 1..Cardinality(DOMAIN table) |->
                         [address |-> order[i],
                          existed_before_tx |-> Existed(pre_states, order[i])]],
       generations |-> GenerationsPushed(table, pre_states)[Cardinality(DOMAIN table)],
       diagnostics |-> UNION {Resolved(table, pre_states, a).diagnostics : a \in DOMAIN table},
       intervals_valid |-> TRUE]

-----------------------------------------------------------------------------
(***************************************************************************)
(* canonicalize.rs                                                         *)
(***************************************************************************)

\* Mutant of GenerationLess: generations that begin together are not ordered.
GenerationLessUntied(g, h) ==
  \/ g.key.address < h.key.address
  \/ g.key.address = h.key.address /\ g.begin < h.begin

\* By address, then chronologically, then by generation.
GenerationLess(g, h) ==
  \/ g.key.address < h.key.address
  \/ /\ g.key.address = h.key.address
     /\ \/ g.begin < h.begin
        \/ g.begin = h.begin /\ g.key.generation_id < h.key.generation_id

KeyLess(g, h) ==
  \/ g.key.address < h.key.address
  \/ g.key.address = h.key.address /\ g.key.generation_id < h.key.generation_id

\* sort_by is stable.
StableSort(s, less(_, _)) ==
  LET before(i, j) == less(s[i], s[j]) \/ (~less(s[j], s[i]) /\ i < j)
      order == Listed(DOMAIN s, before)
  IN  [i \in DOMAIN s |-> s[order[i]]]

\* dedup_by removes an element whose key is that of the one kept before it, which
\* is the key of the one before it.
Dedup(s) == Sublist(s, {i \in DOMAIN s : i > 1 => s[i].key # s[i-1].key})

\* Mutant of DuplicateKeys: only neighbours are compared.
DuplicateNeighbours(gens) ==
  {Diagnosed("DuplicateKey", gens[i].key, gens[i].begin) :
     i \in {j \in DOMAIN gens \ {1} : gens[j-1].key = gens[j].key}}

\* verify_global_schema
DuplicateKeys(gens) ==
  {Diagnosed("DuplicateKey", gens[i].key, gens[i].begin) :
     i \in {j \in DOMAIN gens : \E m \in 1..j-1 : gens[m].key = gens[j].key}}

\* Mutant of InvalidIntervals: an interval may be empty.
InvertedIntervals(gens) ==
  {Diagnosed("IntervalInvalid", gens[i].key, gens[i].begin) :
     i \in {j \in DOMAIN gens : gens[j].end # NoEnd /\ gens[j].begin > gens[j].end}}

InvalidIntervals(gens) ==
  {Diagnosed("IntervalInvalid", gens[i].key, gens[i].begin) :
     i \in {j \in DOMAIN gens : gens[j].end # NoEnd /\ gens[j].begin >= gens[j].end}}

IntegrityBreaches(gens, balances) ==
  {Diagnosed("IntegrityBreach", balances[i].key, balances[i].location) :
     i \in {j \in DOMAIN balances : ~\E m \in DOMAIN gens : gens[m].key = balances[j].key}}

OrderBreaches(gens) ==
  {Diagnosed("OrderingBreach", gens[i].key, gens[i].begin) :
     i \in {j \in DOMAIN gens \ {1} : GenerationLess(gens[j], gens[j-1])}}

Overlaps(gens) ==
  {Diagnosed("OverlapDetected", gens[i].key, gens[i].begin) :
     i \in {j \in DOMAIN gens \ {1} :
              /\ gens[j-1].key.address = gens[j].key.address
              /\ gens[j-1].end # NoEnd
              /\ gens[j-1].end >= gens[j].begin}}

canonicalize(pre_states, generations, balances) ==
  LET pre  == Dedup(StableSort(pre_states, KeyLess))
      gens == Dedup(StableSort(generations, GenerationLess))
      bals == Dedup(StableSort(balances, KeyLess))
  IN  [pre_states |-> pre,
       generations |-> gens,
       balances |-> bals,
       diagnostics |-> DuplicateKeys(gens) \cup InvalidIntervals(gens)
                         \cup IntegrityBreaches(gens, bals)
                         \cup OrderBreaches(gens) \cup Overlaps(gens),
       keys_unique |-> DuplicateKeys(gens) = {},
       referential_integrity |-> IntegrityBreaches(gens, bals) = {},
       deterministic_order |-> OrderBreaches(gens) = {},
       intervals_valid |-> InvalidIntervals(gens) \cup Overlaps(gens) = {}]

-----------------------------------------------------------------------------
(***************************************************************************)
(* mod.rs                                                                  *)
(***************************************************************************)

LifecyclePass(table, pre_states) ==
  LET semantic  == resolve(table, pre_states)
      pre       == [i \in DOMAIN semantic.pre_states |->
                      [key |-> GenerationKey(semantic.pre_states[i].address, 0),
                       existed_before_tx |-> semantic.pre_states[i].existed_before_tx]]
      canonical == canonicalize(pre, semantic.generations, << >>)
  IN  [canonical EXCEPT !.diagnostics = @ \cup semantic.diagnostics]

\* PassOutput::is_valid
is_valid(pass) == pass.diagnostics = {}

=============================================================================
