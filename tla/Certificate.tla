---------------------------- MODULE Certificate -----------------------------
(***************************************************************************)
(* runtime/builder/src/lifecycle: account certificates.  They are built    *)
(* from a reduced state table and a list of generations, in one go         *)
(* (certificate.rs) or in two steps (hydration.rs), and then completed by  *)
(* a storage root (storage_root.rs).  Pure functions.                      *)
(*                                                                         *)
(* A snapshot source is a record of two partial functions, identity and    *)
(* account; an address outside the domain of one is an address for which   *)
(* the source returns an error.  Hashes are terms: two digests are equal   *)
(* exactly when what was hashed is equal.  state_table_proof_root, always  *)
(* zero, is left out.                                                      *)
(***************************************************************************)
EXTENDS Emes, Ordering

CONSTANT Zero   \* the value of 32 zero bytes, and of nonce 0

ASSUME ZeroAssumption == Zero \in Value /\ Slot \subseteq Nat

\* EIP-1153 transient storage.
TransientKey == [kind : {"Transient"}, address : Address, slot : Slot]

\* The base attributes of an account.
Field == {"Nonce", "Balance", "Code"}

FieldKey(a, f) == [kind |-> f, address |-> a, slot |-> NoSlot]

\* The accounts that a table names, by cells of any kind.
Accounts(table) == {k.address : k \in DOMAIN table}

-----------------------------------------------------------------------------
(***************************************************************************)
(* certificate.rs                                                          *)
(***************************************************************************)

\* Mutant of Terminal: the first generation is taken.
TerminalFirst(gens, a) ==
  LET mine == {i \in DOMAIN gens : gens[i].key.address = a}
  IN  {i \in mine : \A j \in mine : gens[i].key.generation_id <= gens[j].key.generation_id}

\* The generations of a that claim to be its last.
Terminal(gens, a) ==
  LET mine == {i \in DOMAIN gens : gens[i].key.address = a}
  IN  {i \in mine : \A j \in mine : gens[j].key.generation_id <= gens[i].key.generation_id}

\* resolve_generation_for_address fails when there is none or more than one;
\* the source is asked then.
Identified(gens, source, a) ==
  Cardinality(Terminal(gens, a)) = 1 \/ a \in DOMAIN source.identity

Identity(gens, source, a) ==
  IF Cardinality(Terminal(gens, a)) = 1
  THEN gens[CHOOSE i \in Terminal(gens, a) : TRUE].key
  ELSE source.identity[a]

\* The attributes of a that the transaction changed.
Projected(table, a) ==
  [f \in {f \in Field : FieldKey(a, f) \in DOMAIN table} |-> table[FieldKey(a, f)].terminal]

\* The attributes that changed, and the others from the snapshot.
Combined(changed, snapshot) ==
  [f \in DOMAIN changed \cup DOMAIN snapshot |->
     IF f \in DOMAIN changed THEN changed[f] ELSE snapshot[f]]

AwaitingDerivation == << >>
Verified(root)     == <<root>>

Certificate(a, generation, fields, root) ==
  [address |-> a, generation |-> generation, fields |-> fields, storage_root |-> root]

\* build_canonical_certificates returns Ok: every account is identified, and the
\* source knows those of which some attribute did not change.
Certifiable(table, gens, source) ==
  \A a \in Accounts(table) :
    /\ Identified(gens, source, a)
    /\ DOMAIN Projected(table, a) # Field => a \in DOMAIN source.account

build_canonical_certificates(table, gens, source) ==
  LET snapshot(a) == IF DOMAIN Projected(table, a) = Field THEN << >> ELSE source.account[a]
  IN  {Certificate(a, Identity(gens, source, a), Combined(Projected(table, a), snapshot(a)),
                   AwaitingDerivation) : a \in Accounts(table)}

-----------------------------------------------------------------------------
(***************************************************************************)
(* hydration.rs                                                            *)
(***************************************************************************)

\* Mutant of HydratedFields: a snapshot overrides what the transaction changed.
HydratedFieldsStale(table, source, a) ==
  [f \in Field |-> IF a \in DOMAIN source.account THEN source.account[a][f]
                   ELSE table[FieldKey(a, f)].terminal]

HydratedFields(table, source, a) ==
  [f \in Field |-> IF FieldKey(a, f) \in DOMAIN table THEN table[FieldKey(a, f)].terminal
                   ELSE source.account[a][f]]

\* hydrate_accounts, when it returns Ok.
hydrate_accounts(table, gens, source) ==
  LET generation_by_address == [a \in Accounts(table) |-> Identity(gens, source, a)]
  IN  [a \in Accounts(table) |->
         [address |-> a,
          snapshot |-> HydratedFields(table, source, a),
          generation |-> generation_by_address[a],
          storage_root |-> AwaitingDerivation]]

\* assemble_certificates fails with IdentityMismatchedKey.
Misfiled(hydrated) == \E a \in DOMAIN hydrated : hydrated[a].address # a

assemble_certificates(hydrated) ==
  {Certificate(hydrated[a].address, hydrated[a].generation, hydrated[a].snapshot,
               hydrated[a].storage_root) : a \in DOMAIN hydrated}

-----------------------------------------------------------------------------
(***************************************************************************)
(* storage_root.rs                                                         *)
(***************************************************************************)

\* Mutant of Leaf: the slot is not hashed.
LeafOfValue(slot, value) == <<"TrieLeaf", value>>

Leaf(slot, value)   == <<"TrieLeaf", slot, value>>
Branch(left, right) == <<"TrieBranch", left, right>>
ZeroLeaf            == <<"Zero">>

\* The sizes that the padding tries, size <<= 1 from one to the next.
Size[h \in Nat] == IF h = 0 THEN 1 ELSE 2 * Size[h - 1]

\* How often it shifts until n leaves have room.
Height(n) == CHOOSE h \in 0..n : Size[h] >= n /\ \A g \in 0..h-1 : Size[g] < n

\* The hashed slots in ascending order, filled up with zero leaves.
Leaves(slots) ==
  LET order == Ascending(DOMAIN slots)
      count == Cardinality(DOMAIN slots)
  IN  [i \in 1..Size[Height(count)] |->
         IF i <= count THEN Leaf(order[i], slots[order[i]]) ELSE ZeroLeaf]

\* The vectors that the fold over pairs goes through, the last of one element.
Levels(leaves, height) ==
  LET level[h \in 0..height] ==
        IF h = 0 THEN leaves
        ELSE [i \in 1..Size[height - h] |-> Branch(level[h-1][2*i - 1], level[h-1][2*i])]
  IN  level

\* SimpleStorageRootDeriver: a Merkle tree over the slots.
derive(slots) ==
  LET height == Height(Cardinality(DOMAIN slots))
  IN  Levels(Leaves(slots), height)[height][1]

\* Mutant of TerminalSlots: transient storage is taken for storage.
TerminalSlotsTransient(table, a) ==
  LET of(s) == {k \in DOMAIN table : /\ k.kind \in {"Storage", "Transient"}
                                     /\ k.address = a /\ k.slot = s}
  IN  [s \in {s \in Slot : of(s) # {}} |-> table[CHOOSE k \in of(s) : TRUE].terminal]

\* The storage of a that the transaction changed; transient storage is none.
TerminalSlots(table, a) ==
  LET key(s) == [kind |-> "Storage", address |-> a, slot |-> s]
  IN  [s \in {s \in Slot : key(s) \in DOMAIN table} |-> table[key(s)].terminal]

resolve_storage_roots(certificates, table) ==
  {[c EXCEPT !.storage_root = Verified(derive(TerminalSlots(table, c.address)))] :
     c \in certificates}

=============================================================================
