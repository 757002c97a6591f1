------------------------------ MODULE MC_Audit -------------------------------
(***************************************************************************)
(* Audit for TLC: the events, the snapshot sources and the claims.         *)
(***************************************************************************)
EXTENDS Audit

CONSTANTS
  WrittenField,   \* the attributes that change
  Primary         \* the account whose storage changes

Writable ==
  {FieldKey(Primary, f) : f \in WrittenField}
    \cup {k \in Key : k.kind = "Storage" /\ k.address = Primary}
    \cup {k \in TransientKey : k.address = Primary /\ k.slot = 1}

StateChanges == [type : {"StateChanged"}, key : Writable, before : Value, after : Value]

\* What the tracer has hooks for: no transient storage.
CapturedChanges == {p \in StateChanges : p.key.kind # "Transient" /\ p.before # p.after}

AllPayloads ==
  StateChanges
    \cup [type : {"ContractCreated", "ContractDestroyed"}, address : Address]
    \cup [type : {"LogEmitted"}, address : {Primary}]

AllZero == [f \in Field |-> Zero]

\* NullSnapshotSource of full_pipeline.rs
NullSource ==
  [identity |-> [a \in Address |-> [address |-> a, generation_id |-> 0]],
   account |-> [a \in Address |-> AllZero]]

NullSources == {NullSource}

\* Sources that know no identity, or not every account, or that have any
\* attributes for the primary one.
AllSources ==
  {[NullSource EXCEPT !.identity = << >>]}
    \cup {[NullSource EXCEPT !.account = [a \in known |-> AllZero]] : known \in SUBSET Address}
    \cup {[NullSource EXCEPT !.account[Primary] = fields] : fields \in [Field -> Value]}

ClaimFor(a, balance, slots, derived) ==
  [address |-> a, fields |-> [AllZero EXCEPT !["Balance"] = balance], slots |-> slots,
   derived |-> derived]

\* Claims for the primary account: any storage, any balance, or no root.
PrimaryClaims ==
  {ClaimFor(Primary, v, slots, TRUE) :
     v \in Value, slots \in UNION {[some -> Value] : some \in SUBSET Slot}}
  \cup {ClaimFor(Primary, Zero, << >>, FALSE)}

\* Claims for other accounts say that nothing is there.
Blank(accounts) == {ClaimFor(a, Zero, << >>, TRUE) : a \in accounts}

AllClaims ==
  {Blank(some) : some \in SUBSET Address}
    \cup {{c} : c \in PrimaryClaims}
    \cup {{c} \cup Blank(Address \ {Primary}) : c \in {d \in PrimaryClaims : d.slots = << >>}}

NoClaims == {}

=============================================================================
