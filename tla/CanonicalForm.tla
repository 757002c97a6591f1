---------------------------- MODULE CanonicalForm ----------------------------
(***************************************************************************)
(* CanonicalizationPipeline::process on any facts a caller may hand it,    *)
(* not only those that resolve makes: duplicate keys, intervals that       *)
(* overlap or end before they begin, balances of unknown generations, in   *)
(* any order.                                                              *)
(***************************************************************************)
EXTENDS Lifecycle

CONSTANTS
  Accounts,     \* addresses that occur in the facts
  MaxGen,       \* the largest generation id
  MaxOrdinal,   \* the largest trace ordinal
  MaxFacts,     \* generation facts
  MaxBalances   \* balance facts

ASSUME CanonicalFormAssumption ==
  /\ Accounts \subseteq Nat
  /\ {MaxGen, MaxOrdinal, MaxFacts, MaxBalances} \subseteq Nat

VARIABLES
  generations,   \* the facts handed in so far
  balances,
  output         \* << >>, or what process returned in a 1-tuple

formVars == <<generations, balances, output>>

GenerationFacts ==
  {Generation(a, id, b, e) : a \in Accounts, id \in 0..MaxGen, b \in 0..MaxOrdinal,
                             e \in 0..MaxOrdinal \cup {NoEnd}}

BalanceFacts ==
  {[key |-> GenerationKey(a, id), location |-> 0] : a \in Accounts, id \in 0..MaxGen}

FormInit == generations = << >> /\ balances = << >> /\ output = << >>

AddGeneration(g) ==
  /\ output = << >>
  /\ Len(generations) < MaxFacts
  /\ generations' = Append(generations, g)
  /\ UNCHANGED <<balances, output>>

AddBalance(b) ==
  /\ output = << >>
  /\ Len(balances) < MaxBalances
  /\ balances' = Append(balances, b)
  /\ UNCHANGED <<generations, output>>

Process ==
  /\ output = << >>
  /\ output' = <<canonicalize(<< >>, generations, balances)>>
  /\ UNCHANGED <<generations, balances>>

Processed == output # << >> /\ UNCHANGED formVars

FormStep ==
  \/ \E g \in GenerationFacts : AddGeneration(g)
  \/ \E b \in BalanceFacts : AddBalance(b)
  \/ Process
  \/ Processed

FormSpec == FormInit /\ [][FormStep]_formVars

-----------------------------------------------------------------------------
(***************************************************************************)
(* Properties                                                              *)
(***************************************************************************)

\* The sequences that hold the elements of s in another order.
Rearranged(s) ==
  {[i \in DOMAIN s |-> s[p[i]]] : p \in {f \in [DOMAIN s -> DOMAIN s] :
                                          \A i, j \in DOMAIN s : f[i] = f[j] => i = j}}

\* The form is a normal form: making it again changes nothing, and facts with
\* distinct keys have one form, whatever order they come in, even when several
\* begin at the same point.
NormalForm ==
  output # << >> =>
    /\ canonicalize(<< >>, output[1].generations, output[1].balances) = output[1]
    /\ (\A i, j \in DOMAIN generations :
          generations[i].key = generations[j].key => i = j) =>
            \A s \in Rearranged(generations) : canonicalize(<< >>, s, balances) = output[1]

\* Comparing neighbours is enough: a report without a violation means that all
\* keys are distinct, that any two closed generations of an account, not only
\* adjacent ones, are disjoint, and that every balance has its generation.
ReportSound ==
  (output # << >> /\ is_valid(output[1])) =>
    LET gens == output[1].generations IN
    /\ \A i, j \in DOMAIN gens : i # j =>
         /\ gens[i].key # gens[j].key
         /\ (/\ gens[i].key.address = gens[j].key.address
             /\ NoEnd \notin {gens[i].end, gens[j].end})
            => gens[i].end < gens[j].begin \/ gens[j].end < gens[i].begin
    /\ \A b \in DOMAIN balances : \E i \in DOMAIN generations :
         generations[i].key = balances[b].key

=============================================================================
