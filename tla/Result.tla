------------------------------- MODULE Result -------------------------------
(***************************************************************************)
(* Rust's Result: a value or an error.                                     *)
(***************************************************************************)

Ok(value) == [ok |-> TRUE, value |-> value]
Err(error) == [ok |-> FALSE, error |-> error]

=============================================================================
