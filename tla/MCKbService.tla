---------------------------- MODULE MCKbService -----------------------------
(* An instance of KbService small enough for TLC: a shared document that one *)
(* tenant has a confidential copy of, and an untagged one.                   *)
EXTENDS KbService

CONSTANTS d1, d2, t1, open, secret

Entry(d, o, tags) == [doc |-> d, owner |-> o, tags |-> tags, rev |-> 1]

MCCorpus ==
    {Entry(d1, Shared, {open}), Entry(d1, t1, {open, secret}), Entry(d2, t1, {open})}

Percent(n) == [kind |-> "number", value |-> n]

\* Below the floor and above it; not a number.
Numbers == {Percent(30), Percent(120), [kind |-> "other", value |-> 0]}

\* NaN besides.
AnyNumber == Numbers \cup {[kind |-> "nan", value |-> 0]}
=============================================================================
