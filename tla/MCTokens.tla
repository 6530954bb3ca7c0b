------------------------------- MODULE MCTokens -------------------------------
(* Tokens of a tenant with two domains, and a domain without credentials. *)
EXTENDS Tokens

CONSTANTS d1, d2, d3, k1, s1, s2

TwoDomainsOfOne == [t \in {d1, d2, d3} |-> IF t = d3 THEN NoKey ELSE k1]

\* Longer than stated, as stated, too short for a scan, and not stated.
SomeGrants ==
  { [life |-> 7, stated |-> 6], [life |-> 6, stated |-> 6],
    [life |-> 1, stated |-> 1], [life |-> 8, stated |-> 0] }
=============================================================================
