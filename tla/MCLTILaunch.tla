---------------------------- MODULE MCLTILaunch ----------------------------
(***************************************************************************)
(* A small instance of LTILaunch: one account launches with and without a  *)
(* line item, and the same subject of another platform, which has no key   *)
(* for grades, launches too.                                               *)
(***************************************************************************)
EXTENDS LTILaunch, TLC

CONSTANTS x1, x2, alice, link, i1

lms == [issuer |-> "lms", client |-> 1, key |-> TRUE]
other == [issuer |-> "other", client |-> 1, key |-> FALSE]
Platforms == {lms, other}

Launch(nonce, platform, item) ==
    [nonce |-> nonce, platform |-> platform, subject |-> alice, link |-> link, item |-> item]

Tokens == {Launch(x1, lms, i1), Launch(x2, lms, Nil), Launch(x2, other, i1)}

Symmetry == Permutations(Request) \cup Permutations(SessionId)
============================================================================
