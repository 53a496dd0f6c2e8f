----------------------------- MODULE MCGateway ------------------------------
(***************************************************************************)
(* Administrators' tokens come from elsewhere: one is good from the start, *)
(* one was issued by a clock that is ahead and one has no expiry.          *)
(***************************************************************************)
EXTENDS Gateway, TLC

CONSTANTS x

Admin(iat, exp) ==
    [roles |-> {"ADMIN"}, iat |-> iat, exp |-> exp, proper |-> TRUE, secret |-> x]

Tokens == {Admin(0, 2), Admin(2, 3), Admin(0, NoTime)}
=============================================================================
