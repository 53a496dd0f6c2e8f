-------------------------- MODULE MCWebhookService --------------------------
(***************************************************************************)
(* The secret of the first receiver was sealed with the old key, with      *)
(* which only that receiver is on the allowlist.  With the new key the     *)
(* second one registers, and the secret of the first is unreadable.  A     *)
(* restart goes from either to the other.                                  *)
(***************************************************************************)
EXTENDS WebhookService, TLC

CONSTANTS c1, c2, old, new

Https(name) == [https |-> TRUE, user |-> FALSE, public |-> TRUE, host |-> name]

Urls ==
    (c1 :> Https(<<"hooks", "example">>) @@ c2 :> Https(<<"lms", "example">>))

Settings ==
    {[allow |-> {[wild |-> wild, name |-> IF wild THEN <<"example">> ELSE <<"hooks", "example">>]},
      key |-> IF wild THEN new ELSE old] : wild \in BOOLEAN}

Table == (c1 :> old @@ c2 :> Nil)
=============================================================================
