------------------------------ MODULE MCServer ------------------------------
(***************************************************************************)
(* Two replicas, one of them with settings that are found wanting only     *)
(* after it has migrated and seeded, and the two modes of the tool.        *)
(***************************************************************************)
EXTENDS Server, TLC

CONSTANTS a, b, up, verify

Roles ==
    [p \in Process |->
        IF p = up THEN "up" ELSE IF p = verify THEN "verify" ELSE "server"]

Settings == [p \in Process |-> IF p = b THEN "late" ELSE "valid"]

Objects == <<"lti_platforms", "idx_lti_platform_registration">>
=============================================================================
