--------------------------- MODULE OutboundPolicy ---------------------------
(***************************************************************************)
(* internal/security/outbound.go and secret_cipher.go, as far as the       *)
(* webhook service depends on them: which addresses may be called, and     *)
(* which secrets can be read back.  A host name is the sequence of its     *)
(* labels, and an entry of the allowlist is one with an optional "*."      *)
(***************************************************************************)
EXTENDS SequencesExt

\* localhost and the names below localhost and local.
IsLocal(host) ==
    \/ host = <<"localhost">>
    \/ \E name \in {<<"localhost">>, <<"local">>} : IsStrictSuffix(name, host)

\* A wildcard admits the names below its domain, never the domain itself.
HostAllowed(allow, host) ==
    \E entry \in allow :
        IF entry.wild THEN IsStrictSuffix(entry.name, host) ELSE entry.name = host

\* ValidateURL of a URL [https, user, host, public]; public is FALSE for an
\* address literal of a special-use network.
ValidateURL(allow, url) ==
    /\ url.https /\ url.host # << >> /\ ~url.user
    /\ ~IsLocal(url.host)
    /\ HostAllowed(allow, url.host)
    /\ url.public

\* AES-GCM opens what was sealed with the same key.
Decrypts(key, sealed) == sealed = key
=============================================================================
