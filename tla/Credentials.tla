----------------------------- MODULE Credentials -----------------------------
(***************************************************************************)
(* The credentials of the two programs, src/edhoc/credentials: constant    *)
(* key pairs with their key identifiers, one per role and cipher suite,    *)
(* and the two callbacks libedhoc has of each program.  Both are given the *)
(* suite the EDHOC context was set up for (its user context).              *)
(*                                                                         *)
(* An entry of the table stands for its key pair.                          *)
(***************************************************************************)
CONSTANTS Suite0, Suite2

ASSUME DistinctSuitesAssumption == Suite0 # Suite2

PublicCredentials(role, suite, key_id) ==
    [role |-> role, suite |-> suite, key_id |-> key_id]

\* cred_get_client_public_data: the initiator is the client program.
ClientPublicData(suite) ==
    {d \in {PublicCredentials("initiator", Suite2, 18),
            PublicCredentials("initiator", Suite0, 19)} : d.suite = suite}

\* cred_get_server_public_data
ServerPublicData(suite) ==
    {d \in {PublicCredentials("responder", Suite2, 20),
            PublicCredentials("responder", Suite0, 21)} : d.suite = suite}

\* client_credential_fetch and server_credential_fetch: the message names the
\* key identifier and is authenticated with the private key; no credentials for
\* the suite is a failure.
Fetch(role, suite) ==
    IF role = "initiator" THEN ClientPublicData(suite) ELSE ServerPublicData(suite)

\* Mutant of Verify: the program's own table is searched.
VerifyOwn(role, suite, key_id) ==
    {d \in Fetch(role, suite) : d.key_id = key_id}

\* client_credential_verify and server_credential_verify with
\* cred_edhoc_auth_verify: the peer's public key, if the message names it.
Verify(role, suite, key_id) ==
    {d \in IF role = "initiator" THEN ServerPublicData(suite)
           ELSE ClientPublicData(suite) : d.key_id = key_id}

\* The keys under which a message of sender authenticates to verifier: libedhoc
\* checks it with the public key the verifier returned.
Authenticated(sender, sender_suite, verifier, verifier_suite) ==
    {own \in Fetch(sender, sender_suite) :
        own \in Verify(verifier, verifier_suite, own.key_id)}
=============================================================================
