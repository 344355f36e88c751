---------------------------- MODULE HermesTypes ----------------------------
(***************************************************************************)
(* The data every Hermes component exchanges, and what the cryptographic   *)
(* helpers of src/mid_hermes_ll/utils.c do to it.  Payload and metadata of *)
(* a block travel together through every call, so one member of Contents   *)
(* stands for the pair (data, meta).  A symmetric key is a number: keys    *)
(* drawn by soter_rand are only ever compared for equality.                *)
(***************************************************************************)
EXTENDS Naturals

CONSTANTS Blocks,      \* block identifiers
          Users,       \* user identifiers
          Contents,    \* (data, meta) pairs a caller may store
          Registered,  \* users whose public key the credential store holds
          None         \* NULL / "not found"

ASSUME RegisteredAssumption == Registered \subseteq Users

(***************************************************************************)
(* A symmetric key sealed with Themis secure message by the private key of *)
(* "by" for the public key of "to", together with the owner id the key     *)
(* store keeps beside it (mid_hermes_ll_token_t without its user, which is *)
(* always the row the token is stored in or the user it is made for).      *)
(***************************************************************************)
Token == [key : Nat, to : Users, by : Users, owner : Users]
MaybeToken == Token \cup {None}

\* hm_mac_create: HMAC of (data, meta) under the write key.
Mac == [key : Nat, data : Contents]
MaybeMac == Mac \cup {None}

\* hm_encrypt: (data, meta) sealed under the read key; a stored block keeps
\* the MAC it was saved with.
StoredBlock == [key : Nat, data : Contents, mac : Mac]

ASSUME NoneAssumption ==
    None \notin Token \cup Mac \cup StoredBlock \cup Contents \cup Users

\* mid_hermes_ll_token_generate: a key sealed by a user for itself.
TokenGenerate(k, u) == [key |-> k, to |-> u, by |-> u, owner |-> u]

\* Mutant: the new token still names the owner of the old one.
TokenForUserKeepsOwner(t, u, v) == [key |-> t.key, to |-> v, by |-> u, owner |-> t.owner]

\* mid_hermes_ll_token_get_token_for_user: token's user u opens it and seals
\* the key for v; the new token names u as its owner.
TokenForUser(t, u, v) == [key |-> t.key, to |-> v, by |-> u, owner |-> u]

\* mid_hermes_ll_token_get_data succeeds: secure message opens with the
\* user's private key and the public key of the recorded owner.
Opens(t, u) == t.to = u /\ t.by = t.owner

\* hm_decrypt succeeds: secure cell opens only under the sealing key.
Decrypts(t, block) == t.key = block.key

\* Mutant: any user id is taken for a known one.
HasPublicKeyAlways(u) == u \in Users

\* hm_credential_store_get_public_key finds a key for u.
HasPublicKey(u) == u \in Registered
=============================================================================
