------------------------------- MODULE MCRpc -------------------------------
(***************************************************************************)
(* Instances of Rpc for TLC: a client that calls a function of the store   *)
(* that answers with a status, one that answers with a reply, and one of   *)
(* another store, which this one has not registered.                       *)
(***************************************************************************)
EXTENDS Rpc

KeyStoreMix == {"set_rtoken", "get_rtoken", "read_block"}
=============================================================================
