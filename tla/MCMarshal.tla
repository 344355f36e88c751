------------------------------ MODULE MCMarshal ------------------------------
(***************************************************************************)
(* Instances of Marshal for TLC: the names in the order of memcmp, and two *)
(* hash functions, one that puts them all in one bucket and one that       *)
(* makes two buckets of them.                                              *)
(***************************************************************************)
EXTENDS Marshal

MCOrder ==
    <<"get_pub_key_by_id", "create_block", "create_block_with_id", "delete_block",
      "read_block", "update_block", "del_rtoken", "del_wtoken", "get_indexed_rights",
      "get_rtoken", "get_wtoken", "set_rtoken", "set_wtoken">>

MCHashes == {[f \in Names |-> 0], [f \in Names |-> Rank(f) % 2]}
=============================================================================
