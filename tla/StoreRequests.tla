---------------------------- MODULE StoreRequests ----------------------------
(***************************************************************************)
(* The requests of the data store and of the key store, and what each of   *)
(* them reads, replaces and is allowed to do when nothing else is going on.*)
(* An item is what a request replaces as a whole: a block, with its data,  *)
(* metadata and MAC, or the read or write token of a user, with the owner  *)
(* that sealed it.  It is named by its directory.  The value of a block    *)
(* stands for its three parts, which come from one request and determine   *)
(* each other; the value of a token is its owner.                          *)
(***************************************************************************)
EXTENDS Sequences

CONSTANTS Block, Values, Users, Absent, Torn

BlockItem == <<"data_store", Block>>
UserDir(u) == <<"key_store", Block, u>>
TokenItem(u, k) == <<"key_store", Block, u, k>>   \* k is "r" or "w"
Items == {BlockItem} \cup {TokenItem(u, k) : u \in Users, k \in {"r", "w"}}

\* Requests to the data store: old is Absent where the caller sends no MAC.
InsertBlock(v) == [do |-> "insert_block", val |-> v]
SetBlock(v, old) == [do |-> "set_block", val |-> v, old |-> old]
GetBlock == [do |-> "get_block"]
RemBlock(old) == [do |-> "rem_block", old |-> old]

\* Requests to the key store, for the token of user; owner is the caller.
SetToken(u, k, o) == [do |-> "set_token", user |-> u, kind |-> k, owner |-> o]
GetToken(u, k) == [do |-> "get_token", user |-> u, kind |-> k]
DelToken(u, k, o) == [do |-> "del_token", user |-> u, kind |-> k, owner |-> o]

AllRequests ==
    {GetBlock} \cup {InsertBlock(v) : v \in Values}
        \cup {SetBlock(v, old) : v \in Values, old \in Values \cup {Absent}}
        \cup {RemBlock(old) : old \in Values}
        \cup {SetToken(u, k, o) : u \in Users, k \in {"r", "w"}, o \in Users}
        \cup {GetToken(u, k) : u \in Users, k \in {"r", "w"}}
        \cup {DelToken(u, k, o) : u \in Users, k \in {"r", "w"}, o \in Users}

\* The items a request replaces when it is not refused.  Without its read
\* token a user keeps no write token either.
Writes(r) ==
    CASE r.do \in {"insert_block", "set_block", "rem_block"} -> {BlockItem}
      [] r.do = "set_token" -> {TokenItem(r.user, r.kind)}
      [] r.do = "del_token" ->
            {TokenItem(r.user, k) : k \in IF r.kind = "r" THEN {"r", "w"} ELSE {"w"}}
      [] OTHER -> {}

\* The items its answer or its permission comes from.
Reads(r) ==
    CASE r.do \in {"set_block", "rem_block", "get_block"} -> {BlockItem}
      [] r.do = "set_token" /\ r.owner # r.user -> {TokenItem(r.owner, r.kind)}
      [] r.do = "get_token" -> {TokenItem(r.user, r.kind)}
      [] r.do = "del_token" -> {TokenItem(r.owner, "w")}
      [] OTHER -> {}

\* What it leaves in every item it replaces.
Leaves(r) ==
    CASE r.do \in {"insert_block", "set_block"} -> r.val
      [] r.do = "set_token" -> r.owner
      [] OTHER -> Absent

\* A block is replaced or removed by a caller that has its MAC; one that is not
\* there is written without.  A token of another user needs one of the same
\* kind, and removing a token needs a write token.
Allowed(r, cell) ==
    CASE r.do = "set_block" -> cell[BlockItem] \in {Absent, r.old}
      [] r.do = "rem_block" -> cell[BlockItem] = r.old
      [] r.do = "set_token" ->
            r.owner = r.user \/ cell[TokenItem(r.owner, r.kind)] # Absent
      [] r.do = "del_token" -> cell[TokenItem(r.owner, "w")] # Absent
      [] OTHER -> TRUE
=============================================================================
