------------------------------ MODULE HashTable ------------------------------
(***************************************************************************)
(* The table that an RPC server looks its functions up in                  *)
(* (common/hm_hash_table.c): buckets of chains that are kept in the order  *)
(* of memcmp, which a search relies on to stop early.  No key is a prefix  *)
(* of another, since the servers register a name with its terminating zero;*)
(* memcmp then compares two keys whole.                                    *)
(***************************************************************************)
EXTENDS Naturals, Sequences, SequencesExt

CONSTANT Order          \* the keys, in the order of memcmp

ASSUME OrderAssumption == Order \in Seq(STRING)

Rank(key) == CHOOSE n \in DOMAIN Order : Order[n] = key
NoEntry == "none"

\* The number of entries that the loop at the beginning of set and get passes: it stops
\* at the first whose key is not before key.
Passed(chain, key) ==
    CHOOSE n \in 0..Len(chain) :
        /\ \A m \in 1..n : Rank(chain[m].key) < Rank(key)
        /\ n = Len(chain) \/ Rank(chain[n + 1].key) >= Rank(key)

\* hm_hash_table_get.
TableGet(table, hash, key) ==
    LET chain == table[hash[key]]
        n == Passed(chain, key) + 1 IN
    IF n <= Len(chain) /\ chain[n].key = key THEN chain[n].val ELSE NoEntry

\* Mutant: a new entry goes to the head of its chain, where the next search stops.
TableSetAtHead(table, hash, key, val) ==
    IF TableGet(table, hash, key) # NoEntry THEN table
    ELSE [table EXCEPT ![hash[key]] = <<[key |-> key, val |-> val]>> \o @]

\* hm_hash_table_set: a key that is there is refused.
TableSet(table, hash, key, val) ==
    IF TableGet(table, hash, key) # NoEntry THEN table
    ELSE [table EXCEPT ![hash[key]] =
            InsertAt(@, Passed(@, key) + 1, [key |-> key, val |-> val])]
=============================================================================
