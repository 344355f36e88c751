----------------------------- MODULE DataStore -----------------------------
(***************************************************************************)
(* The data store: src/data_store/functions.c over the files of            *)
(* docs/examples/c/mid_hermes/data_store_service/db.c.  A block is replaced*)
(* or removed only by a caller that presents the MAC it is stored with;    *)
(* a block that is not there is written without any check, by an insert    *)
(* and by an update alike (db_set_block).                                  *)
(***************************************************************************)
EXTENDS HermesTypes

VARIABLE ds   \* ds[b]: the stored block, or None

DataStoreTypeOK == ds \in [Blocks -> StoredBlock \cup {None}]

DataStoreInit == ds = [b \in Blocks |-> None]

\* Mutant: an update has to bring a MAC, which is not compared.
SetBlockAllowedUncompared(b, old) == ds[b] # None => old # None

\* db_set_block: old is None for the two insert calls.
SetBlockAllowed(b, old) == ds[b] # None => old = ds[b].mac

\* Mutant: the MAC brought by a delete is not compared.
RemBlockAllowedUncompared(b, old) == ds[b] # None

\* db_rem_block.
RemBlockAllowed(b, old) == ds[b] # None /\ old = ds[b].mac

SetBlock(b, block) == ds' = [ds EXCEPT ![b] = block]

RemBlock(b) == ds' = [ds EXCEPT ![b] = None]
=============================================================================
