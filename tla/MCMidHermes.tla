---------------------------- MODULE MCMidHermes ----------------------------
(***************************************************************************)
(* Instances of MidHermes for TLC: session s1 is user u1's, session s2 is  *)
(* user u2's, or a second client of u1; directories are read in the order  *)
(* u1, u2, u3; the workloads give each session the API calls it makes.     *)
(***************************************************************************)
EXTENDS MidHermes

CONSTANTS u1, u2, u3, s1, s2

MCRank == [u \in Users |-> CASE u = u1 -> 1 [] u = u2 -> 2 [] u = u3 -> 3]
MCUserOf == [s \in Sessions |-> IF s = s1 THEN u1 ELSE u2]

\* s1 makes the calls of first, s2 those of second.
Workload(first, second) == [s \in Sessions |-> IF s = s1 THEN first ELSE second]

\* Everything but taking access away, by both.
SharingOps == Workload(ApiCalls \ {"delete", "deny_read", "deny_update"},
                       ApiCalls \ {"delete", "deny_read", "deny_update"})

\* The owner shares and rotates; the other user updates, takes access away and deletes.
\* Rows are removed while rotate and delete read the list of them by index, and rotate
\* saves rows while delete reads it.
LockoutOps == Workload({"create", "grant_read", "grant_update", "rotate"},
                       {"update", "deny_read", "delete"})

\* Access is given and taken by both, and either deletes.
RevokeOps == Workload({"create", "read", "grant_read", "grant_update", "delete"},
                      {"update", "grant_update", "deny_read", "deny_update", "delete"})

\* The owner shares and takes access away; the other user changes the block.
DenyOps == Workload({"create", "grant_read", "grant_update", "deny_read"},
                    {"update", "rotate"})

\* The owner shares and deletes; the other user has an update in progress.
DeleteOps == Workload({"create", "grant_read", "grant_update", "delete"}, {"update"})

\* Two clients of one user: one rotates, the other updates.
OneUser == [s \in Sessions |-> u1]
OwnOps == Workload({"create", "rotate"}, {"update"})

\* The owner rotates while the other user locks it out and deletes the block.
TakeoverOps == Workload({"create", "grant_read", "grant_update", "rotate"},
                        {"deny_read", "delete"})
=============================================================================
