----------------------------- MODULE StoreFiles -----------------------------
(***************************************************************************)
(* The example key store and data store services at file level: a thread   *)
(* per connection (key_store_service/main.c, data_store_service/main.c),   *)
(* each running the database functions of its service's db.c as a sequence *)
(* of file operations, over directories that nothing locks and that outlive*)
(* a crash.  What a thread has still to do is a sequence of instructions,  *)
(* one per file operation, in the order of the C function; one action per  *)
(* kind of instruction executes it.                                        *)
(*                                                                         *)
(* A file is read in one step.  A reader that meets a writer of the same   *)
(* file can in truth get a part of a value as well; it is disturbed, and   *)
(* nothing is said of what such a request answers.  MACs have one length.  *)
(***************************************************************************)
EXTENDS StoreRequests, FileTree, FiniteSets

CONSTANTS Threads,
          Workloads,    \* sets of requests, one of which the threads serve
          Initial,      \* the items there are at first, with their values
          NoRequest

ASSUME StoreFilesAssumption ==
    /\ IsFiniteSet(Threads)
    /\ \A load \in Workloads : load \subseteq AllRequests
    /\ NoRequest \notin AllRequests
    /\ Initial \in [DOMAIN Initial -> Values \cup Users] /\ DOMAIN Initial \subseteq Items
    /\ (Values \cup Users) \cap {Absent, Torn, Empty, Mixed, "overlap", "crash"} = {}
    /\ Cardinality({Absent, Torn, Empty, Mixed, "overlap", "crash"}) = 6

VARIABLES tree,       \* the directory tree: directories and files
          th,         \* th[t]: what a service thread is doing
          \* History, read by the properties and the refinement only:
          requests,   \* the workload of this behaviour
          cell        \* cell[i]: the item when nobody was writing it, or what
                      \* has damaged it since: "overlap" or "crash"

vars == <<tree, th, requests, cell>>

-----------------------------------------------------------------------------
\* Instructions

ReadFile(p, must) == [do |-> "read", path |-> p, must |-> must]
Admit == [do |-> "admit"]
Mkdir(p) == [do |-> "mkdir", path |-> p]
OpenDir(p) == [do |-> "opendir", path |-> p]
Clear(p, left) == [do |-> "clear", path |-> p, left |-> left]

\* write_whole_file: strict if its result is looked at, fixed if every value
\* has the same length.
WriteFile(p, v, strict, fixed) ==
    [do |-> "open", path |-> p, val |-> v, strict |-> strict, fixed |-> fixed]
Fill(w) == [w EXCEPT !.do = "fill"]

-----------------------------------------------------------------------------
\* The functions of data_store_service/db.c

DataFile(f) == Append(BlockItem, f)

WriteBlock(v) ==
    <<Mkdir(BlockItem), WriteFile(DataFile("data"), v, TRUE, FALSE),
      WriteFile(DataFile("meta"), v, TRUE, FALSE),
      WriteFile(DataFile("mac"), v, TRUE, TRUE)>>

\* db_set_block: without an id there is nothing to compare with; no MAC file,
\* no comparison.
db_insert_block(r) == <<Admit>> \o WriteBlock(r.val)
db_set_block(r) == <<ReadFile(DataFile("mac"), FALSE), Admit>> \o WriteBlock(r.val)

db_get_block(r) == <<ReadFile(DataFile("data"), TRUE), ReadFile(DataFile("meta"), TRUE)>>

db_rem_block(r) == <<ReadFile(DataFile("mac"), TRUE), Admit, OpenDir(BlockItem)>>

-----------------------------------------------------------------------------
\* The functions of key_store_service/db.c, called as key_store/functions.c
\* calls them

ReadToken(u, k) ==
    <<ReadFile(Append(TokenItem(u, k), "token"), TRUE),
      ReadFile(Append(TokenItem(u, k), "owner"), TRUE)>>

\* hm_key_store_set_rtoken and _wtoken test the token of an owner that is not
\* the user; the results of the two writes are not looked at.
db_set_token(r) ==
    LET row == TokenItem(r.user, r.kind) IN
    (IF r.owner = r.user THEN <<>> ELSE ReadToken(r.owner, r.kind))
    \o <<Admit, Mkdir(Front(Front(row))), Mkdir(Front(row)), Mkdir(row),
         WriteFile(Append(row, "token"), r.owner, FALSE, FALSE),
         WriteFile(Append(row, "owner"), r.owner, FALSE, FALSE)>>

db_get_token(r) == ReadToken(r.user, r.kind)

\* The directory that goes with a token: all of the user's with the read token.
RemovedDir(r) == IF r.kind = "r" THEN UserDir(r.user) ELSE TokenItem(r.user, "w")

\* hm_key_store_del_rtoken and _wtoken test the caller's write token.
db_del_token(r) == ReadToken(r.owner, "w") \o <<Admit, OpenDir(RemovedDir(r))>>

Program(r) ==
    CASE r.do = "insert_block" -> db_insert_block(r)
      [] r.do = "set_block" -> db_set_block(r)
      [] r.do = "get_block" -> db_get_block(r)
      [] r.do = "rem_block" -> db_rem_block(r)
      [] r.do = "set_token" -> db_set_token(r)
      [] r.do = "get_token" -> db_get_token(r)
      [] r.do = "del_token" -> db_del_token(r)

-----------------------------------------------------------------------------
\* What the files say

PartsOf(i) == {Append(i, f) : f \in IF i = BlockItem THEN {"data", "meta", "mac"}
                                                     ELSE {"token", "owner"}}

\* The value of an item: all of its files with that value, or none of them.
Stored(tr, i) ==
    LET there == PartsOf(i) \cap DOMAIN tr.files IN
    IF there = {} THEN Absent
    ELSE LET v == tr.files[CHOOSE p \in there : TRUE] IN
         IF there = PartsOf(i) /\ \A p \in there : tr.files[p] = v THEN v ELSE Mixed

Idle == [req |-> NoRequest, prog |-> <<>>, got |-> <<>>, linked |-> FALSE,
         clash |-> FALSE, answer |-> "none"]

Busy(x) == x.prog # <<>>
Next1(x) == Head(x.prog)

\* A request that has been admitted and changes files.
Writing(x) == Busy(x) /\ Writes(x.req) # {} /\ Next1(x).do \notin {"read", "admit"}

FirstTree ==
    LET there == DOMAIN Initial
        parts == UNION {PartsOf(i) : i \in there} IN
    [dirs |-> {<<>>, <<"data_store">>, <<"key_store">>}
                \cup UNION {{SubSeq(i, 1, n) : n \in 1..Len(i)} : i \in there},
     files |-> [p \in parts |-> Initial[Front(p)]]]

Damaged == {"overlap", "crash"}

Init ==
    /\ requests \in Workloads
    /\ tree = FirstTree
    /\ th = [t \in Threads |-> Idle]
    /\ cell = [i \in Items |-> Stored(FirstTree, i)]

-----------------------------------------------------------------------------
\* Steps of a thread

\* The history that goes with a step after which the threads are at next: who
\* is disturbed by a writer, which items two of them have written, what the
\* others hold.
Noted(next, repaired) ==
    LET writers == {u \in Threads : Writing(next[u])}
        touched(u) == Reads(next[u].req) \cup Writes(next[u].req)
        at(i) == {u \in writers : i \in Writes(next[u].req)}
    IN
    /\ th' = [u \in Threads |->
            IF Busy(next[u]) /\ \E v \in writers \ {u} : Writes(next[v].req) \cap touched(u) # {}
            THEN [next[u] EXCEPT !.clash = TRUE] ELSE next[u]]
    /\ cell' = [i \in Items |->
            IF cell[i] \in Damaged /\ i \notin repaired THEN cell[i]
            ELSE IF at(i) = {} THEN Stored(tree', i)
            ELSE IF Cardinality(at(i)) > 1 THEN "overlap" ELSE cell[i]]
    /\ UNCHANGED requests

\* t goes on with the instructions rest; with none left it answers a, which the
\* history takes for unknown if t was disturbed.
GoesOn(t, x, rest, a) ==
    IF rest # <<>> THEN Noted([th EXCEPT ![t] = [x EXCEPT !.prog = rest]], {})
    ELSE Noted([th EXCEPT ![t] = [Idle EXCEPT !.answer = IF x.clash THEN "unknown" ELSE a]],
               IF Writing(x) /\ ~x.clash THEN Writes(x.req) ELSE {})

\* The function returns with a failure.
Fails(t) == GoesOn(t, th[t], <<>>, "fail")

Rest(t) == Tail(th[t].prog)
Goes(t) == GoesOn(t, th[t], Rest(t), "ok")

\* A request arrives; a new block gets an id that nobody uses.
Start(t, r) ==
    /\ ~Busy(th[t])
    /\ r.do = "insert_block" =>
            /\ ~Exists(tree, BlockItem)
            /\ \A u \in Threads : ~Busy(th[u])
    /\ UNCHANGED tree
    /\ Noted([th EXCEPT ![t] = [Idle EXCEPT !.req = r, !.prog = Program(r)]], {})

At(t, do) == Busy(th[t]) /\ Next1(th[t]).do = do

\* What a completed read comes to: the value all files agree on.
Agreed(got) ==
    IF \A n \in 1..Len(got) : got[n] = got[1] /\ got[1] \notin {Empty, Mixed}
    THEN got[1] ELSE "torn"

\* read_whole_file.
Read(t) ==
    LET in == Next1(th[t])
        got == Append(th[t].got, IF HasFile(tree, in.path) THEN tree.files[in.path]
                                                          ELSE Absent)
    IN
    /\ At(t, "read")
    /\ UNCHANGED tree
    /\ IF HasFile(tree, in.path) \/ ~in.must
       THEN GoesOn(t, [th[t] EXCEPT !.got = got], Rest(t), Agreed(got))
       ELSE Fails(t)

\* Mutant: the lengths are compared and the bytes are not.
MacMatchesLengthOnly(r, mac) ==
    r.old # Absent \/ (r.do = "set_block" /\ mac = Absent)

\* The comparison of the MAC read with the one the caller brought.
MacMatches(r, mac) == mac = r.old \/ (r.do = "set_block" /\ mac = Absent)

\* Mutant: the MAC file is opened for writing before the comparison.
AdmittedTruncatesFirst(t) ==
    LET r == th[t].req IN
    /\ At(t, "admit")
    /\ tree' = IF r.do = "set_block" /\ HasFile(tree, DataFile("mac"))
               THEN Truncate(tree, DataFile("mac")) ELSE tree
    /\ IF r.do \in {"set_block", "rem_block"} /\ ~MacMatches(r, th[t].got[1])
       THEN Fails(t) ELSE Goes(t)

\* The decision taken from what has been read, in local variables.
Admitted(t) ==
    LET r == th[t].req IN
    /\ At(t, "admit")
    /\ UNCHANGED tree
    /\ IF r.do \in {"set_block", "rem_block"} /\ ~MacMatches(r, th[t].got[1])
       THEN Fails(t) ELSE Goes(t)

Makes(t) ==
    /\ At(t, "mkdir")
    /\ tree' = MakeDir(tree, Next1(th[t]).path)
    /\ Goes(t)

\* fopen in write_whole_file: a failure ends a data store request and is passed
\* over by a key store request.
Open(t) ==
    LET in == Next1(th[t]) IN
    /\ At(t, "open")
    /\ IF CanOpenForWrite(tree, in.path)
       THEN /\ tree' = Truncate(tree, in.path)
            /\ GoesOn(t, [th[t] EXCEPT !.linked = TRUE], <<Fill(in)>> \o Rest(t), "ok")
       ELSE /\ UNCHANGED tree
            /\ IF in.strict THEN Fails(t) ELSE Goes(t)

\* fwrite and fclose in write_whole_file; a file that was removed while it was
\* open is written in vain.
FillIn(t) ==
    LET in == Next1(th[t]) IN
    /\ At(t, "fill")
    /\ IF th[t].linked
       THEN \E v \in Overwritten(tree, in.path, in.val, in.fixed) :
                tree' = [tree EXCEPT !.files[in.path] = v]
       ELSE UNCHANGED tree
    /\ GoesOn(t, [th[t] EXCEPT !.linked = FALSE], Rest(t), "ok")

\* opendir in remove_directory: the names it will come across.  A directory that
\* is not there is no failure.
Opens(t) ==
    LET in == Next1(th[t]) IN
    /\ At(t, "opendir")
    /\ UNCHANGED tree
    /\ GoesOn(t, th[t],
              (IF in.path \in tree.dirs THEN <<Clear(in.path, Entries(tree, in.path))>>
                                        ELSE <<>>) \o Rest(t), "ok")

\* p is unlinked under the threads that have it open.
Unlinked(p) == [u \in Threads |->
    IF At(u, "fill") /\ Next1(th[u]).path = p THEN [th[u] EXCEPT !.linked = FALSE] ELSE th[u]]

\* One round of the loop of remove_directory, with the next name in any order: a
\* name that has gone in the meantime ends it, and the directory stays.  A nested
\* directory is removed first.  The last step is rmdir.  The function returns 0
\* whatever happens.
ClearNext(t) ==
    LET in == Next1(th[t])
        less(p) == <<Clear(in.path, in.left \ {p})>> \o Rest(t) IN
    /\ At(t, "clear")
    /\ \/ /\ in.left = {}
          /\ tree' = RemoveDir(tree, in.path)
          /\ Goes(t)
       \/ \E p \in in.left :
            \/ /\ HasFile(tree, p)
               /\ tree' = Without(tree, p)
               /\ Noted([Unlinked(p) EXCEPT ![t].prog = less(p)], {})
            \/ /\ p \in tree.dirs
               /\ UNCHANGED tree
               /\ GoesOn(t, th[t], <<OpenDir(p)>> \o less(p), "ok")
            \/ /\ ~Exists(tree, p)
               /\ UNCHANGED tree
               /\ Goes(t)

\* The service is killed, or exits (exit_handler in main.c); the files stay.
Crash ==
    /\ \E t \in Threads : Busy(th[t])
    /\ th' = [t \in Threads |-> Idle]
    /\ cell' = [i \in Items |->
            IF \E t \in Threads : Writing(th[t]) /\ i \in Writes(th[t].req)
            THEN "crash" ELSE cell[i]]
    /\ UNCHANGED <<tree, requests>>

Step(t) ==
    \/ Read(t) \/ Admitted(t) \/ Makes(t) \/ Open(t) \/ FillIn(t)
    \/ Opens(t) \/ ClearNext(t)

Next ==
    \/ \E t \in Threads : Step(t) \/ \E r \in requests : Start(t, r)
    \/ Crash

Spec == Init /\ [][Next]_vars

-----------------------------------------------------------------------------
\* Properties

\* The services keep what AtomicStores promises: a request that no writer of what
\* it touches overlaps works as one atomic step, with the right answer, and only
\* two writers at once or a crash damage an item, until the next complete write.
Promise == INSTANCE AtomicStores WITH
    cell <- [i \in Items |-> IF cell[i] \in Damaged THEN Torn ELSE cell[i]],
    call <- [t \in Threads |-> th[t].req],
    writing <- {t \in Threads : Writing(th[t])},
    clash <- {t \in Threads : th[t].clash},
    answer <- [t \in Threads |-> th[t].answer],
    Requests <- UNION Workloads
AtomicUnlessDisturbed == Promise!Spec

\* A file is empty only while a thread is about to fill it, or where the service
\* died in between: threads that overlap, removals included, never leave an empty
\* file behind.  An empty MAC file is worse than a damaged one, since no caller can
\* bring a MAC that equals it: the block can never be changed or removed again.
EmptyOnlyByCrash ==
    \A p \in DOMAIN tree.files :
        tree.files[p] = Empty =>
            \/ \E t \in Threads : At(t, "fill") /\ Next1(th[t]).path = p /\ th[t].linked
            \/ cell[Front(p)] = "crash"
=============================================================================
