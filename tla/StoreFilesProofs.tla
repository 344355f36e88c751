-------------------------- MODULE StoreFilesProofs --------------------------
(***************************************************************************)
(* Proofs about StoreFiles for any number of threads and any requests of   *)
(* the two stores.                                                         *)
(***************************************************************************)
EXTENDS StoreFiles, FiniteSetTheorems, SequenceTheorems, TLAPS

-----------------------------------------------------------------------------
\* The inductive invariant: how far each thread has come with its request, and what
\* the files hold of it as long as no other thread writes the same item.

Contents == Values \cup Users
Fillings == Contents \cup {Empty, Mixed}

Roots == {<<>>, <<"data_store">>, <<"key_store">>}
KeyDir == <<"key_store", Block>>
Dirs == Roots \cup {KeyDir} \cup {UserDir(u) : u \in Users} \cup Items

\* Files are parts of items and lie in directories that are there.
TreeOK(tr) ==
    /\ tr = [dirs |-> tr.dirs, files |-> tr.files]
    /\ tr.files = [p \in DOMAIN tr.files |-> tr.files[p]]
    /\ \A p \in DOMAIN tr.files :
        /\ tr.files[p] \in Fillings
        /\ Front(p) \in Items \cap tr.dirs /\ p \in PartsOf(Front(p))
    /\ Roots \subseteq tr.dirs /\ tr.dirs \subseteq Dirs
    /\ \A u \in Users, k \in {"r", "w"} : TokenItem(u, k) \in tr.dirs => UserDir(u) \in tr.dirs

Held(tr, p) == IF HasFile(tr, p) THEN tr.files[p] ELSE Absent
Parts(tr, i) == PartsOf(i) \cap DOMAIN tr.files

\* Where the decision of a request stands among its instructions; a request that
\* only reads has none.
AdmitAt(r) ==
    CASE r.do = "insert_block" -> 1
      [] r.do \in {"set_block", "rem_block"} -> 2
      [] r.do = "set_token" /\ r.owner = r.user -> 1
      [] OTHER -> 3

Stores(r) == r.do \in {"insert_block", "set_block", "set_token"}
Removes(r) == r.do \in {"rem_block", "del_token"}
Target(r) == IF r.do = "set_token" THEN TokenItem(r.user, r.kind) ELSE BlockItem
Removed(r) == IF r.do = "del_token" THEN RemovedDir(r) ELSE BlockItem

\* The instructions of a request from the n-th on.
From(P, n) == SubSeq(P, n, Len(P))

\* x writes i, and no other thread has got in its way there.
Alone(x, c, i) == i \in Writes(x.req) /\ (~x.clash \/ c[i] \notin Damaged)

\* x has read the files of n - 1 instructions.
Reading(x, tr, n) ==
    LET P == Program(x.req) IN
    /\ n \in 1..Len(P) /\ n <= AdmitAt(x.req)
    /\ x.prog = From(P, n) /\ ~x.linked
    /\ x.got \in Seq(Fillings \cup {Absent}) /\ Len(x.got) = n - 1
    /\ \A m \in 1..n - 1 :
        /\ P[m].must => x.got[m] # Absent
        /\ ~x.clash => x.got[m] = Held(tr, P[m].path)

\* What x has stored with the instructions before the n-th.
StoredBefore(x, tr, n) ==
    LET P == Program(x.req) IN
    \A m \in AdmitAt(x.req) + 1..n - 1 :
        /\ P[m].do = "mkdir" => P[m].path \in tr.dirs
        /\ P[m].do = "open" => HasFile(tr, P[m].path) /\ tr.files[P[m].path] = Leaves(x.req)

\* x is at its n-th instruction, or has opened the file of it.
Storing(x, tr, c, n) ==
    LET P == Program(x.req) IN
    /\ Stores(x.req) /\ n \in AdmitAt(x.req) + 1..Len(P)
    /\ Alone(x, c, Target(x.req)) => StoredBefore(x, tr, n)
    /\ \/ x.prog = From(P, n) /\ ~x.linked
       \/ /\ P[n].do = "open" /\ x.prog = <<Fill(P[n])>> \o From(P, n + 1)
          /\ x.linked => HasFile(tr, P[n].path)
          /\ Alone(x, c, Target(x.req)) => x.linked /\ tr.files[P[n].path] = Empty

Untouched(tr, c, i) == c[i] \in Damaged \/ Stored(tr, i) = c[i]
Present(tr, c, i) == i \in tr.dirs /\ Untouched(tr, c, i)

\* Of the tokens that x removes those in left are to come, and others than j are gone.
Cleared(x, tr, c, left, j) ==
    /\ left \subseteq Writes(x.req) \ {j}
    /\ \A i \in Writes(x.req) \ {j} : Alone(x, c, i) =>
            IF i \in left THEN Present(tr, c, i) ELSE Parts(tr, i) = {}

Removing(x, tr, c) ==
    LET D == Removed(x.req) IN
    /\ Removes(x.req) /\ ~x.linked
    /\ \/ /\ x.prog = <<OpenDir(D)>>
          /\ \A i \in Writes(x.req) : Alone(x, c, i) => Untouched(tr, c, i)
       \/ \E left \in SUBSET PartsOf(D) :
            /\ D \in Items /\ x.prog = <<Clear(D, left)>>
            /\ Alone(x, c, D) => Parts(tr, D) = left
       \/ \E left \in SUBSET Writes(x.req) :
            /\ D \notin Items
            /\ \/ x.prog = <<Clear(D, left)>> /\ Cleared(x, tr, c, left, D)
               \/ \E j \in Writes(x.req) :
                    /\ Cleared(x, tr, c, left, j)
                    /\ \/ /\ x.prog = <<OpenDir(j), Clear(D, left)>>
                          /\ Alone(x, c, j) => Present(tr, c, j)
                       \/ \E more \in SUBSET PartsOf(j) :
                            /\ x.prog = <<Clear(j, more), Clear(D, left)>>
                            /\ Alone(x, c, j) => Parts(tr, j) = more

\* A thread, the files and the items as far as they concern it.
ThreadOK(x, tr, c) ==
    /\ x = [req |-> x.req, prog |-> x.prog, got |-> x.got, linked |-> x.linked,
            clash |-> x.clash, answer |-> x.answer]
    /\ x.clash \in BOOLEAN /\ x.linked \in BOOLEAN
    /\ IF x.prog = <<>> THEN x.req = NoRequest /\ ~x.clash /\ ~x.linked /\ x.got = <<>>
       ELSE /\ x.req \in UNION Workloads
            /\ \/ \E n \in 1..Len(Program(x.req)) : Reading(x, tr, n) \/ Storing(x, tr, c, n)
               \/ Removing(x, tr, c)

\* t writes i.
At2(t, i) == Writing(th[t]) /\ i \in Writes(th[t].req)
Touches(x) == Reads(x.req) \cup Writes(x.req)

\* Who is overlapped knows it; an item that nobody writes is what its files say.
HistoryOK ==
    /\ \A t \in Threads : \A u \in Threads \ {t} :
        Busy(th[t]) /\ Writing(th[u]) /\ Writes(th[u].req) \cap Touches(th[t]) # {} => th[t].clash
    /\ cell = [i \in Items |-> cell[i]]
    /\ \A i \in Items :
        /\ cell[i] \in Contents \cup {Absent} \cup Damaged
        /\ cell[i] \notin Damaged => \/ \E t \in Threads : At2(t, i)
                                     \/ cell[i] = Stored(tree, i)
        /\ \A t \in Threads : \A u \in Threads \ {t} : At2(t, i) /\ At2(u, i) => cell[i] \in Damaged

IInv ==
    /\ requests \in Workloads
    /\ TreeOK(tree)
    /\ th = [t \in Threads |-> th[t]]
    /\ \A t \in Threads : ThreadOK(th[t], tree, cell)
    /\ HistoryOK
    /\ EmptyOnlyByCrash

-----------------------------------------------------------------------------
\* Paths.

LEMMA FrontOfAppend ==
  ASSUME NEW S, NEW s \in Seq(S), NEW x
  PROVE  Front(Append(s, x)) = s /\ Append(s, x) # <<>>
<1>1. s \in Seq(S \cup {x}) /\ x \in S \cup {x}
  OBVIOUS
<1>2. /\ Append(s, x) \in Seq(S \cup {x})
      /\ Len(Append(s, x)) = Len(s) + 1
      /\ \A i \in 1..Len(s) : Append(s, x)[i] = s[i]
  BY <1>1, AppendProperties
<1>3. Front(Append(s, x)) = SubSeq(Append(s, x), 1, Len(s))
  BY <1>2 DEF Front
<1>4. /\ SubSeq(Append(s, x), 1, Len(s)) \in Seq(S \cup {x})
      /\ Len(SubSeq(Append(s, x), 1, Len(s))) = Len(s)
      /\ \A i \in 1..Len(s) : SubSeq(Append(s, x), 1, Len(s))[i] = Append(s, x)[i]
  BY <1>2, SubSeqProperties
<1>5. SubSeq(Append(s, x), 1, Len(s)) = s
  BY <1>1, <1>2, <1>4, SeqEqual
<1>6. QED
  BY <1>2, <1>3, <1>5

LEMMA TupleAppends ==
  ASSUME NEW a, NEW b, NEW e, NEW d
  PROVE  /\ <<a>> = Append(<<>>, a) /\ <<a, b>> = Append(<<a>>, b)
         /\ <<a, b, e>> = Append(<<a, b>>, e)
         /\ <<a, b, e, d>> = Append(<<a, b, e>>, d)
         /\ <<>> \in Seq({a, b, e, d}) /\ <<a>> \in Seq({a, b, e, d})
         /\ <<a, b>> \in Seq({a, b, e, d}) /\ <<a, b, e>> \in Seq({a, b, e, d})
         /\ <<a, b, e, d>> \in Seq({a, b, e, d})
  OBVIOUS

LEMMA FrontOfTuple ==
  ASSUME NEW a, NEW b, NEW e, NEW d
  PROVE  /\ Front(<<a>>) = <<>> /\ Front(<<a, b>>) = <<a>>
         /\ Front(<<a, b, e>>) = <<a, b>> /\ Front(<<a, b, e, d>>) = <<a, b, e>>
<1> DEFINE S == {a, b, e, d}
<1>1. <<>> \in Seq(S) /\ <<a>> \in Seq(S) /\ <<a, b>> \in Seq(S) /\ <<a, b, e>> \in Seq(S)
  BY TupleAppends
<1>2. Front(Append(<<>>, a)) = <<>>
  BY <1>1, FrontOfAppend
<1>3. Front(Append(<<a>>, b)) = <<a>>
  BY <1>1, FrontOfAppend
<1>4. Front(Append(<<a, b>>, e)) = <<a, b>>
  BY <1>1, FrontOfAppend
<1>5. Front(Append(<<a, b, e>>, d)) = <<a, b, e>>
  BY <1>1, FrontOfAppend
<1>6. /\ <<a>> = Append(<<>>, a) /\ <<a, b>> = Append(<<a>>, b)
      /\ <<a, b, e>> = Append(<<a, b>>, e) /\ <<a, b, e, d>> = Append(<<a, b, e>>, d)
  OBVIOUS
<1>7. QED
  BY <1>2, <1>3, <1>4, <1>5, <1>6, Zenon

\* The parents of the directories.
LEMMA Parents ==
  /\ Front(<<"data_store">>) = <<>> /\ Front(<<"key_store">>) = <<>>
  /\ Front(BlockItem) = <<"data_store">> /\ Front(KeyDir) = <<"key_store">>
  /\ \A u : Front(UserDir(u)) = KeyDir
  /\ \A u, k : Front(TokenItem(u, k)) = UserDir(u)
  BY FrontOfTuple DEF BlockItem, KeyDir, UserDir, TokenItem

LEMMA DirsDiffer ==
  /\ BlockItem # KeyDir
  /\ \A u : UserDir(u) \notin Roots \cup {KeyDir} \cup Items
  /\ \A u, v : UserDir(u) = UserDir(v) => u = v
  /\ \A u, k : TokenItem(u, k) \notin Roots \cup {KeyDir, BlockItem}
  /\ \A u, k, v, l : TokenItem(u, k) = TokenItem(v, l) => u = v /\ k = l
  /\ Roots \cap Items = {} /\ KeyDir \notin Roots \cup Items
  BY DEF BlockItem, KeyDir, UserDir, TokenItem, Roots, Items

LEMMA ItemKinds ==
  ASSUME NEW i \in Items
  PROVE  \/ i = BlockItem /\ PartsOf(i) = {Append(i, "data"), Append(i, "meta"), Append(i, "mac")}
         \/ \E u \in Users, k \in {"r", "w"} :
                i = TokenItem(u, k) /\ PartsOf(i) = {Append(i, "token"), Append(i, "owner")}
  BY DirsDiffer DEF Items, PartsOf

LEMMA ItemsArePaths == \E S : \A i \in Items : i \in Seq(S)
<1> DEFINE S == {"data_store", "key_store", Block, "r", "w"} \cup Users
<1>1. <<"data_store", Block>> \in Seq(S)
  OBVIOUS
<1>2. ASSUME NEW u \in Users, NEW k \in {"r", "w"}
      PROVE  <<"key_store", Block, u, k>> \in Seq(S)
  OBVIOUS
<1> HIDE DEF S
<1>3. ASSUME NEW i \in Items PROVE i \in Seq(S)
  <2>1. \/ i = <<"data_store", Block>>
        \/ \E u \in Users, k \in {"r", "w"} : i = <<"key_store", Block, u, k>>
    BY DEF Items, BlockItem, TokenItem
  <2>2. QED
    BY <1>1, <1>2, <2>1
<1>4. QED
  BY <1>3

LEMMA PartsFacts ==
  ASSUME NEW i \in Items
  PROVE  /\ PartsOf(i) # {}
         /\ \A p \in PartsOf(i) : Front(p) = i /\ p # <<>> /\ p \notin Dirs
         /\ \A j \in Items : PartsOf(i) \cap PartsOf(j) # {} => i = j
<1>1. PICK S : \A j \in Items : j \in Seq(S)
  BY ItemsArePaths
<1>2. \A j \in Items : \A x : Front(Append(j, x)) = j /\ Append(j, x) # <<>>
  BY <1>1, FrontOfAppend
<1>4. ASSUME NEW p \in Dirs PROVE p = <<>> \/ Front(p) \notin Items
  BY Parents, DirsDiffer DEF Dirs, Roots, Items
<1>5. PartsOf(i) # {} /\ \A p \in PartsOf(i) : Front(p) = i /\ p # <<>> /\ p \notin Dirs
  BY <1>2, <1>4 DEF PartsOf
<1>6. \A j \in Items : \A p \in PartsOf(j) : Front(p) = j
  BY <1>2 DEF PartsOf
<1>7. QED
  BY <1>5, <1>6

-----------------------------------------------------------------------------
\* Instructions still to come.

LEMMA FromFacts ==
  ASSUME NEW S, NEW P \in Seq(S), NEW n \in 1..Len(P)
  PROVE  /\ From(P, n) \in Seq(S) /\ From(P, n) # <<>>
         /\ Len(From(P, n)) = Len(P) - n + 1
         /\ From(P, n)[1] = P[n]
         /\ Head(From(P, n)) = P[n] /\ Tail(From(P, n)) = From(P, n + 1)
         /\ From(P, n + 1) \in Seq(S)
         /\ From(P, n + 1) = <<>> <=> n = Len(P)
         /\ From(P, 1) = P
<1>1. Len(P) \in Nat /\ \A m \in 1..Len(P) : P[m] \in S
  OBVIOUS
<1>2. ASSUME NEW m \in 1..Len(P) + 1
      PROVE  /\ From(P, m) \in Seq(S) /\ Len(From(P, m)) = Len(P) - m + 1
             /\ \A k \in 1..Len(P) - m + 1 : From(P, m)[k] = P[m + k - 1]
  <2>1. m <= Len(P) => /\ SubSeq(P, m, Len(P)) \in Seq(S)
                       /\ Len(SubSeq(P, m, Len(P))) = Len(P) - m + 1
                       /\ \A k \in 1..Len(P) - m + 1 : SubSeq(P, m, Len(P))[k] = P[m + k - 1]
    BY <1>1, SubSeqProperties
  <2>2. m = Len(P) + 1 => SubSeq(P, m, Len(P)) = <<>>
    BY <1>1
  <2>3. QED
    BY <2>1, <2>2, <1>1 DEF From
<1>3. /\ Len(From(P, n)) > 0 /\ From(P, n) # <<>>
      /\ From(P, n)[1] = P[n]
  BY <1>1, <1>2
<1>4. /\ Head(From(P, n)) = From(P, n)[1]
      /\ Tail(From(P, n)) \in Seq(S)
      /\ Len(Tail(From(P, n))) = Len(From(P, n)) - 1
      /\ \A k \in 1..Len(Tail(From(P, n))) : Tail(From(P, n))[k] = From(P, n)[k + 1]
  BY <1>2, <1>3, HeadTailProperties
<1>5. /\ From(P, n + 1) \in Seq(S) /\ Len(From(P, n + 1)) = Len(P) - (n + 1) + 1
      /\ \A k \in 1..Len(P) - (n + 1) + 1 : From(P, n + 1)[k] = P[n + 1 + k - 1]
  BY <1>2, <1>1
<1>6. Tail(From(P, n)) = From(P, n + 1)
  <2>1. Len(Tail(From(P, n))) = Len(P) - n /\ Len(From(P, n + 1)) = Len(P) - n
    <3>1. n \in 1..Len(P) + 1
      BY <1>1
    <3>2. Len(From(P, n)) = Len(P) - n + 1
      BY <1>2, <3>1, Zenon
    <3>3. Len(From(P, n)) - 1 = Len(P) - n /\ Len(P) - (n + 1) + 1 = Len(P) - n
      BY <1>1, <3>2
    <3>4. QED
      BY <1>4, <1>5, <3>3
  <2>2. ASSUME NEW k \in 1..Len(P) - n
        PROVE  Tail(From(P, n))[k] = From(P, n + 1)[k]
    <3>1. k + 1 \in 1..Len(P) - n + 1 /\ n + (k + 1) - 1 = n + 1 + k - 1
          /\ Len(P) - (n + 1) + 1 = Len(P) - n
      BY <1>1
    <3>2. n \in 1..Len(P) + 1
      BY <1>1
    <3>3. From(P, n)[k + 1] = P[n + (k + 1) - 1]
      BY <1>2, <3>1, <3>2, Zenon
    <3>4. QED
      BY <1>4, <1>5, <2>1, <3>1, <3>3
  <2>3. QED
    BY <2>1, <2>2, <1>4, <1>5, SeqEqual
<1>7. From(P, n + 1) = <<>> <=> n = Len(P)
  BY <1>1, <1>5, EmptySeq
<1>8. From(P, 1) = P
  BY DEF From
<1>9. QED
  BY <1>1, <1>2, <1>3, <1>4, <1>5, <1>6, <1>7, <1>8

LEMMA PutInFront ==
  ASSUME NEW S, NEW s \in Seq(S), NEW x
  PROVE  /\ <<x>> \o s # <<>> /\ Head(<<x>> \o s) = x /\ Tail(<<x>> \o s) = s
         /\ (<<x>> \o s)[1] = x
<1>1. <<x>> \in Seq(S \cup {x}) /\ s \in Seq(S \cup {x}) /\ Len(<<x>>) = 1 /\ <<x>>[1] = x
  OBVIOUS
<1>2. /\ <<x>> \o s \in Seq(S \cup {x})
      /\ Len(<<x>> \o s) = 1 + Len(s)
      /\ \A k \in 1..Len(<<x>> \o s) :
            (<<x>> \o s)[k] = IF k <= 1 THEN <<x>>[k] ELSE s[k - 1]
  BY <1>1, ConcatProperties
<1>3. <<x>> \o s # <<>> /\ (<<x>> \o s)[1] = x
  BY <1>1, <1>2
<1>4. /\ Head(<<x>> \o s) = (<<x>> \o s)[1]
      /\ Tail(<<x>> \o s) \in Seq(S \cup {x})
      /\ Len(Tail(<<x>> \o s)) = Len(<<x>> \o s) - 1
      /\ \A k \in 1..Len(Tail(<<x>> \o s)) : Tail(<<x>> \o s)[k] = (<<x>> \o s)[k + 1]
  BY <1>2, <1>3, HeadTailProperties
<1>5. Tail(<<x>> \o s) = s
  <2>1. Len(Tail(<<x>> \o s)) = Len(s)
    BY <1>1, <1>2, <1>4
  <2>2. \A k \in 1..Len(s) : Tail(<<x>> \o s)[k] = s[k]
    BY <1>1, <1>2, <1>4
  <2>3. QED
    BY <1>1, <1>4, <2>1, <2>2, SeqEqual
<1>6. QED
  BY <1>3, <1>4, <1>5

LEMMA ConcatIs ==
  ASSUME NEW S, NEW x \in Seq(S), NEW y \in Seq(S), NEW z \in Seq(S),
         Len(z) = Len(x) + Len(y),
         \A k \in 1..Len(x) : z[k] = x[k],
         \A k \in 1..Len(y) : z[Len(x) + k] = y[k]
  PROVE  x \o y = z
<1>1. /\ x \o y \in Seq(S) /\ Len(x \o y) = Len(x) + Len(y)
      /\ \A k \in 1..Len(x \o y) : (x \o y)[k] = IF k <= Len(x) THEN x[k] ELSE y[k - Len(x)]
  BY ConcatProperties
<1>2. ASSUME NEW k \in 1..Len(z) PROVE (x \o y)[k] = z[k]
  <2>1. CASE k <= Len(x)
    BY <1>1, <2>1
  <2>2. CASE k > Len(x)
    <3>1. k - Len(x) \in 1..Len(y) /\ Len(x) + (k - Len(x)) = k
      BY <2>2
    <3>2. QED
      BY <1>1, <2>2, <3>1
  <2>3. QED
    BY <2>1, <2>2
<1>3. QED
  BY <1>1, <1>2, SeqEqual

LEMMA Concat06 ==
  ASSUME NEW a, NEW b, NEW e, NEW d, NEW f, NEW g
  PROVE  <<>> \o <<a, b, e, d, f, g>> = <<a, b, e, d, f, g>>
<1> DEFINE S == {a, b, e, d, f, g}
           x == <<>>
           y == <<a, b, e, d, f, g>>
           z == <<a, b, e, d, f, g>>
<1>1. x \in Seq(S) /\ Len(x) = 0
  OBVIOUS
<1>2. y \in Seq(S) /\ Len(y) = 6 /\ y[1] = a /\ y[2] = b /\ y[3] = e /\ y[4] = d /\ y[5] = f /\ y[6] = g
  OBVIOUS
<1>3. z \in Seq(S) /\ Len(z) = 6 /\ z[1] = a /\ z[2] = b /\ z[3] = e /\ z[4] = d /\ z[5] = f /\ z[6] = g
  OBVIOUS
<1> HIDE DEF x, y, z, S
<1>4. \A k \in 1..Len(y) : k \in {1, 2, 3, 4, 5, 6}
  BY <1>2
<1>5. \A k \in 1..Len(x) : z[k] = x[k]
  BY <1>1, <1>3
<1>6. \A k \in 1..Len(y) : z[Len(x) + k] = y[k]
  BY <1>1, <1>2, <1>3, <1>4
<1>7. Len(z) = Len(x) + Len(y)
  BY <1>1, <1>2, <1>3
<1>8. x \o y = z
  BY <1>1, <1>2, <1>3, <1>5, <1>6, <1>7, ConcatIs, Zenon
<1>9. QED
  BY <1>8 DEF x, y, z

LEMMA Concat14 ==
  ASSUME NEW a, NEW b, NEW e, NEW d, NEW f
  PROVE  <<a>> \o <<b, e, d, f>> = <<a, b, e, d, f>>
<1> DEFINE S == {a, b, e, d, f}
           x == <<a>>
           y == <<b, e, d, f>>
           z == <<a, b, e, d, f>>
<1>1. x \in Seq(S) /\ Len(x) = 1 /\ x[1] = a
  OBVIOUS
<1>2. y \in Seq(S) /\ Len(y) = 4 /\ y[1] = b /\ y[2] = e /\ y[3] = d /\ y[4] = f
  OBVIOUS
<1>3. z \in Seq(S) /\ Len(z) = 5 /\ z[1] = a /\ z[2] = b /\ z[3] = e /\ z[4] = d /\ z[5] = f
  OBVIOUS
<1> HIDE DEF x, y, z, S
<1>4. \A k \in 1..Len(y) : k \in {1, 2, 3, 4}
  BY <1>2
<1>5. \A k \in 1..Len(x) : z[k] = x[k]
  BY <1>1, <1>3
<1>6. \A k \in 1..Len(y) : z[Len(x) + k] = y[k]
  BY <1>1, <1>2, <1>3, <1>4
<1>7. Len(z) = Len(x) + Len(y)
  BY <1>1, <1>2, <1>3
<1>8. x \o y = z
  BY <1>1, <1>2, <1>3, <1>5, <1>6, <1>7, ConcatIs, Zenon
<1>9. QED
  BY <1>8 DEF x, y, z

LEMMA Concat24 ==
  ASSUME NEW a, NEW b, NEW e, NEW d, NEW f, NEW g
  PROVE  <<a, b>> \o <<e, d, f, g>> = <<a, b, e, d, f, g>>
<1> DEFINE S == {a, b, e, d, f, g}
           x == <<a, b>>
           y == <<e, d, f, g>>
           z == <<a, b, e, d, f, g>>
<1>1. x \in Seq(S) /\ Len(x) = 2 /\ x[1] = a /\ x[2] = b
  OBVIOUS
<1>2. y \in Seq(S) /\ Len(y) = 4 /\ y[1] = e /\ y[2] = d /\ y[3] = f /\ y[4] = g
  OBVIOUS
<1>3. z \in Seq(S) /\ Len(z) = 6 /\ z[1] = a /\ z[2] = b /\ z[3] = e /\ z[4] = d /\ z[5] = f /\ z[6] = g
  OBVIOUS
<1> HIDE DEF x, y, z, S
<1>4. \A k \in 1..Len(y) : k \in {1, 2, 3, 4}
  BY <1>2
<1>5. \A k \in 1..Len(x) : z[k] = x[k]
  BY <1>1, <1>3
<1>6. \A k \in 1..Len(y) : z[Len(x) + k] = y[k]
  BY <1>1, <1>2, <1>3, <1>4
<1>7. Len(z) = Len(x) + Len(y)
  BY <1>1, <1>2, <1>3
<1>8. x \o y = z
  BY <1>1, <1>2, <1>3, <1>5, <1>6, <1>7, ConcatIs, Zenon
<1>9. QED
  BY <1>8 DEF x, y, z

LEMMA Concat22 ==
  ASSUME NEW a, NEW b, NEW e, NEW d
  PROVE  <<a, b>> \o <<e, d>> = <<a, b, e, d>>
<1> DEFINE S == {a, b, e, d}
           x == <<a, b>>
           y == <<e, d>>
           z == <<a, b, e, d>>
<1>1. x \in Seq(S) /\ Len(x) = 2 /\ x[1] = a /\ x[2] = b
  OBVIOUS
<1>2. y \in Seq(S) /\ Len(y) = 2 /\ y[1] = e /\ y[2] = d
  OBVIOUS
<1>3. z \in Seq(S) /\ Len(z) = 4 /\ z[1] = a /\ z[2] = b /\ z[3] = e /\ z[4] = d
  OBVIOUS
<1> HIDE DEF x, y, z, S
<1>4. \A k \in 1..Len(y) : k \in {1, 2}
  BY <1>2
<1>5. \A k \in 1..Len(x) : z[k] = x[k]
  BY <1>1, <1>3
<1>6. \A k \in 1..Len(y) : z[Len(x) + k] = y[k]
  BY <1>1, <1>2, <1>3, <1>4
<1>7. Len(z) = Len(x) + Len(y)
  BY <1>1, <1>2, <1>3
<1>8. x \o y = z
  BY <1>1, <1>2, <1>3, <1>5, <1>6, <1>7, ConcatIs, Zenon
<1>9. QED
  BY <1>8 DEF x, y, z

LEMMA Concat26 ==
  ASSUME NEW a, NEW b, NEW e, NEW d, NEW f, NEW g, NEW h, NEW i
  PROVE  <<a, b>> \o <<e, d, f, g, h, i>> = <<a, b, e, d, f, g, h, i>>
<1> DEFINE S == {a, b, e, d, f, g, h, i}
           x == <<a, b>>
           y == <<e, d, f, g, h, i>>
           z == <<a, b, e, d, f, g, h, i>>
<1>1. x \in Seq(S) /\ Len(x) = 2 /\ x[1] = a /\ x[2] = b
  OBVIOUS
<1>2. y \in Seq(S) /\ Len(y) = 6 /\ y[1] = e /\ y[2] = d /\ y[3] = f /\ y[4] = g /\ y[5] = h /\ y[6] = i
  OBVIOUS
<1>3. z \in Seq(S) /\ Len(z) = 8 /\ z[1] = a /\ z[2] = b /\ z[3] = e /\ z[4] = d /\ z[5] = f /\ z[6] = g /\ z[7] = h /\ z[8] = i
  OBVIOUS
<1> HIDE DEF x, y, z, S
<1>4. \A k \in 1..Len(y) : k \in {1, 2, 3, 4, 5, 6}
  BY <1>2
<1>5. \A k \in 1..Len(x) : z[k] = x[k]
  BY <1>1, <1>3
<1>6. \A k \in 1..Len(y) : z[Len(x) + k] = y[k]
  BY <1>1, <1>2, <1>3, <1>4
<1>7. Len(z) = Len(x) + Len(y)
  BY <1>1, <1>2, <1>3
<1>8. x \o y = z
  BY <1>1, <1>2, <1>3, <1>5, <1>6, <1>7, ConcatIs, Zenon
<1>9. QED
  BY <1>8 DEF x, y, z

-----------------------------------------------------------------------------
\* What requests and their programs consist of.

LEMMA RequestFacts ==
  ASSUME NEW r \in AllRequests
  PROVE  /\ r.do \in {"insert_block", "set_block", "get_block", "rem_block",
                      "set_token", "get_token", "del_token"}
         /\ r.do \in {"insert_block", "set_block"} => r.val \in Values
         /\ r.do \in {"set_token", "del_token"} =>
                r.user \in Users /\ r.kind \in {"r", "w"} /\ r.owner \in Users
         /\ r.do = "get_token" => r.user \in Users /\ r.kind \in {"r", "w"}
         /\ r.do = "set_block" => r.old \in Values \cup {Absent}
         /\ r.do = "rem_block" => r.old \in Values
  BY DEF AllRequests, InsertBlock, SetBlock, GetBlock, RemBlock, SetToken, GetToken, DelToken

LEMMA RequestKinds ==
  ASSUME NEW r \in AllRequests
  PROVE  /\ Stores(r) \/ Removes(r) <=> Writes(r) # {}
         /\ ~(Stores(r) /\ Removes(r))
         /\ Writes(r) \subseteq Items /\ Reads(r) \subseteq Items
         /\ Stores(r) => Writes(r) = {Target(r)} /\ Target(r) \in Items /\ Leaves(r) \in Contents
         /\ Removes(r) => Leaves(r) = Absent
  BY RequestFacts DEF Stores, Removes, Writes, Reads, Items, Target, Leaves, Contents

LEMMA ItemParts ==
  /\ BlockItem \in Items
  /\ PartsOf(BlockItem) = {DataFile("data"), DataFile("meta"), DataFile("mac")}
  /\ \A u \in Users, k \in {"r", "w"} :
        /\ TokenItem(u, k) \in Items
        /\ PartsOf(TokenItem(u, k)) = {Append(TokenItem(u, k), "token"), Append(TokenItem(u, k), "owner")}
<1>1. BlockItem \in Items
  BY DEF Items
<1>2. PartsOf(BlockItem) = {DataFile("data"), DataFile("meta"), DataFile("mac")}
  BY DEF PartsOf, DataFile
<1>3. ASSUME NEW u \in Users, NEW k \in {"r", "w"}
      PROVE  /\ TokenItem(u, k) \in Items
             /\ PartsOf(TokenItem(u, k)) =
                    {Append(TokenItem(u, k), "token"), Append(TokenItem(u, k), "owner")}
  <2>1. TokenItem(u, k) # BlockItem
    BY DirsDiffer
  <2>2. QED
    BY <2>1 DEF PartsOf, Items
<1>4. QED
  BY <1>1, <1>2, <1>3

LEMMA AppendDiffers ==
  ASSUME NEW S, NEW s \in Seq(S), NEW x, NEW y, x # y
  PROVE  Append(s, x) # Append(s, y)
<1>1. s \in Seq(S \cup {x, y}) /\ x \in S \cup {x, y} /\ y \in S \cup {x, y}
  OBVIOUS
<1>2. Append(s, x)[Len(s) + 1] = x /\ Append(s, y)[Len(s) + 1] = y
  BY <1>1, AppendProperties
<1>3. QED
  BY <1>2

\* The files of an item are different files.
LEMMA PartsDiffer ==
  /\ DataFile("data") # DataFile("meta") /\ DataFile("data") # DataFile("mac")
  /\ DataFile("meta") # DataFile("mac")
  /\ \A u \in Users, k \in {"r", "w"} :
        Append(TokenItem(u, k), "token") # Append(TokenItem(u, k), "owner")
<1>1. PICK S : \A i \in Items : i \in Seq(S)
  BY ItemsArePaths
<1>2. \A i \in Items : \A x, y : x # y => Append(i, x) # Append(i, y)
  BY <1>1, AppendDiffers
<1>3. BlockItem \in Items /\ \A u \in Users, k \in {"r", "w"} : TokenItem(u, k) \in Items
  BY ItemParts
<1>4. QED
  BY <1>2, <1>3 DEF DataFile

\* What an instruction is.
IsRead(in, p) == in.do = "read" /\ in.path = p
IsOpen(in, p, v) == \E s \in BOOLEAN, f \in BOOLEAN : in = WriteFile(p, v, s, f)

LEMMA IsReadFile ==
  \A p, m : IsRead(ReadFile(p, m), p) /\ (m => ReadFile(p, m).must) /\ (~m => ~ReadFile(p, m).must)
<1>1. \A p, m : ReadFile(p, m).do = "read" /\ ReadFile(p, m).path = p
  BY DEF ReadFile
<1>2. \A p, m : (m => ReadFile(p, m).must) /\ (~m => ~ReadFile(p, m).must)
  BY Zenon DEF ReadFile
<1>3. QED
  BY <1>1, <1>2 DEF IsRead

LEMMA IsOpenFile == \A p, v : \A s \in BOOLEAN, f \in BOOLEAN : IsOpen(WriteFile(p, v, s, f), p, v)
  BY DEF IsOpen

IsSeq(P) == \E S : P \in Seq(S)

\* The programs instruction by instruction.
LEMMA InsertBlockProgram ==
  ASSUME NEW r \in AllRequests, r.do = "insert_block"
  PROVE  LET P == Program(r) IN
         /\ IsSeq(P)
         /\ Len(P) = 5 /\ AdmitAt(r) = 1
         /\ P[1] = Admit
         /\ P[2] = Mkdir(BlockItem)
         /\ IsOpen(P[3], DataFile("data"), r.val)
         /\ IsOpen(P[4], DataFile("meta"), r.val)
         /\ IsOpen(P[5], DataFile("mac"), r.val)
<1> DEFINE b == Admit
           m == Mkdir(BlockItem)
           w1 == WriteFile(DataFile("data"), r.val, TRUE, FALSE)
           w2 == WriteFile(DataFile("meta"), r.val, TRUE, FALSE)
           w3 == WriteFile(DataFile("mac"), r.val, TRUE, TRUE)
<1>1. Program(r) = db_insert_block(r) /\ AdmitAt(r) = 1
  BY DEF Program, AdmitAt
<1>2. db_insert_block(r) = <<b>> \o <<m, w1, w2, w3>>
  BY DEF db_insert_block, WriteBlock
<1>3. /\ IsOpen(w1, DataFile("data"), r.val)
      /\ IsOpen(w2, DataFile("meta"), r.val)
      /\ IsOpen(w3, DataFile("mac"), r.val)
  BY IsOpenFile, Zenon
<1> HIDE DEF b, m, w1, w2, w3
<1>4. <<b>> \o <<m, w1, w2, w3>> = <<b, m, w1, w2, w3>>
  BY Concat14
<1>5. IsSeq(<<b, m, w1, w2, w3>>)
  <2>1. <<b, m, w1, w2, w3>> \in Seq({b, m, w1, w2, w3})
    OBVIOUS
  <2>2. QED
    BY <2>1 DEF IsSeq
<1>6. LET P == <<b, m, w1, w2, w3>> IN
      Len(P) = 5 /\ P[1] = b /\ P[2] = m /\ P[3] = w1 /\ P[4] = w2 /\ P[5] = w3
  OBVIOUS
<1>7. QED
  BY <1>1, <1>2, <1>3, <1>4, <1>5, <1>6 DEF b, m

LEMMA SetBlockProgram ==
  ASSUME NEW r \in AllRequests, r.do = "set_block"
  PROVE  LET P == Program(r) IN
         /\ IsSeq(P)
         /\ Len(P) = 6 /\ AdmitAt(r) = 2
         /\ IsRead(P[1], DataFile("mac")) /\ ~P[1].must
         /\ P[2] = Admit
         /\ P[3] = Mkdir(BlockItem)
         /\ IsOpen(P[4], DataFile("data"), r.val)
         /\ IsOpen(P[5], DataFile("meta"), r.val)
         /\ IsOpen(P[6], DataFile("mac"), r.val)
<1> DEFINE a == ReadFile(DataFile("mac"), FALSE)
           b == Admit
           m == Mkdir(BlockItem)
           w1 == WriteFile(DataFile("data"), r.val, TRUE, FALSE)
           w2 == WriteFile(DataFile("meta"), r.val, TRUE, FALSE)
           w3 == WriteFile(DataFile("mac"), r.val, TRUE, TRUE)
<1>1. Program(r) = db_set_block(r) /\ AdmitAt(r) = 2
  BY DEF Program, AdmitAt
<1>2. db_set_block(r) = <<a, b>> \o <<m, w1, w2, w3>>
  BY DEF db_set_block, WriteBlock
<1>3. /\ IsRead(a, DataFile("mac")) /\ ~a.must
      /\ IsOpen(w1, DataFile("data"), r.val)
      /\ IsOpen(w2, DataFile("meta"), r.val)
      /\ IsOpen(w3, DataFile("mac"), r.val)
  BY IsOpenFile, IsReadFile, Zenon
<1> HIDE DEF a, b, m, w1, w2, w3
<1>4. <<a, b>> \o <<m, w1, w2, w3>> = <<a, b, m, w1, w2, w3>>
  BY Concat24
<1>5. IsSeq(<<a, b, m, w1, w2, w3>>)
  <2>1. <<a, b, m, w1, w2, w3>> \in Seq({a, b, m, w1, w2, w3})
    OBVIOUS
  <2>2. QED
    BY <2>1 DEF IsSeq
<1>6. LET P == <<a, b, m, w1, w2, w3>> IN
      Len(P) = 6 /\ P[1] = a /\ P[2] = b /\ P[3] = m /\ P[4] = w1 /\ P[5] = w2 /\ P[6] = w3
  OBVIOUS
<1>7. QED
  BY <1>1, <1>2, <1>3, <1>4, <1>5, <1>6 DEF b, m

LEMMA GetBlockProgram ==
  ASSUME NEW r \in AllRequests, r.do = "get_block"
  PROVE  LET P == Program(r) IN
         /\ IsSeq(P)
         /\ Len(P) = 2 /\ AdmitAt(r) = 3
         /\ IsRead(P[1], DataFile("data")) /\ P[1].must
         /\ IsRead(P[2], DataFile("meta")) /\ P[2].must
<1> DEFINE r1 == ReadFile(DataFile("data"), TRUE)
           r2 == ReadFile(DataFile("meta"), TRUE)
<1>1. Program(r) = db_get_block(r) /\ AdmitAt(r) = 3
  BY DEF Program, AdmitAt
<1>2. db_get_block(r) = <<r1, r2>>
  BY DEF db_get_block
<1>3. /\ IsRead(r1, DataFile("data")) /\ r1.must
      /\ IsRead(r2, DataFile("meta")) /\ r2.must
  BY IsReadFile, Zenon
<1> HIDE DEF r1, r2
<1>4. IsSeq(<<r1, r2>>)
  <2>1. <<r1, r2>> \in Seq({r1, r2})
    OBVIOUS
  <2>2. QED
    BY <2>1 DEF IsSeq
<1>5. LET P == <<r1, r2>> IN
      Len(P) = 2 /\ P[1] = r1 /\ P[2] = r2
  OBVIOUS
<1>6. QED
  BY <1>1, <1>2, <1>3, <1>4, <1>5

LEMMA RemBlockProgram ==
  ASSUME NEW r \in AllRequests, r.do = "rem_block"
  PROVE  LET P == Program(r) IN
         /\ IsSeq(P)
         /\ Len(P) = 3 /\ AdmitAt(r) = 2
         /\ IsRead(P[1], DataFile("mac")) /\ P[1].must
         /\ P[2] = Admit
         /\ P[3] = OpenDir(BlockItem)
<1> DEFINE a == ReadFile(DataFile("mac"), TRUE)
           b == Admit
           d == OpenDir(BlockItem)
<1>1. Program(r) = db_rem_block(r) /\ AdmitAt(r) = 2
  BY DEF Program, AdmitAt
<1>2. db_rem_block(r) = <<a, b, d>>
  BY DEF db_rem_block
<1>3. /\ IsRead(a, DataFile("mac")) /\ a.must
  BY IsReadFile, Zenon
<1> HIDE DEF a, b, d
<1>4. IsSeq(<<a, b, d>>)
  <2>1. <<a, b, d>> \in Seq({a, b, d})
    OBVIOUS
  <2>2. QED
    BY <2>1 DEF IsSeq
<1>5. LET P == <<a, b, d>> IN
      Len(P) = 3 /\ P[1] = a /\ P[2] = b /\ P[3] = d
  OBVIOUS
<1>6. QED
  BY <1>1, <1>2, <1>3, <1>4, <1>5 DEF b, d

LEMMA SetOwnTokenProgram ==
  ASSUME NEW r \in AllRequests, r.do = "set_token", r.owner = r.user
  PROVE  LET P == Program(r) IN
         /\ IsSeq(P)
         /\ Len(P) = 6 /\ AdmitAt(r) = 1
         /\ P[1] = Admit
         /\ P[2] = Mkdir(KeyDir)
         /\ P[3] = Mkdir(UserDir(r.user))
         /\ P[4] = Mkdir(TokenItem(r.user, r.kind))
         /\ IsOpen(P[5], Append(TokenItem(r.user, r.kind), "token"), r.owner)
         /\ IsOpen(P[6], Append(TokenItem(r.user, r.kind), "owner"), r.owner)
<1> DEFINE b == Admit
           m1 == Mkdir(KeyDir)
           m2 == Mkdir(UserDir(r.user))
           m3 == Mkdir(TokenItem(r.user, r.kind))
           w1 == WriteFile(Append(TokenItem(r.user, r.kind), "token"), r.owner, FALSE, FALSE)
           w2 == WriteFile(Append(TokenItem(r.user, r.kind), "owner"), r.owner, FALSE, FALSE)
<1>1. Program(r) = db_set_token(r) /\ AdmitAt(r) = 1
  BY DEF Program, AdmitAt
<1>2. Front(TokenItem(r.user, r.kind)) = UserDir(r.user)
      /\ Front(Front(TokenItem(r.user, r.kind))) = KeyDir
  BY Parents
<1>3. db_set_token(r) = <<>> \o <<b, m1, m2, m3, w1, w2>>
  BY <1>2 DEF db_set_token
<1>4. /\ IsOpen(w1, Append(TokenItem(r.user, r.kind), "token"), r.owner)
      /\ IsOpen(w2, Append(TokenItem(r.user, r.kind), "owner"), r.owner)
  BY IsOpenFile, Zenon
<1> HIDE DEF b, m1, m2, m3, w1, w2
<1>5. <<>> \o <<b, m1, m2, m3, w1, w2>> = <<b, m1, m2, m3, w1, w2>>
  BY Concat06
<1>6. IsSeq(<<b, m1, m2, m3, w1, w2>>)
  <2>1. <<b, m1, m2, m3, w1, w2>> \in Seq({b, m1, m2, m3, w1, w2})
    OBVIOUS
  <2>2. QED
    BY <2>1 DEF IsSeq
<1>7. LET P == <<b, m1, m2, m3, w1, w2>> IN
      Len(P) = 6 /\ P[1] = b /\ P[2] = m1 /\ P[3] = m2 /\ P[4] = m3 /\ P[5] = w1 /\ P[6] = w2
  OBVIOUS
<1>8. QED
  BY <1>1, <1>3, <1>4, <1>5, <1>6, <1>7 DEF b, m1, m2, m3

LEMMA SetTokenProgram ==
  ASSUME NEW r \in AllRequests, r.do = "set_token", r.owner # r.user
  PROVE  LET P == Program(r) IN
         /\ IsSeq(P)
         /\ Len(P) = 8 /\ AdmitAt(r) = 3
         /\ IsRead(P[1], Append(TokenItem(r.owner, r.kind), "token")) /\ P[1].must
         /\ IsRead(P[2], Append(TokenItem(r.owner, r.kind), "owner")) /\ P[2].must
         /\ P[3] = Admit
         /\ P[4] = Mkdir(KeyDir)
         /\ P[5] = Mkdir(UserDir(r.user))
         /\ P[6] = Mkdir(TokenItem(r.user, r.kind))
         /\ IsOpen(P[7], Append(TokenItem(r.user, r.kind), "token"), r.owner)
         /\ IsOpen(P[8], Append(TokenItem(r.user, r.kind), "owner"), r.owner)
<1> DEFINE r1 == ReadFile(Append(TokenItem(r.owner, r.kind), "token"), TRUE)
           r2 == ReadFile(Append(TokenItem(r.owner, r.kind), "owner"), TRUE)
           b == Admit
           m1 == Mkdir(KeyDir)
           m2 == Mkdir(UserDir(r.user))
           m3 == Mkdir(TokenItem(r.user, r.kind))
           w1 == WriteFile(Append(TokenItem(r.user, r.kind), "token"), r.owner, FALSE, FALSE)
           w2 == WriteFile(Append(TokenItem(r.user, r.kind), "owner"), r.owner, FALSE, FALSE)
<1>1. Program(r) = db_set_token(r) /\ AdmitAt(r) = 3
  BY DEF Program, AdmitAt
<1>2. Front(TokenItem(r.user, r.kind)) = UserDir(r.user)
      /\ Front(Front(TokenItem(r.user, r.kind))) = KeyDir
  BY Parents
<1>3. db_set_token(r) = <<r1, r2>> \o <<b, m1, m2, m3, w1, w2>>
  BY <1>2 DEF db_set_token, ReadToken
<1>4. /\ IsRead(r1, Append(TokenItem(r.owner, r.kind), "token")) /\ r1.must
      /\ IsRead(r2, Append(TokenItem(r.owner, r.kind), "owner")) /\ r2.must
      /\ IsOpen(w1, Append(TokenItem(r.user, r.kind), "token"), r.owner)
      /\ IsOpen(w2, Append(TokenItem(r.user, r.kind), "owner"), r.owner)
  BY IsOpenFile, IsReadFile, Zenon
<1> HIDE DEF r1, r2, b, m1, m2, m3, w1, w2
<1>5. <<r1, r2>> \o <<b, m1, m2, m3, w1, w2>> = <<r1, r2, b, m1, m2, m3, w1, w2>>
  BY Concat26
<1>6. IsSeq(<<r1, r2, b, m1, m2, m3, w1, w2>>)
  <2>1. <<r1, r2, b, m1, m2, m3, w1, w2>> \in Seq({r1, r2, b, m1, m2, m3, w1, w2})
    OBVIOUS
  <2>2. QED
    BY <2>1 DEF IsSeq
<1>7. LET P == <<r1, r2, b, m1, m2, m3, w1, w2>> IN
      Len(P) = 8 /\ P[1] = r1 /\ P[2] = r2 /\ P[3] = b /\ P[4] = m1 /\ P[5] = m2 /\ P[6] = m3 /\ P[7] = w1 /\ P[8] = w2
  OBVIOUS
<1>8. QED
  BY <1>1, <1>3, <1>4, <1>5, <1>6, <1>7 DEF b, m1, m2, m3

LEMMA GetTokenProgram ==
  ASSUME NEW r \in AllRequests, r.do = "get_token"
  PROVE  LET P == Program(r) IN
         /\ IsSeq(P)
         /\ Len(P) = 2 /\ AdmitAt(r) = 3
         /\ IsRead(P[1], Append(TokenItem(r.user, r.kind), "token")) /\ P[1].must
         /\ IsRead(P[2], Append(TokenItem(r.user, r.kind), "owner")) /\ P[2].must
<1> DEFINE r1 == ReadFile(Append(TokenItem(r.user, r.kind), "token"), TRUE)
           r2 == ReadFile(Append(TokenItem(r.user, r.kind), "owner"), TRUE)
<1>1. Program(r) = db_get_token(r) /\ AdmitAt(r) = 3
  BY DEF Program, AdmitAt
<1>2. db_get_token(r) = <<r1, r2>>
  BY DEF db_get_token, ReadToken
<1>3. /\ IsRead(r1, Append(TokenItem(r.user, r.kind), "token")) /\ r1.must
      /\ IsRead(r2, Append(TokenItem(r.user, r.kind), "owner")) /\ r2.must
  BY IsReadFile, Zenon
<1> HIDE DEF r1, r2
<1>4. IsSeq(<<r1, r2>>)
  <2>1. <<r1, r2>> \in Seq({r1, r2})
    OBVIOUS
  <2>2. QED
    BY <2>1 DEF IsSeq
<1>5. LET P == <<r1, r2>> IN
      Len(P) = 2 /\ P[1] = r1 /\ P[2] = r2
  OBVIOUS
<1>6. QED
  BY <1>1, <1>2, <1>3, <1>4, <1>5

LEMMA DelTokenProgram ==
  ASSUME NEW r \in AllRequests, r.do = "del_token"
  PROVE  LET P == Program(r) IN
         /\ IsSeq(P)
         /\ Len(P) = 4 /\ AdmitAt(r) = 3
         /\ IsRead(P[1], Append(TokenItem(r.owner, "w"), "token")) /\ P[1].must
         /\ IsRead(P[2], Append(TokenItem(r.owner, "w"), "owner")) /\ P[2].must
         /\ P[3] = Admit
         /\ P[4] = OpenDir(RemovedDir(r))
<1> DEFINE r1 == ReadFile(Append(TokenItem(r.owner, "w"), "token"), TRUE)
           r2 == ReadFile(Append(TokenItem(r.owner, "w"), "owner"), TRUE)
           b == Admit
           d == OpenDir(RemovedDir(r))
<1>1. Program(r) = db_del_token(r) /\ AdmitAt(r) = 3
  BY DEF Program, AdmitAt
<1>2. db_del_token(r) = <<r1, r2>> \o <<b, d>>
  BY DEF db_del_token, ReadToken
<1>3. /\ IsRead(r1, Append(TokenItem(r.owner, "w"), "token")) /\ r1.must
      /\ IsRead(r2, Append(TokenItem(r.owner, "w"), "owner")) /\ r2.must
  BY IsReadFile, Zenon
<1> HIDE DEF r1, r2, b, d
<1>4. <<r1, r2>> \o <<b, d>> = <<r1, r2, b, d>>
  BY Concat22
<1>5. IsSeq(<<r1, r2, b, d>>)
  <2>1. <<r1, r2, b, d>> \in Seq({r1, r2, b, d})
    OBVIOUS
  <2>2. QED
    BY <2>1 DEF IsSeq
<1>6. LET P == <<r1, r2, b, d>> IN
      Len(P) = 4 /\ P[1] = r1 /\ P[2] = r2 /\ P[3] = b /\ P[4] = d
  OBVIOUS
<1>7. QED
  BY <1>1, <1>2, <1>3, <1>4, <1>5, <1>6 DEF b, d

-----------------------------------------------------------------------------
\* What the programs have in common.

LEMMA ProgramFacts ==
  ASSUME NEW r \in AllRequests
  PROVE  LET P == Program(r)
             a == AdmitAt(r) IN
         /\ IsSeq(P)
         /\ Len(P) \in Nat /\ a \in Nat /\ Len(P) >= 2 /\ a >= 1 /\ a <= Len(P) + 1
         /\ Writes(r) = {} <=> a = Len(P) + 1
         /\ Writes(r) # {} => a < Len(P) /\ P[a].do = "admit"
<1>1. Admit.do = "admit"
  BY DEF Admit
<1>2. Writes(r) = {} <=> r.do \in {"get_block", "get_token"}
  BY RequestFacts DEF Writes
<1>3. CASE r.do = "insert_block"
  BY <1>1, <1>2, <1>3, InsertBlockProgram
<1>4. CASE r.do = "set_block"
  BY <1>1, <1>2, <1>4, SetBlockProgram
<1>5. CASE r.do = "get_block"
  <2>1. IsSeq(Program(r)) /\ Len(Program(r)) = 2 /\ AdmitAt(r) = 3
    BY <1>5, GetBlockProgram
  <2>2. QED
    BY <1>2, <1>5, <2>1
<1>6. CASE r.do = "rem_block"
  BY <1>1, <1>2, <1>6, RemBlockProgram
<1>7. CASE r.do = "set_token" /\ r.owner = r.user
  BY <1>1, <1>2, <1>7, SetOwnTokenProgram
<1>8. CASE r.do = "set_token" /\ r.owner # r.user
  BY <1>1, <1>2, <1>8, SetTokenProgram, SMTT(30)
<1>9. CASE r.do = "get_token"
  <2>1. IsSeq(Program(r)) /\ Len(Program(r)) = 2 /\ AdmitAt(r) = 3
    BY <1>9, GetTokenProgram
  <2>2. QED
    BY <1>2, <1>9, <2>1
<1>10. CASE r.do = "del_token"
  BY <1>1, <1>2, <1>10, DelTokenProgram
<1>11. QED
  BY <1>3, <1>4, <1>5, <1>6, <1>7, <1>8, <1>9, <1>10, RequestFacts

\* Before it is decided, a request reads files of the one item that it depends on.
ReadsOnly(r, in) ==
    /\ in.do = "read" /\ in.path \in PartsOf(Front(in.path))
    /\ Front(in.path) \in Items /\ Reads(r) = {Front(in.path)}
    /\ r.do # "set_block" => in.must
    /\ r.do = "set_block" => ~in.must

LEMMA ReadsOnlyParts ==
  ASSUME NEW r, NEW i \in Items, NEW p \in PartsOf(i), Reads(r) = {i},
         NEW in, IsRead(in, p),
         r.do # "set_block" => in.must, r.do = "set_block" => ~in.must
  PROVE  ReadsOnly(r, in)
<1>1. Front(p) = i
  BY PartsFacts
<1>2. QED
  BY <1>1 DEF ReadsOnly, IsRead

LEMMA ReadFacts ==
  ASSUME NEW r \in AllRequests, NEW n \in 1..Len(Program(r)), n < AdmitAt(r)
  PROVE  ReadsOnly(r, Program(r)[n])
<1>1. CASE r.do = "insert_block"
  BY <1>1, InsertBlockProgram
<1>2. CASE r.do = "set_block"
  <2>1. Reads(r) = {BlockItem} /\ DataFile("mac") \in PartsOf(BlockItem)
    BY <1>2, ItemParts DEF Reads
  <2>2. n = 1 /\ IsRead(Program(r)[1], DataFile("mac")) /\ ~Program(r)[1].must
    BY <1>2, SetBlockProgram
  <2>3. QED
    BY <1>2, <2>1, <2>2, ItemParts, ReadsOnlyParts
<1>3. CASE r.do = "get_block"
  <2>1. Reads(r) = {BlockItem}
        /\ DataFile("data") \in PartsOf(BlockItem) /\ DataFile("meta") \in PartsOf(BlockItem)
    BY <1>3, ItemParts DEF Reads
  <2>2. \/ n = 1 /\ IsRead(Program(r)[n], DataFile("data")) /\ Program(r)[n].must
        \/ n = 2 /\ IsRead(Program(r)[n], DataFile("meta")) /\ Program(r)[n].must
    BY <1>3, GetBlockProgram
  <2>3. QED
    BY <1>3, <2>1, <2>2, ItemParts, ReadsOnlyParts
<1>4. CASE r.do = "rem_block"
  <2>1. Reads(r) = {BlockItem} /\ DataFile("mac") \in PartsOf(BlockItem)
    BY <1>4, ItemParts DEF Reads
  <2>2. n = 1 /\ IsRead(Program(r)[1], DataFile("mac")) /\ Program(r)[1].must
    BY <1>4, RemBlockProgram
  <2>3. QED
    BY <1>4, <2>1, <2>2, ItemParts, ReadsOnlyParts
<1>5. CASE r.do = "set_token" /\ r.owner = r.user
  BY <1>5, SetOwnTokenProgram
<1>6. CASE r.do = "set_token" /\ r.owner # r.user
  <2> DEFINE i == TokenItem(r.owner, r.kind)
  <2>1. /\ i \in Items /\ Reads(r) = {i}
        /\ Append(i, "token") \in PartsOf(i) /\ Append(i, "owner") \in PartsOf(i)
    BY <1>6, ItemParts, RequestFacts DEF Reads
  <2>2. \/ IsRead(Program(r)[n], Append(i, "token")) /\ Program(r)[n].must
        \/ IsRead(Program(r)[n], Append(i, "owner")) /\ Program(r)[n].must
    BY <1>6, SetTokenProgram
  <2> HIDE DEF i
  <2>3. QED
    BY <1>6, <2>1, <2>2, ReadsOnlyParts
<1>7. CASE r.do = "get_token"
  <2> DEFINE i == TokenItem(r.user, r.kind)
  <2>1. /\ i \in Items /\ Reads(r) = {i}
        /\ Append(i, "token") \in PartsOf(i) /\ Append(i, "owner") \in PartsOf(i)
    BY <1>7, ItemParts, RequestFacts DEF Reads
  <2>2. \/ IsRead(Program(r)[n], Append(i, "token")) /\ Program(r)[n].must
        \/ IsRead(Program(r)[n], Append(i, "owner")) /\ Program(r)[n].must
    BY <1>7, GetTokenProgram
  <2> HIDE DEF i
  <2>3. QED
    BY <1>7, <2>1, <2>2, ReadsOnlyParts
<1>8. CASE r.do = "del_token"
  <2> DEFINE i == TokenItem(r.owner, "w")
  <2>1. /\ i \in Items /\ Reads(r) = {i}
        /\ Append(i, "token") \in PartsOf(i) /\ Append(i, "owner") \in PartsOf(i)
    BY <1>8, ItemParts, RequestFacts DEF Reads
  <2>2. \/ IsRead(Program(r)[n], Append(i, "token")) /\ Program(r)[n].must
        \/ IsRead(Program(r)[n], Append(i, "owner")) /\ Program(r)[n].must
    BY <1>8, DelTokenProgram
  <2> HIDE DEF i
  <2>3. QED
    BY <1>8, <2>1, <2>2, ReadsOnlyParts
<1>9. QED
  BY <1>1, <1>2, <1>3, <1>4, <1>5, <1>6, <1>7, <1>8, RequestFacts

\* A removal of the items W may remove these directories.
Gone(W) ==
    (W \cap Items) \cup {UserDir(u) : u \in {v \in Users : {TokenItem(v, "r"), TokenItem(v, "w")} \subseteq W}}

LEMMA RemoveFacts ==
  ASSUME NEW r \in AllRequests, Removes(r)
  PROVE  LET P == Program(r)
             D == Removed(r) IN
         /\ Len(P) = AdmitAt(r) + 1 /\ P[AdmitAt(r) + 1] = OpenDir(D)
         /\ Writes(r) # {}
         /\ \/ D \in Items /\ Writes(r) = {D}
            \/ /\ D \notin Items
               /\ \E u \in Users : D = UserDir(u) /\ Writes(r) = {TokenItem(u, "r"), TokenItem(u, "w")}
         /\ D \in Gone(Writes(r))
<1>1. CASE r.do = "rem_block"
  <2>1. Removed(r) = BlockItem /\ Writes(r) = {BlockItem} /\ BlockItem \in Items
    BY <1>1, ItemParts DEF Removed, Writes
  <2>2. Len(Program(r)) = 3 /\ AdmitAt(r) = 2 /\ Program(r)[3] = OpenDir(BlockItem)
    BY <1>1, RemBlockProgram
  <2>3. Program(r)[AdmitAt(r) + 1] = OpenDir(BlockItem)
    BY <2>2
  <2>4. QED
    BY <2>1, <2>2, <2>3 DEF Gone
<1>2. CASE r.do = "del_token"
  <2>1. Len(Program(r)) = AdmitAt(r) + 1 /\ Program(r)[AdmitAt(r) + 1] = OpenDir(RemovedDir(r))
    <3>1. Len(Program(r)) = 4 /\ AdmitAt(r) = 3 /\ Program(r)[4] = OpenDir(RemovedDir(r))
      BY <1>2, DelTokenProgram
    <3>2. QED
      BY <3>1
  <2>2. Removed(r) = RemovedDir(r) /\ r.user \in Users /\ r.kind \in {"r", "w"}
    BY <1>2, RequestFacts DEF Removed
  <2>3. CASE r.kind = "r"
    <3>1. /\ Removed(r) = UserDir(r.user)
          /\ Writes(r) = {TokenItem(r.user, "r"), TokenItem(r.user, "w")}
      BY <1>2, <2>2, <2>3 DEF RemovedDir, Writes
    <3>2. QED
      BY <2>1, <2>2, <3>1, DirsDiffer DEF Gone
  <2>4. CASE r.kind = "w"
    <3>1. Removed(r) = TokenItem(r.user, "w") /\ Writes(r) = {TokenItem(r.user, "w")}
      BY <1>2, <2>2, <2>4 DEF RemovedDir, Writes
    <3>2. Removed(r) \in Items
      BY <2>2, <3>1, ItemParts
    <3>3. QED
      BY <2>1, <2>2, <3>1, <3>2 DEF Gone
  <2>5. QED
    BY <2>2, <2>3, <2>4
<1>3. QED
  BY <1>1, <1>2 DEF Removes

\* A directory that stores need: it is not lost by removals of other items.
Needs(i, d) == d = i \/ d = KeyDir \/ \E u \in Users, k \in {"r", "w"} : i = TokenItem(u, k) /\ d = UserDir(u)

LEMMA NeededStay ==
  ASSUME NEW i \in Items, NEW W, i \notin W, NEW d, Needs(i, d)
  PROVE  d \notin Gone(W)
  BY DirsDiffer DEF Gone, Needs

\* An instruction of a store: it makes a directory whose parent is there by then, or
\* opens a part of the item, each part once, when the item's directory has been made.
MakesDir(P, a, n, i) ==
    /\ P[n] = Mkdir(P[n].path) /\ n < Len(P)
    /\ P[n].path \in Dirs /\ Needs(i, P[n].path)
    /\ \/ Front(P[n].path) \in Roots
       \/ \E m \in a + 1..n - 1 : P[m] = Mkdir(Front(P[n].path))

OpensPart(P, a, n, i, v) ==
    /\ IsOpen(P[n], P[n].path, v) /\ P[n].path \in PartsOf(i)
    /\ \E m \in a + 1..n - 1 : P[m] = Mkdir(i)
    /\ \A m \in a + 1..n - 1 : P[m].do = "open" => P[m].path # P[n].path

LEMMA InstructionFields ==
  /\ \A p : Mkdir(p).do = "mkdir" /\ Mkdir(p).path = p
  /\ \A p : OpenDir(p).do = "opendir" /\ OpenDir(p).path = p
  /\ \A p, l : Clear(p, l).do = "clear" /\ Clear(p, l).path = p /\ Clear(p, l).left = l
  BY DEF Mkdir, OpenDir, Clear

LEMMA OpenFields ==
  ASSUME NEW in, NEW p, NEW v, IsOpen(in, p, v)
  PROVE  /\ in.do = "open" /\ in.path = p /\ in.val = v
         /\ Fill(in).do = "fill" /\ Fill(in).path = p /\ Fill(in).val = v
  BY DEF IsOpen, WriteFile, Fill

\* The instructions that store v in i: those after the a-th.
StoreProgram(P, a, i, v) ==
    /\ \A n \in a + 1..Len(P) : MakesDir(P, a, n, i) \/ OpensPart(P, a, n, i, v)
    /\ \A p \in PartsOf(i) : \E n \in a + 1..Len(P) : P[n].do = "open" /\ P[n].path = p

LEMMA BlockStore ==
  ASSUME NEW P, NEW a \in Nat, NEW v, Len(P) = a + 4, P[a + 1] = Mkdir(BlockItem),
         IsOpen(P[a + 2], DataFile("data"), v), IsOpen(P[a + 3], DataFile("meta"), v),
         IsOpen(P[a + 4], DataFile("mac"), v)
  PROVE  StoreProgram(P, a, BlockItem, v)
<1>1. P[a + 1].do = "mkdir" /\ P[a + 1].path = BlockItem
  BY InstructionFields
<1>2. /\ P[a + 2].do = "open" /\ P[a + 2].path = DataFile("data")
      /\ P[a + 3].do = "open" /\ P[a + 3].path = DataFile("meta")
      /\ P[a + 4].do = "open" /\ P[a + 4].path = DataFile("mac")
  BY OpenFields
<1>3. PartsOf(BlockItem) = {DataFile("data"), DataFile("meta"), DataFile("mac")}
  BY ItemParts
<1>4. MakesDir(P, a, a + 1, BlockItem)
  <2>1. BlockItem \in Dirs /\ Needs(BlockItem, BlockItem) /\ Front(BlockItem) \in Roots
    BY Parents, ItemParts DEF Dirs, Needs, Roots
  <2>2. a + 1 < Len(P)
    OBVIOUS
  <2>3. QED
    BY <1>1, <2>1, <2>2 DEF MakesDir
<1>5. OpensPart(P, a, a + 2, BlockItem, v)
  <2>1. a + 1 \in a + 1..a + 2 - 1 /\ \A m \in a + 1..a + 2 - 1 : m = a + 1
    OBVIOUS
  <2>2. QED
    BY <1>1, <1>2, <1>3, <2>1 DEF OpensPart
<1>6. OpensPart(P, a, a + 3, BlockItem, v)
  <2>1. a + 1 \in a + 1..a + 3 - 1 /\ \A m \in a + 1..a + 3 - 1 : m = a + 1 \/ m = a + 2
    OBVIOUS
  <2>2. QED
    BY <1>1, <1>2, <1>3, <2>1, PartsDiffer DEF OpensPart
<1>7. OpensPart(P, a, a + 4, BlockItem, v)
  <2>1. a + 1 \in a + 1..a + 4 - 1
        /\ \A m \in a + 1..a + 4 - 1 : m = a + 1 \/ m = a + 2 \/ m = a + 3
    OBVIOUS
  <2>2. QED
    BY <1>1, <1>2, <1>3, <2>1, PartsDiffer DEF OpensPart
<1>8. \A n \in a + 1..Len(P) : n = a + 1 \/ n = a + 2 \/ n = a + 3 \/ n = a + 4
  OBVIOUS
<1>9. a + 2 \in a + 1..Len(P) /\ a + 3 \in a + 1..Len(P) /\ a + 4 \in a + 1..Len(P)
  OBVIOUS
<1>10. QED
  BY <1>2, <1>3, <1>4, <1>5, <1>6, <1>7, <1>8, <1>9 DEF StoreProgram

LEMMA TokenStore ==
  ASSUME NEW P, NEW a \in Nat, NEW u \in Users, NEW k \in {"r", "w"}, NEW v,
         Len(P) = a + 5, P[a + 1] = Mkdir(KeyDir), P[a + 2] = Mkdir(UserDir(u)),
         P[a + 3] = Mkdir(TokenItem(u, k)),
         IsOpen(P[a + 4], Append(TokenItem(u, k), "token"), v),
         IsOpen(P[a + 5], Append(TokenItem(u, k), "owner"), v)
  PROVE  StoreProgram(P, a, TokenItem(u, k), v)
<1> DEFINE i == TokenItem(u, k)
<1>1. /\ P[a + 1].do = "mkdir" /\ P[a + 1].path = KeyDir
      /\ P[a + 2].do = "mkdir" /\ P[a + 2].path = UserDir(u)
      /\ P[a + 3].do = "mkdir" /\ P[a + 3].path = i
  BY InstructionFields
<1>2. /\ P[a + 4].do = "open" /\ P[a + 4].path = Append(i, "token")
      /\ P[a + 5].do = "open" /\ P[a + 5].path = Append(i, "owner")
  BY OpenFields
<1>3. PartsOf(i) = {Append(i, "token"), Append(i, "owner")} /\ i \in Items
  BY ItemParts
<1>4. Needs(i, i) /\ Needs(i, KeyDir) /\ Needs(i, UserDir(u))
  BY DEF Needs
<1>5. KeyDir \in Dirs /\ UserDir(u) \in Dirs /\ i \in Dirs
  BY <1>3 DEF Dirs
<1>6. Front(KeyDir) \in Roots /\ Front(UserDir(u)) = KeyDir /\ Front(i) = UserDir(u)
  BY Parents DEF Roots
<1>7. a + 1 \in a + 1..a + 2 - 1 /\ a + 2 \in a + 1..a + 3 - 1
      /\ a + 3 \in a + 1..a + 4 - 1 /\ a + 3 \in a + 1..a + 5 - 1
  OBVIOUS
<1>8. a + 1 < Len(P) /\ a + 2 < Len(P) /\ a + 3 < Len(P)
  OBVIOUS
<1> HIDE DEF i
<1>9. MakesDir(P, a, a + 1, i)
  BY <1>1, <1>4, <1>5, <1>6, <1>8 DEF MakesDir
<1>10. MakesDir(P, a, a + 2, i)
  BY <1>1, <1>4, <1>5, <1>6, <1>7, <1>8 DEF MakesDir
<1>11. MakesDir(P, a, a + 3, i)
  BY <1>1, <1>4, <1>5, <1>6, <1>7, <1>8 DEF MakesDir, i
<1>12. OpensPart(P, a, a + 4, i, v)
  <2>1. \A m \in a + 1..a + 4 - 1 : m = a + 1 \/ m = a + 2 \/ m = a + 3
    OBVIOUS
  <2>2. QED
    BY <1>1, <1>2, <1>3, <1>7, <2>1, SMTT(30) DEF OpensPart, i
<1>13. OpensPart(P, a, a + 5, i, v)
  <2>1. \A m \in a + 1..a + 5 - 1 : m = a + 1 \/ m = a + 2 \/ m = a + 3 \/ m = a + 4
    OBVIOUS
  <2>2. Append(i, "token") # Append(i, "owner")
    BY PartsDiffer DEF i
  <2>3. QED
    BY <1>1, <1>2, <1>3, <1>7, <2>1, <2>2 DEF OpensPart, i
<1>14. \A n \in a + 1..Len(P) : n = a + 1 \/ n = a + 2 \/ n = a + 3 \/ n = a + 4 \/ n = a + 5
  OBVIOUS
<1>15. a + 4 \in a + 1..Len(P) /\ a + 5 \in a + 1..Len(P)
  OBVIOUS
<1>16. StoreProgram(P, a, i, v)
  BY <1>2, <1>3, <1>9, <1>10, <1>11, <1>12, <1>13, <1>14, <1>15 DEF StoreProgram
<1>17. QED
  BY <1>16 DEF i

LEMMA StoreFacts ==
  ASSUME NEW r \in AllRequests, Stores(r)
  PROVE  StoreProgram(Program(r), AdmitAt(r), Target(r), Leaves(r))
<1>1. CASE r.do = "insert_block"
  <2>1. Target(r) = BlockItem /\ Leaves(r) = r.val
    BY <1>1 DEF Target, Leaves
  <2>2. StoreProgram(Program(r), 1, BlockItem, r.val)
    <3> DEFINE P == Program(r)
    <3>1. /\ Len(P) = 5 /\ P[2] = Mkdir(BlockItem)
          /\ IsOpen(P[3], DataFile("data"), r.val) /\ IsOpen(P[4], DataFile("meta"), r.val)
          /\ IsOpen(P[5], DataFile("mac"), r.val)
      BY <1>1, InsertBlockProgram
    <3> HIDE DEF P
    <3>2. 1 + 1 = 2 /\ 1 + 2 = 3 /\ 1 + 3 = 4 /\ 1 + 4 = 5 /\ 1 \in Nat
      OBVIOUS
    <3>3. /\ Len(P) = 1 + 4 /\ P[1 + 1] = Mkdir(BlockItem)
          /\ IsOpen(P[1 + 2], DataFile("data"), r.val) /\ IsOpen(P[1 + 3], DataFile("meta"), r.val)
          /\ IsOpen(P[1 + 4], DataFile("mac"), r.val)
      BY <3>1, <3>2
    <3>4. StoreProgram(P, 1, BlockItem, r.val)
      BY <3>2, <3>3, BlockStore, Zenon
    <3>5. QED
      BY <3>4 DEF P
  <2>3. QED
    BY <1>1, <2>1, <2>2, InsertBlockProgram
<1>2. CASE r.do = "set_block"
  <2>1. Target(r) = BlockItem /\ Leaves(r) = r.val
    BY <1>2 DEF Target, Leaves
  <2>2. StoreProgram(Program(r), 2, BlockItem, r.val)
    <3> DEFINE P == Program(r)
    <3>1. /\ Len(P) = 6 /\ P[3] = Mkdir(BlockItem)
          /\ IsOpen(P[4], DataFile("data"), r.val) /\ IsOpen(P[5], DataFile("meta"), r.val)
          /\ IsOpen(P[6], DataFile("mac"), r.val)
      BY <1>2, SetBlockProgram
    <3> HIDE DEF P
    <3>2. 2 + 1 = 3 /\ 2 + 2 = 4 /\ 2 + 3 = 5 /\ 2 + 4 = 6 /\ 2 \in Nat
      OBVIOUS
    <3>3. /\ Len(P) = 2 + 4 /\ P[2 + 1] = Mkdir(BlockItem)
          /\ IsOpen(P[2 + 2], DataFile("data"), r.val) /\ IsOpen(P[2 + 3], DataFile("meta"), r.val)
          /\ IsOpen(P[2 + 4], DataFile("mac"), r.val)
      BY <3>1, <3>2
    <3>4. StoreProgram(P, 2, BlockItem, r.val)
      BY <3>2, <3>3, BlockStore, Zenon
    <3>5. QED
      BY <3>4 DEF P
  <2>3. QED
    BY <1>2, <2>1, <2>2, SetBlockProgram
<1>3. CASE r.do = "set_token"
  <2>1. /\ Target(r) = TokenItem(r.user, r.kind) /\ Leaves(r) = r.owner
        /\ r.user \in Users /\ r.kind \in {"r", "w"}
    BY <1>3, RequestFacts DEF Target, Leaves
  <2>2. CASE r.owner = r.user
    <3>1. StoreProgram(Program(r), 1, TokenItem(r.user, r.kind), r.owner)
      <4> DEFINE P == Program(r)
                 i == TokenItem(r.user, r.kind)
      <4>1. /\ Len(P) = 6 /\ P[2] = Mkdir(KeyDir) /\ P[3] = Mkdir(UserDir(r.user))
            /\ P[4] = Mkdir(i)
            /\ IsOpen(P[5], Append(i, "token"), r.owner) /\ IsOpen(P[6], Append(i, "owner"), r.owner)
        BY <1>3, <2>2, SetOwnTokenProgram
      <4> HIDE DEF P
      <4>2. 1 + 1 = 2 /\ 1 + 2 = 3 /\ 1 + 3 = 4 /\ 1 + 4 = 5 /\ 1 + 5 = 6 /\ 1 \in Nat
        OBVIOUS
      <4>3. /\ Len(P) = 1 + 5 /\ P[1 + 1] = Mkdir(KeyDir) /\ P[1 + 2] = Mkdir(UserDir(r.user))
            /\ P[1 + 3] = Mkdir(i)
            /\ IsOpen(P[1 + 4], Append(i, "token"), r.owner) /\ IsOpen(P[1 + 5], Append(i, "owner"), r.owner)
        BY <4>1, <4>2
      <4>4. StoreProgram(P, 1, i, r.owner)
        BY <2>1, <4>2, <4>3, TokenStore, Zenon
      <4>5. QED
        BY <4>4 DEF P
    <3>2. AdmitAt(r) = 1
      BY <1>3, <2>2, SetOwnTokenProgram
    <3>3. QED
      BY <2>1, <3>1, <3>2
  <2>3. CASE r.owner # r.user
    <3>1. StoreProgram(Program(r), 3, TokenItem(r.user, r.kind), r.owner)
      <4> DEFINE P == Program(r)
                 i == TokenItem(r.user, r.kind)
      <4>1. /\ Len(P) = 8 /\ P[4] = Mkdir(KeyDir) /\ P[5] = Mkdir(UserDir(r.user))
            /\ P[6] = Mkdir(i)
            /\ IsOpen(P[7], Append(i, "token"), r.owner) /\ IsOpen(P[8], Append(i, "owner"), r.owner)
        BY <1>3, <2>3, SetTokenProgram
      <4> HIDE DEF P
      <4>2. 3 + 1 = 4 /\ 3 + 2 = 5 /\ 3 + 3 = 6 /\ 3 + 4 = 7 /\ 3 + 5 = 8 /\ 3 \in Nat
        OBVIOUS
      <4>3. /\ Len(P) = 3 + 5 /\ P[3 + 1] = Mkdir(KeyDir) /\ P[3 + 2] = Mkdir(UserDir(r.user))
            /\ P[3 + 3] = Mkdir(i)
            /\ IsOpen(P[3 + 4], Append(i, "token"), r.owner) /\ IsOpen(P[3 + 5], Append(i, "owner"), r.owner)
        BY <4>1, <4>2
      <4>4. StoreProgram(P, 3, i, r.owner)
        BY <2>1, <4>2, <4>3, TokenStore, Zenon
      <4>5. QED
        BY <4>4 DEF P
    <3>2. AdmitAt(r) = 3
      BY <1>3, <2>3, SetTokenProgram
    <3>3. QED
      BY <2>1, <3>1, <3>2
  <2>4. QED
    BY <2>2, <2>3
<1>4. QED
  BY <1>1, <1>2, <1>3 DEF Stores

-----------------------------------------------------------------------------
\* The value of an item.

AllDiffer(a, b, e, d, f, g) ==
    /\ a \notin {b, e, d, f, g} /\ b \notin {e, d, f, g} /\ e \notin {d, f, g}
    /\ d \notin {f, g} /\ f # g

LEMMA SixDiffer ==
  ASSUME NEW a, NEW b, NEW e, NEW d, NEW f, NEW g, NEW S, S = {a, b, e, d, f, g},
         Cardinality(S) = 6
  PROVE  AllDiffer(a, b, e, d, f, g)
<1> DEFINE Card(T, x) == IF x \in T THEN Cardinality(T) ELSE Cardinality(T) + 1
<1>1. IsFiniteSet({g}) /\ Cardinality({g}) = 1
  BY FS_Singleton
<1>2. /\ IsFiniteSet({g} \cup {f}) /\ Cardinality({g} \cup {f}) = Card({g}, f)
      /\ {g} \cup {f} = {f, g}
  BY <1>1, FS_AddElement
<1>3. /\ IsFiniteSet({f, g} \cup {d}) /\ Cardinality({f, g} \cup {d}) = Card({f, g}, d)
      /\ {f, g} \cup {d} = {d, f, g}
  BY <1>2, FS_AddElement
<1>4. /\ IsFiniteSet({d, f, g} \cup {e}) /\ Cardinality({d, f, g} \cup {e}) = Card({d, f, g}, e)
      /\ {d, f, g} \cup {e} = {e, d, f, g}
  BY <1>3, FS_AddElement, SMTT(30)
<1>5. /\ IsFiniteSet({e, d, f, g} \cup {b})
      /\ Cardinality({e, d, f, g} \cup {b}) = Card({e, d, f, g}, b)
      /\ {e, d, f, g} \cup {b} = {b, e, d, f, g}
  BY <1>4, FS_AddElement
<1>6. /\ Cardinality({b, e, d, f, g} \cup {a}) = Card({b, e, d, f, g}, a)
      /\ {b, e, d, f, g} \cup {a} = {a, b, e, d, f, g}
  BY <1>5, FS_AddElement
<1>7. /\ Cardinality({f, g}) = Card({g}, f)
      /\ Cardinality({d, f, g}) = Card({f, g}, d)
      /\ Cardinality({e, d, f, g}) = Card({d, f, g}, e)
      /\ Cardinality({b, e, d, f, g}) = Card({e, d, f, g}, b)
      /\ Cardinality({a, b, e, d, f, g}) = Card({b, e, d, f, g}, a)
  BY <1>2, <1>3, <1>4, <1>5, <1>6
<1> DEFINE c1 == Cardinality({g})
           c2 == Cardinality({f, g})
           c3 == Cardinality({d, f, g})
           c4 == Cardinality({e, d, f, g})
           c5 == Cardinality({b, e, d, f, g})
<1>8. /\ c1 = 1
      /\ c2 = IF f \in {g} THEN c1 ELSE c1 + 1
      /\ c3 = IF d \in {f, g} THEN c2 ELSE c2 + 1
      /\ c4 = IF e \in {d, f, g} THEN c3 ELSE c3 + 1
      /\ c5 = IF b \in {e, d, f, g} THEN c4 ELSE c4 + 1
      /\ 6 = IF a \in {b, e, d, f, g} THEN c5 ELSE c5 + 1
  BY <1>1, <1>7, Zenon
<1> HIDE DEF c1, c2, c3, c4, c5
<1>9. QED
  BY <1>8 DEF AllDiffer

\* What an item or a file can hold are different things.
LEMMA ContentsDiffer ==
  /\ Absent \notin Fillings /\ Empty # Mixed /\ Empty \notin Contents /\ Mixed \notin Contents
  /\ Damaged \cap (Fillings \cup {Absent}) = {} /\ Torn \notin Contents \cup {Absent} \cup Damaged
  /\ "overlap" # "crash"
<1>1. /\ (Values \cup Users) \cap {Absent, Torn, Empty, Mixed, "overlap", "crash"} = {}
      /\ Cardinality({Absent, Torn, Empty, Mixed, "overlap", "crash"}) = 6
  BY StoreFilesAssumption
<1>2. /\ Absent \notin {Torn, Empty, Mixed, "overlap", "crash"}
      /\ Torn \notin {Empty, Mixed, "overlap", "crash"}
      /\ Empty \notin {Mixed, "overlap", "crash"} /\ Mixed \notin {"overlap", "crash"}
  <2>1. AllDiffer(Absent, Torn, Empty, Mixed, "overlap", "crash")
    BY <1>1, SixDiffer, Zenon
  <2>2. QED
    BY <2>1 DEF AllDiffer
<1>3. QED
  BY <1>1, <1>2 DEF Contents, Fillings, Damaged

LEMMA StoredFacts ==
  ASSUME NEW tr, TreeOK(tr), NEW i \in Items
  PROVE  /\ Stored(tr, i) = Absent <=> Parts(tr, i) = {}
         /\ Stored(tr, i) \in Fillings \cup {Absent}
         /\ \A v \in Contents : Stored(tr, i) = v <=>
                \A p \in PartsOf(i) : HasFile(tr, p) /\ tr.files[p] = v
<1> DEFINE there == PartsOf(i) \cap DOMAIN tr.files
           q == CHOOSE p \in there : TRUE
<1>1. there = Parts(tr, i) /\ \A p \in there : tr.files[p] \in Fillings
  BY DEF Parts, TreeOK
<1>2. Mixed \in Fillings /\ Absent \notin Fillings /\ Absent \notin Contents
      /\ Mixed \notin Contents
  BY ContentsDiffer DEF Fillings
<1>3. PartsOf(i) # {}
  BY PartsFacts
<1>4. Stored(tr, i) = IF there = {} THEN Absent
                      ELSE IF there = PartsOf(i) /\ \A p \in there : tr.files[p] = tr.files[q]
                           THEN tr.files[q] ELSE Mixed
  BY DEF Stored
<1>5. there # {} => q \in there
  OBVIOUS
<1> HIDE DEF q
<1>6. CASE there = {}
  BY <1>1, <1>2, <1>3, <1>4, <1>6 DEF HasFile
<1>7. CASE there # {}
  <2>1. /\ Stored(tr, i) \in Fillings
        /\ Stored(tr, i) = Absent <=> Parts(tr, i) = {}
    BY <1>1, <1>2, <1>4, <1>5, <1>7
  <2>2. ASSUME NEW v \in Contents, Stored(tr, i) = v
        PROVE  \A p \in PartsOf(i) : HasFile(tr, p) /\ tr.files[p] = v
    BY <1>2, <1>4, <1>5, <1>7, <2>2 DEF HasFile
  <2>3. ASSUME NEW v \in Contents, \A p \in PartsOf(i) : HasFile(tr, p) /\ tr.files[p] = v
        PROVE  Stored(tr, i) = v
    BY <1>2, <1>4, <1>5, <1>7, <2>3 DEF HasFile
  <2>4. QED
    BY <2>1, <2>2, <2>3
<1>8. QED
  BY <1>6, <1>7

\* tr2 has the files of i that tr has.
SameParts(i, tr, tr2) ==
    \A p \in PartsOf(i) :
        /\ HasFile(tr2, p) <=> HasFile(tr, p)
        /\ HasFile(tr, p) => tr2.files[p] = tr.files[p]

LEMMA StoredSame ==
  ASSUME NEW tr, NEW tr2, NEW i, SameParts(i, tr, tr2)
  PROVE  Stored(tr2, i) = Stored(tr, i)
<1>1. PartsOf(i) \cap DOMAIN tr2.files = PartsOf(i) \cap DOMAIN tr.files
  BY DEF SameParts, HasFile
<1> DEFINE there == PartsOf(i) \cap DOMAIN tr.files
           q == CHOOSE p \in there : TRUE
<1>2. \A p \in there : tr2.files[p] = tr.files[p]
  BY DEF SameParts, HasFile
<1>3. there # {} => q \in there
  OBVIOUS
<1>4. Stored(tr, i) = IF there = {} THEN Absent
                      ELSE IF there = PartsOf(i) /\ \A p \in there : tr.files[p] = tr.files[q]
                           THEN tr.files[q] ELSE Mixed
  BY DEF Stored
<1>5. Stored(tr2, i) = IF there = {} THEN Absent
                       ELSE IF there = PartsOf(i) /\ \A p \in there : tr2.files[p] = tr2.files[q]
                            THEN tr2.files[q] ELSE Mixed
  BY <1>1 DEF Stored
<1> HIDE DEF q, there
<1>6. QED
  BY <1>2, <1>3, <1>4, <1>5

\* What a step may do that writes the items in W.
Frame(W, tr, tr2) ==
    /\ \A i \in Items \ W : SameParts(i, tr, tr2)
    /\ tr.dirs \ Gone(W) \subseteq tr2.dirs

LEMMA FrameFacts ==
  ASSUME NEW W, NEW tr, NEW tr2, Frame(W, tr, tr2), NEW i \in Items, i \notin W
  PROVE  /\ \A p \in PartsOf(i) : Held(tr2, p) = Held(tr, p)
         /\ \A p \in PartsOf(i) : HasFile(tr, p) => HasFile(tr2, p) /\ tr2.files[p] = tr.files[p]
         /\ Parts(tr2, i) = Parts(tr, i) /\ Stored(tr2, i) = Stored(tr, i)
         /\ \A d \in tr.dirs : Needs(i, d) => d \in tr2.dirs
<1>1. SameParts(i, tr, tr2)
  BY DEF Frame
<1>2. Stored(tr2, i) = Stored(tr, i)
  BY <1>1, StoredSame
<1>3. \A d \in tr.dirs : Needs(i, d) => d \in tr2.dirs
  BY NeededStay DEF Frame
<1>4. Parts(tr2, i) = Parts(tr, i)
  BY <1>1 DEF Parts, SameParts, HasFile
<1>5. QED
  BY <1>1, <1>2, <1>3, <1>4 DEF SameParts, Held

-----------------------------------------------------------------------------
\* Where a thread is.

LEMMA KnownRequests == UNION Workloads \subseteq AllRequests
  BY StoreFilesAssumption

LEMMA ReadingNext ==
  ASSUME NEW x, NEW tr, NEW n, x.req \in AllRequests, Reading(x, tr, n)
  PROVE  /\ Busy(x) /\ ~Writing(x)
         /\ n \in 1..Len(Program(x.req)) /\ n <= AdmitAt(x.req) /\ ~x.linked
         /\ Next1(x) = Program(x.req)[n] /\ Tail(x.prog) = From(Program(x.req), n + 1)
         /\ n < AdmitAt(x.req) => ReadsOnly(x.req, Next1(x))
         /\ n = AdmitAt(x.req) => Next1(x).do = "admit" /\ Writes(x.req) # {}
<1> DEFINE P == Program(x.req)
           a == AdmitAt(x.req)
<1>1. n \in 1..Len(P) /\ n <= a /\ x.prog = From(P, n) /\ ~x.linked
  BY DEF Reading
<1>2. /\ IsSeq(P) /\ Len(P) \in Nat /\ a \in Nat
      /\ Writes(x.req) = {} <=> a = Len(P) + 1
      /\ Writes(x.req) # {} => P[a].do = "admit"
  BY ProgramFacts
<1>3. PICK S : P \in Seq(S)
  BY <1>2 DEF IsSeq
<1>4. /\ From(P, n) # <<>> /\ Head(From(P, n)) = P[n] /\ Tail(From(P, n)) = From(P, n + 1)
  BY <1>1, <1>3, FromFacts
<1>5. Busy(x) /\ Next1(x) = P[n] /\ Tail(x.prog) = From(P, n + 1)
  BY <1>1, <1>4 DEF Busy, Next1
<1>6. n < a => ReadsOnly(x.req, P[n])
  BY <1>1, ReadFacts
<1>7. n = a => P[n].do = "admit" /\ Writes(x.req) # {}
  BY <1>1, <1>2
<1>8. P[n].do \in {"read", "admit"}
  BY <1>1, <1>2, <1>6, <1>7 DEF ReadsOnly
<1>9. QED
  BY <1>1, <1>5, <1>6, <1>7, <1>8 DEF Writing

LEMMA StoringNext ==
  ASSUME NEW x, NEW tr, NEW c, NEW n, x.req \in AllRequests, Storing(x, tr, c, n)
  PROVE  LET P == Program(x.req)
             a == AdmitAt(x.req)
             i == Target(x.req) IN
         /\ Busy(x) /\ Writing(x) /\ Writes(x.req) = {i} /\ i \in Items
         /\ n \in a + 1..Len(P) /\ Tail(x.prog) = From(P, n + 1)
         /\ \/ /\ Next1(x) = P[n] /\ ~x.linked
               /\ MakesDir(P, a, n, i) \/ OpensPart(P, a, n, i, Leaves(x.req))
            \/ Next1(x) = Fill(P[n]) /\ OpensPart(P, a, n, i, Leaves(x.req))
<1> DEFINE P == Program(x.req)
           a == AdmitAt(x.req)
           i == Target(x.req)
<1>1. /\ Stores(x.req) /\ n \in a + 1..Len(P)
      /\ \/ x.prog = From(P, n) /\ ~x.linked
         \/ P[n].do = "open" /\ x.prog = <<Fill(P[n])>> \o From(P, n + 1)
  BY DEF Storing
<1>2. IsSeq(P) /\ Len(P) \in Nat /\ a \in Nat /\ a >= 1
  BY ProgramFacts
<1>3. PICK S : P \in Seq(S)
  BY <1>2 DEF IsSeq
<1>4. Writes(x.req) = {i} /\ i \in Items
  BY <1>1, RequestKinds
<1>5. n \in 1..Len(P)
  BY <1>1, <1>2
<1>6. /\ From(P, n) # <<>> /\ Head(From(P, n)) = P[n] /\ Tail(From(P, n)) = From(P, n + 1)
      /\ From(P, n + 1) \in Seq(S)
  BY <1>3, <1>5, FromFacts
<1>7. /\ <<Fill(P[n])>> \o From(P, n + 1) # <<>>
      /\ Head(<<Fill(P[n])>> \o From(P, n + 1)) = Fill(P[n])
      /\ Tail(<<Fill(P[n])>> \o From(P, n + 1)) = From(P, n + 1)
  BY <1>6, PutInFront
<1>8. MakesDir(P, a, n, i) \/ OpensPart(P, a, n, i, Leaves(x.req))
  BY <1>1, StoreFacts DEF StoreProgram
<1>9. P[n].do = "open" => ~MakesDir(P, a, n, i)
  BY InstructionFields DEF MakesDir
<1>10. P[n].do \in {"mkdir", "open"}
  BY <1>8, InstructionFields, OpenFields DEF MakesDir, OpensPart
<1>11. OpensPart(P, a, n, i, Leaves(x.req)) => Fill(P[n]).do = "fill"
  BY OpenFields DEF OpensPart
<1>12. CASE x.prog = From(P, n) /\ ~x.linked
  <2>1. Busy(x) /\ Next1(x) = P[n] /\ Tail(x.prog) = From(P, n + 1)
    BY <1>6, <1>12 DEF Busy, Next1
  <2>2. Writing(x)
    BY <1>4, <1>10, <2>1 DEF Writing
  <2>3. QED
    BY <1>1, <1>4, <1>8, <1>12, <2>1, <2>2
<1>13. CASE P[n].do = "open" /\ x.prog = <<Fill(P[n])>> \o From(P, n + 1)
  <2>1. Busy(x) /\ Next1(x) = Fill(P[n]) /\ Tail(x.prog) = From(P, n + 1)
    BY <1>7, <1>13 DEF Busy, Next1
  <2>2. OpensPart(P, a, n, i, Leaves(x.req))
    BY <1>8, <1>9, <1>13
  <2>3. Writing(x)
    BY <1>4, <1>11, <2>1, <2>2 DEF Writing
  <2>4. QED
    BY <1>1, <1>4, <2>1, <2>2, <2>3
<1>14. QED
  BY <1>1, <1>12, <1>13

LEMMA OneOrTwo ==
  ASSUME NEW a, NEW b
  PROVE  /\ <<a>> # <<>> /\ Head(<<a>>) = a /\ Tail(<<a>>) = <<>>
         /\ <<a, b>> # <<>> /\ Head(<<a, b>>) = a /\ Tail(<<a, b>>) = <<b>>
  OBVIOUS

LEMMA RemovingNext ==
  ASSUME NEW x, NEW tr, NEW c, x.req \in AllRequests, Removing(x, tr, c)
  PROVE  Busy(x) /\ Writing(x) /\ Next1(x).do \in {"opendir", "clear"} /\ ~x.linked
<1>1. Removes(x.req) /\ Writes(x.req) # {} /\ ~x.linked
  BY RequestKinds DEF Removing
<1>2. Busy(x) /\ Next1(x).do \in {"opendir", "clear"}
  BY OneOrTwo, InstructionFields DEF Removing, Busy, Next1
<1>3. QED
  BY <1>1, <1>2 DEF Writing

-----------------------------------------------------------------------------
\* What other threads do leaves a thread where it is: it is at most disturbed, and it
\* may lose the file that it has open.

Follows(x, x2, c, c2, W) ==
    /\ x2 = [req |-> x.req, prog |-> x.prog, got |-> x.got, linked |-> x2.linked,
             clash |-> x2.clash, answer |-> x.answer]
    /\ x2.clash \in BOOLEAN /\ x2.linked \in BOOLEAN
    /\ x2.linked => x.linked
    /\ x.prog = <<>> => ~x2.clash
    /\ ~x2.clash => ~x.clash /\ (Busy(x) => W \cap Touches(x) = {})
    /\ Writing(x) => \A i \in Writes(x.req) : Alone(x2, c2, i) =>
            /\ Alone(x, c, i) /\ i \notin W /\ (x.linked => x2.linked)
            /\ c2[i] = c[i] \/ c2[i] \in Damaged

LEMMA ReadingKept ==
  ASSUME NEW x, NEW x2, NEW c, NEW c2, NEW W, NEW tr, NEW tr2, NEW n,
         Follows(x, x2, c, c2, W), Frame(W, tr, tr2),
         x.req \in AllRequests, Reading(x, tr, n)
  PROVE  Reading(x2, tr2, n)
<1> DEFINE P == Program(x.req)
<1>1. /\ x2.req = x.req /\ x2.prog = x.prog /\ x2.got = x.got
      /\ x2.linked \in BOOLEAN /\ (x2.linked => x.linked)
      /\ ~x2.clash => ~x.clash /\ W \cap Touches(x) = {}
  BY ReadingNext DEF Follows
<1>2. /\ n \in 1..Len(P) /\ n <= AdmitAt(x.req) /\ x.prog = From(P, n) /\ ~x.linked
      /\ x.got \in Seq(Fillings \cup {Absent}) /\ Len(x.got) = n - 1
      /\ \A m \in 1..n - 1 :
            (P[m].must => x.got[m] # Absent) /\ (~x.clash => x.got[m] = Held(tr, P[m].path))
  BY DEF Reading
<1>3. Len(P) \in Nat /\ AdmitAt(x.req) \in Nat
  BY ProgramFacts
<1>4. ASSUME NEW m \in 1..n - 1, ~x2.clash PROVE Held(tr2, P[m].path) = Held(tr, P[m].path)
  <2>1. m \in 1..Len(P) /\ m < AdmitAt(x.req)
    BY <1>2, <1>3
  <2>2. ReadsOnly(x.req, P[m])
    BY <2>1, ReadFacts
  <2>3. PICK i \in Items : i \in Reads(x.req) /\ P[m].path \in PartsOf(i)
    BY <2>2 DEF ReadsOnly
  <2>4. i \notin W
    BY <1>1, <1>4, <2>3 DEF Touches
  <2>5. QED
    BY <2>3, <2>4, FrameFacts
<1>5. QED
  BY <1>1, <1>2, <1>4 DEF Reading

LEMMA StoringKept ==
  ASSUME NEW x, NEW x2, NEW c, NEW c2, NEW W, NEW tr, NEW tr2, NEW n,
         Follows(x, x2, c, c2, W), Frame(W, tr, tr2),
         x2.linked /\ HasFile(tr, Next1(x).path) => HasFile(tr2, Next1(x).path),
         x.req \in AllRequests, Storing(x, tr, c, n)
  PROVE  Storing(x2, tr2, c2, n)
<1> DEFINE P == Program(x.req)
           a == AdmitAt(x.req)
           i == Target(x.req)
<1>1. /\ x2.req = x.req /\ x2.prog = x.prog /\ x2.linked \in BOOLEAN /\ (x2.linked => x.linked)
  BY DEF Follows
<1>2. Writing(x) /\ Writes(x.req) = {i} /\ i \in Items
  BY StoringNext
<1>3. ASSUME Alone(x2, c2, i) PROVE Alone(x, c, i) /\ i \notin W /\ (x.linked => x2.linked)
  BY <1>2, <1>3 DEF Follows
<1>4. Stores(x.req) /\ n \in a + 1..Len(P)
  BY DEF Storing
<1>5. /\ Alone(x, c, i) => StoredBefore(x, tr, n)
      /\ \/ x.prog = From(P, n) /\ ~x.linked
         \/ /\ P[n].do = "open" /\ x.prog = <<Fill(P[n])>> \o From(P, n + 1)
            /\ x.linked => HasFile(tr, P[n].path)
            /\ Alone(x, c, i) => x.linked /\ tr.files[P[n].path] = Empty
  BY DEF Storing
<1>6. Len(P) \in Nat /\ a \in Nat
  BY ProgramFacts
<1>7. ASSUME NEW m \in a + 1..Len(P)
      PROVE  \/ P[m].do = "mkdir" /\ Needs(i, P[m].path)
             \/ P[m].do = "open" /\ P[m].path \in PartsOf(i)
  <2>1. MakesDir(P, a, m, i) \/ OpensPart(P, a, m, i, Leaves(x.req))
    BY <1>4, StoreFacts DEF StoreProgram
  <2>2. QED
    BY <2>1, InstructionFields, OpenFields DEF MakesDir, OpensPart
<1>8. ASSUME Alone(x2, c2, i) PROVE StoredBefore(x2, tr2, n)
  <2>1. i \notin W /\ StoredBefore(x, tr, n)
    BY <1>3, <1>5, <1>8
  <2>2. ASSUME NEW m \in a + 1..n - 1
        PROVE  /\ P[m].do = "mkdir" => P[m].path \in tr2.dirs
               /\ P[m].do = "open" => HasFile(tr2, P[m].path) /\ tr2.files[P[m].path] = Leaves(x.req)
    <3>1. m \in a + 1..Len(P)
      BY <1>4, <1>6
    <3>2. CASE P[m].do = "mkdir" /\ Needs(i, P[m].path)
      BY <1>2, <2>1, <3>2, FrameFacts DEF StoredBefore
    <3>3. CASE P[m].do = "open" /\ P[m].path \in PartsOf(i)
      BY <1>2, <2>1, <3>3, FrameFacts DEF StoredBefore
    <3>4. QED
      BY <1>7, <3>1, <3>2, <3>3
  <2>3. QED
    BY <1>1, <2>2 DEF StoredBefore
<1>9. CASE x.prog = From(P, n) /\ ~x.linked
  BY <1>1, <1>4, <1>8, <1>9 DEF Storing
<1>10. CASE /\ P[n].do = "open" /\ x.prog = <<Fill(P[n])>> \o From(P, n + 1)
            /\ x.linked => HasFile(tr, P[n].path)
            /\ Alone(x, c, i) => x.linked /\ tr.files[P[n].path] = Empty
  <2>1. P[n].path \in PartsOf(i) /\ Fill(P[n]).path = P[n].path
    <3>1. MakesDir(P, a, n, i) \/ OpensPart(P, a, n, i, Leaves(x.req))
      BY <1>4, StoreFacts DEF StoreProgram
    <3>2. OpensPart(P, a, n, i, Leaves(x.req))
      BY <1>10, <3>1, InstructionFields DEF MakesDir
    <3>3. QED
      BY <3>2, OpenFields DEF OpensPart
  <2>2. Next1(x) = Fill(P[n])
    <3>1. IsSeq(P)
      BY ProgramFacts
    <3>2. PICK S : P \in Seq(S)
      BY <3>1 DEF IsSeq
    <3>3. From(P, n + 1) \in Seq(S)
      BY <1>4, <1>6, <3>2, FromFacts
    <3>4. QED
      BY <1>10, <3>3, PutInFront DEF Next1
  <2>3. x2.linked => HasFile(tr2, P[n].path)
    BY <1>1, <1>10, <2>1, <2>2
  <2>4. Alone(x2, c2, i) => x2.linked /\ tr2.files[P[n].path] = Empty
    BY <1>2, <1>3, <1>10, <2>1, FrameFacts
  <2>5. QED
    BY <1>1, <1>4, <1>8, <1>10, <2>3, <2>4 DEF Storing
<1>11. QED
  BY <1>5, <1>9, <1>10

LEMMA RemovingKept ==
  ASSUME NEW x, NEW x2, NEW c, NEW c2, NEW W, NEW tr, NEW tr2,
         Follows(x, x2, c, c2, W), Frame(W, tr, tr2),
         x.req \in AllRequests, Removing(x, tr, c)
  PROVE  Removing(x2, tr2, c2)
<1> DEFINE D == Removed(x.req)
           V == Writes(x.req)
<1>1. /\ x2.req = x.req /\ x2.prog = x.prog /\ x2.linked \in BOOLEAN /\ (x2.linked => x.linked)
  BY DEF Follows
<1>2. Writing(x) /\ V \subseteq Items /\ Removes(x.req) /\ ~x.linked
  BY RemovingNext, RequestKinds DEF Removing
<1>3. D \in Items => V = {D}
  BY <1>2, RemoveFacts
<1>4. ASSUME NEW i \in V, Alone(x2, c2, i)
      PROVE  /\ Alone(x, c, i) /\ Parts(tr2, i) = Parts(tr, i)
             /\ Untouched(tr, c, i) => Untouched(tr2, c2, i)
             /\ Present(tr, c, i) => Present(tr2, c2, i)
  <2>1. Alone(x, c, i) /\ i \notin W /\ (c2[i] = c[i] \/ c2[i] \in Damaged)
    BY <1>2, <1>4 DEF Follows
  <2>2. i \in Items
    BY <1>2
  <2>3. /\ Parts(tr2, i) = Parts(tr, i) /\ Stored(tr2, i) = Stored(tr, i)
        /\ i \in tr.dirs => i \in tr2.dirs
    BY <2>1, <2>2, FrameFacts DEF Needs
  <2>4. Untouched(tr, c, i) => Untouched(tr2, c2, i)
    BY <2>1, <2>3 DEF Untouched
  <2>5. QED
    BY <2>1, <2>3, <2>4 DEF Present
<1>5. ASSUME NEW left, NEW j, Cleared(x, tr, c, left, j) PROVE Cleared(x2, tr2, c2, left, j)
  BY <1>1, <1>4, <1>5 DEF Cleared
<1>6. CASE x.prog = <<OpenDir(D)>> /\ \A i \in V : Alone(x, c, i) => Untouched(tr, c, i)
  <2>1. \A i \in V : Alone(x2, c2, i) => Untouched(tr2, c2, i)
    BY <1>4, <1>6
  <2>2. QED
    BY <1>1, <1>2, <1>6, <2>1 DEF Removing
<1>7. ASSUME NEW left \in SUBSET PartsOf(D), D \in Items, x.prog = <<Clear(D, left)>>,
             Alone(x, c, D) => Parts(tr, D) = left
      PROVE  Removing(x2, tr2, c2)
  <2>1. Alone(x2, c2, D) => Parts(tr2, D) = left
    BY <1>3, <1>4, <1>7
  <2>2. QED
    BY <1>1, <1>2, <1>7, <2>1 DEF Removing
<1>8. ASSUME NEW left \in SUBSET V, D \notin Items,
             x.prog = <<Clear(D, left)>>, Cleared(x, tr, c, left, D)
      PROVE  Removing(x2, tr2, c2)
  <2>1. Cleared(x2, tr2, c2, left, D)
    BY <1>5, <1>8
  <2>2. QED
    BY <1>1, <1>2, <1>8, <2>1 DEF Removing
<1>9. ASSUME NEW left \in SUBSET V, NEW j \in V, D \notin Items, Cleared(x, tr, c, left, j),
             x.prog = <<OpenDir(j), Clear(D, left)>>, Alone(x, c, j) => Present(tr, c, j)
      PROVE  Removing(x2, tr2, c2)
  <2>1. Cleared(x2, tr2, c2, left, j) /\ (Alone(x2, c2, j) => Present(tr2, c2, j))
    BY <1>4, <1>5, <1>9
  <2>2. QED
    BY <1>1, <1>2, <1>9, <2>1 DEF Removing
<1>10. ASSUME NEW left \in SUBSET V, NEW j \in V, D \notin Items, Cleared(x, tr, c, left, j),
              NEW more \in SUBSET PartsOf(j), x.prog = <<Clear(j, more), Clear(D, left)>>,
              Alone(x, c, j) => Parts(tr, j) = more
       PROVE  Removing(x2, tr2, c2)
  <2>1. Cleared(x2, tr2, c2, left, j) /\ (Alone(x2, c2, j) => Parts(tr2, j) = more)
    BY <1>4, <1>5, <1>10
  <2>2. QED
    BY <1>1, <1>2, <1>10, <2>1 DEF Removing
<1>11. \/ x.prog = <<OpenDir(D)>> /\ \A i \in V : Alone(x, c, i) => Untouched(tr, c, i)
       \/ \E left \in SUBSET PartsOf(D) :
            /\ D \in Items /\ x.prog = <<Clear(D, left)>>
            /\ Alone(x, c, D) => Parts(tr, D) = left
       \/ \E left \in SUBSET V :
            /\ D \notin Items
            /\ \/ x.prog = <<Clear(D, left)>> /\ Cleared(x, tr, c, left, D)
               \/ \E j \in V :
                    /\ Cleared(x, tr, c, left, j)
                    /\ \/ /\ x.prog = <<OpenDir(j), Clear(D, left)>>
                          /\ Alone(x, c, j) => Present(tr, c, j)
                       \/ \E more \in SUBSET PartsOf(j) :
                            /\ x.prog = <<Clear(j, more), Clear(D, left)>>
                            /\ Alone(x, c, j) => Parts(tr, j) = more
  BY DEF Removing
<1> HIDE DEF D, V
<1>12. QED
  BY <1>6, <1>7, <1>8, <1>9, <1>10, <1>11

LEMMA ThreadKept ==
  ASSUME NEW x, NEW x2, NEW c, NEW c2, NEW W, NEW tr, NEW tr2,
         Follows(x, x2, c, c2, W), Frame(W, tr, tr2),
         x2.linked /\ HasFile(tr, Next1(x).path) => HasFile(tr2, Next1(x).path),
         ThreadOK(x, tr, c)
  PROVE  ThreadOK(x2, tr2, c2)
<1>1. /\ x2.req = x.req /\ x2.prog = x.prog /\ x2.got = x.got /\ x2.answer = x.answer
      /\ x2.clash \in BOOLEAN /\ x2.linked \in BOOLEAN /\ (x2.linked => x.linked)
      /\ x2 = [req |-> x2.req, prog |-> x2.prog, got |-> x2.got, linked |-> x2.linked,
               clash |-> x2.clash, answer |-> x2.answer]
      /\ x.prog = <<>> => ~x2.clash
  BY DEF Follows
<1>2. CASE x.prog = <<>>
  BY <1>1, <1>2 DEF ThreadOK
<1>3. CASE x.prog # <<>>
  <2>1. x.req \in UNION Workloads /\ x.req \in AllRequests
    BY <1>3, KnownRequests DEF ThreadOK
  <2>2. \/ \E n \in 1..Len(Program(x.req)) : Reading(x, tr, n) \/ Storing(x, tr, c, n)
        \/ Removing(x, tr, c)
    BY <1>3 DEF ThreadOK
  <2>3. \/ \E n \in 1..Len(Program(x.req)) : Reading(x2, tr2, n) \/ Storing(x2, tr2, c2, n)
        \/ Removing(x2, tr2, c2)
    BY <2>1, <2>2, ReadingKept, StoringKept, RemovingKept
  <2>4. QED
    BY <1>1, <1>3, <2>1, <2>3 DEF ThreadOK
<1>4. QED
  BY <1>2, <1>3

-----------------------------------------------------------------------------
\* The history that goes with a step.

LEMMA TwoIn ==
  ASSUME NEW S, IsFiniteSet(S)
  PROVE  Cardinality(S) > 1 <=> \E u \in S : \E v \in S \ {u} : TRUE
<1>1. Cardinality(S) \in Nat
  BY FS_CardinalityType
<1>2. Cardinality(S) = 0 <=> S = {}
  BY FS_EmptySet
<1>3. Cardinality(S) = 1 <=> \E x : S = {x}
  BY FS_Singleton
<1>4. (\E u \in S : \E v \in S \ {u} : TRUE) <=> S # {} /\ ~(\E x : S = {x})
  OBVIOUS
<1>5. QED
  BY <1>1, <1>2, <1>3, <1>4

\* y is x, disturbed or not.
Marked(x, y) ==
    y = [req |-> x.req, prog |-> x.prog, got |-> x.got, linked |-> x.linked,
         clash |-> y.clash, answer |-> x.answer]
IsThread(x) == Marked(x, x)

LEMMA Marking ==
  ASSUME NEW x, IsThread(x), NEW b
  PROVE  Marked(x, [x EXCEPT !.clash = b]) /\ [x EXCEPT !.clash = b].clash = b
  BY DEF IsThread, Marked

LEMMA MarkedFacts ==
  ASSUME NEW x, NEW y, Marked(x, y)
  PROVE  /\ y.req = x.req /\ y.prog = x.prog /\ y.got = x.got /\ y.linked = x.linked
         /\ y.answer = x.answer /\ IsThread(y)
         /\ Busy(y) <=> Busy(x)
         /\ Writing(y) <=> Writing(x)
         /\ Next1(y) = Next1(x) /\ Touches(y) = Touches(x)
<1>1. /\ y.req = x.req /\ y.prog = x.prog /\ y.got = x.got /\ y.linked = x.linked
      /\ y.answer = x.answer
  BY DEF Marked
<1>2. Next1(y) = Next1(x) /\ (Busy(y) <=> Busy(x))
  BY <1>1 DEF Next1, Busy
<1>3. Writing(y) <=> Writing(x)
  BY <1>1, <1>2 DEF Writing
<1>4. QED
  BY <1>1, <1>2, <1>3 DEF Touches, IsThread, Marked

\* v replaces something that the request of x touches.
Disturbing(v, x) == Writing(v) /\ Writes(v.req) \cap Touches(x) # {}

LEMMA NotedThreads ==
  ASSUME NEW N, NEW rep, Noted(N, rep), NEW u \in Threads, IsThread(N[u]), N[u].clash \in BOOLEAN
  PROVE  /\ Marked(N[u], th'[u]) /\ th'[u].clash \in BOOLEAN
         /\ th'[u].clash <=>
                N[u].clash \/ (Busy(N[u]) /\ \E v \in Threads \ {u} : Disturbing(N[v], N[u]))
         /\ th' = [v \in Threads |-> th'[v]]
<1> DEFINE A == Busy(N[u]) /\ \E v \in Threads \ {u} : Disturbing(N[v], N[u])
<1>1. th' = [v \in Threads |-> th'[v]]
  BY DEF Noted
<1>2. th'[u] = IF Busy(N[u]) /\ \E v \in {w \in Threads : Writing(N[w])} \ {u} :
                        Writes(N[v].req) \cap (Reads(N[u].req) \cup Writes(N[u].req)) # {}
               THEN [N[u] EXCEPT !.clash = TRUE] ELSE N[u]
  BY DEF Noted
<1>3. th'[u] = IF A THEN [N[u] EXCEPT !.clash = TRUE] ELSE N[u]
  BY <1>2 DEF Disturbing, Touches
<1>4. Marked(N[u], [N[u] EXCEPT !.clash = TRUE]) /\ [N[u] EXCEPT !.clash = TRUE].clash = TRUE
  BY Marking
<1> HIDE DEF A
<1>5. CASE A
  <2>1. th'[u] = [N[u] EXCEPT !.clash = TRUE]
    BY <1>3, <1>5
  <2>2. Marked(N[u], th'[u]) /\ th'[u].clash = TRUE
    BY <1>4, <2>1, Zenon
  <2>3. QED
    BY <1>1, <1>5, <2>2 DEF A
<1>6. CASE ~A
  <2>1. th'[u] = N[u]
    BY <1>3, <1>6
  <2>2. QED
    BY <1>1, <1>6, <2>1 DEF A, IsThread
<1>7. QED
  BY <1>5, <1>6

\* x writes i.
WritesTo(x, i) == Writing(x) /\ i \in Writes(x.req)

LEMMA NotedItems ==
  ASSUME NEW N, NEW rep, Noted(N, rep), NEW i \in Items
  PROVE  /\ cell' = [j \in Items |-> cell'[j]] /\ requests' = requests
         /\ IF cell[i] \in Damaged /\ i \notin rep THEN cell'[i] = cell[i]
            ELSE IF ~\E u \in Threads : WritesTo(N[u], i) THEN cell'[i] = Stored(tree', i)
            ELSE IF \E u \in Threads : \E v \in Threads \ {u} : WritesTo(N[u], i) /\ WritesTo(N[v], i)
                 THEN cell'[i] = "overlap" ELSE cell'[i] = cell[i]
<1> DEFINE at == {u \in Threads : WritesTo(N[u], i)}
<1>1. /\ cell'[i] = IF cell[i] \in Damaged /\ i \notin rep THEN cell[i]
                    ELSE IF {u \in {v \in Threads : Writing(N[v])} : i \in Writes(N[u].req)} = {}
                         THEN Stored(tree', i)
                    ELSE IF Cardinality({u \in {v \in Threads : Writing(N[v])} :
                                            i \in Writes(N[u].req)}) > 1
                         THEN "overlap" ELSE cell[i]
      /\ cell' = [j \in Items |-> cell'[j]] /\ requests' = requests
  BY DEF Noted
<1>2. {u \in {v \in Threads : Writing(N[v])} : i \in Writes(N[u].req)} = at
  BY DEF WritesTo
<1>3. cell'[i] = IF cell[i] \in Damaged /\ i \notin rep THEN cell[i]
                 ELSE IF at = {} THEN Stored(tree', i)
                 ELSE IF Cardinality(at) > 1 THEN "overlap" ELSE cell[i]
  BY <1>1, <1>2
<1>4. IsFiniteSet(at)
  BY StoreFilesAssumption, FS_Subset
<1>5. Cardinality(at) > 1 <=> \E u \in at : \E v \in at \ {u} : TRUE
  BY <1>4, TwoIn
<1>6. Cardinality(at) > 1 <=>
        \E u \in Threads : \E v \in Threads \ {u} : WritesTo(N[u], i) /\ WritesTo(N[v], i)
  BY <1>5
<1>7. at = {} <=> ~\E u \in Threads : WritesTo(N[u], i)
  OBVIOUS
<1> HIDE DEF at
<1>8. QED
  BY <1>1, <1>3, <1>6, <1>7

-----------------------------------------------------------------------------
\* A step of a thread, by what it does to the files and to the thread itself.

Written(x) == IF Writing(x) THEN Writes(x.req) ELSE {}

\* x when the files change from tr to tr2: the file it has open may be removed.
Cut(x, tr, tr2) ==
    IF Busy(x) /\ Next1(x).do = "fill" /\ HasFile(tr, Next1(x).path) /\ ~HasFile(tr2, Next1(x).path)
    THEN [x EXCEPT !.linked = FALSE] ELSE x

FillsLinked(x, p) == Busy(x) /\ Next1(x).do = "fill" /\ Next1(x).path = p /\ x.linked

\* What x leaves of an item where nobody got in its way: the new value, or the item as it
\* was if x was disturbed elsewhere and has given up.
Final(x, tr, c, i) == Stored(tr, i) = Leaves(x.req) \/ (x.clash /\ Untouched(tr, c, i))

\* t, at x, comes to nx and leaves the files tr2.
Moved(x, nx, tr, tr2, c) ==
    /\ TreeOK(tr2) /\ Frame(Written(x), tr, tr2)
    /\ nx.prog # <<>> =>
            /\ nx.clash = x.clash /\ (Busy(x) => nx.req = x.req) /\ (Writing(x) => Writing(nx))
    /\ nx.prog = <<>> => \A i \in Written(x) : Alone(x, c, i) => Final(x, tr2, c, i)
    /\ \A p \in DOMAIN tr2.files : tr2.files[p] = Empty =>
            \/ FillsLinked(nx, p)
            \/ HasFile(tr, p) /\ tr.files[p] = Empty /\ ~FillsLinked(x, p)

\* The items that t, at x, has repaired when it comes to nx.
Repaired(x, nx) == IF nx.prog = <<>> /\ ~x.clash THEN Written(x) ELSE {}

After(t, nx, u) == IF u = t THEN nx ELSE Cut(th[u], tree, tree')

\* The items for t: those that others write too are damaged from now on.
Crossed(t, c) == \A i \in Items :
    c[i] = cell[i] \/ (c[i] \in Damaged /\ \E u \in Threads \ {t} : WritesTo(th[u], i))

\* What a request may answer before it writes, and that it may write, by the items it
\* reads.
Unsure(r, c) == \E i \in Reads(r) : c[i] \in Damaged
Reply(r, c, a) == \E i \in Reads(r) :
    \/ c[i] \in Damaged /\ a \in {"fail", "torn"} \cup Contents
    \/ c[i] \notin Damaged /\ a = IF c[i] = Absent THEN "fail" ELSE c[i]
Replies(r, c, a) ==
    \/ Writes(r) = {} /\ Reply(r, c, a)
    \/ Writes(r) # {} /\ a = "fail" /\ (Unsure(r, c) \/ ~Allowed(r, c))
Permitted(r, c) == Unsure(r, c) \/ Allowed(r, c)

\* Only a thread that was disturbed writes or answers otherwise.
Told(x, nx, c) ==
    /\ nx.prog # <<>> => nx.answer = IF Busy(x) THEN x.answer ELSE "none"
    /\ nx.prog = <<>> => Busy(x) /\ \/ x.clash /\ nx.answer = "unknown"
                                    \/ ~x.clash /\ Writing(x) /\ nx.answer = "ok"
                                    \/ ~x.clash /\ ~Writing(x) /\ Replies(x.req, c, nx.answer)
    /\ Writing(nx) => Busy(x) /\ (Writing(x) \/ x.clash \/ Permitted(x.req, c))

Moves(t, nx) ==
    /\ Moved(th[t], nx, tree, tree', cell) /\ Told(th[t], nx, cell)
    /\ \E c : Crossed(t, c) /\ ThreadOK(nx, tree', c)
    /\ Noted([u \in Threads |-> After(t, nx, u)], Repaired(th[t], nx))

LEMMA CutFacts ==
  ASSUME NEW x, NEW tr, NEW tr2, IsThread(x), x.linked \in BOOLEAN
  PROVE  LET y == Cut(x, tr, tr2) IN
         /\ IsThread(y) /\ y.req = x.req /\ y.prog = x.prog /\ y.got = x.got
         /\ y.clash = x.clash /\ y.answer = x.answer /\ y.linked \in BOOLEAN
         /\ y.linked => x.linked
         /\ Busy(y) <=> Busy(x)
         /\ Writing(y) <=> Writing(x)
         /\ Next1(y) = Next1(x) /\ Touches(y) = Touches(x)
         /\ y.linked /\ Busy(x) /\ Next1(x).do = "fill" /\ HasFile(tr, Next1(x).path) =>
                HasFile(tr2, Next1(x).path)
         /\ Busy(x) /\ Next1(x).do = "fill" /\ HasFile(tr2, Next1(x).path) => y = x
         /\ x.prog = <<>> => y = x
<1> DEFINE y == Cut(x, tr, tr2)
           f == [x EXCEPT !.linked = FALSE]
<1>1. /\ f = [req |-> x.req, prog |-> x.prog, got |-> x.got, linked |-> FALSE,
              clash |-> x.clash, answer |-> x.answer]
      /\ f.linked = FALSE
  <2>1. ASSUME NEW b
        PROVE  LET g == [x EXCEPT !.linked = b] IN
               /\ g = [req |-> x.req, prog |-> x.prog, got |-> x.got, linked |-> b,
                       clash |-> x.clash, answer |-> x.answer]
               /\ g.linked = b
    BY DEF IsThread, Marked
  <2>2. QED
    BY <2>1, Zenon
<1>2. /\ IsThread(f) /\ f.req = x.req /\ f.prog = x.prog /\ f.got = x.got
      /\ f.clash = x.clash /\ f.answer = x.answer
  BY <1>1 DEF IsThread, Marked
<1> HIDE DEF f
<1>3. y = f \/ y = x
  BY DEF Cut, f
<1>4. /\ IsThread(y) /\ y.req = x.req /\ y.prog = x.prog /\ y.got = x.got
      /\ y.clash = x.clash /\ y.answer = x.answer /\ y.linked \in BOOLEAN
      /\ y.linked => x.linked
  BY <1>1, <1>2, <1>3
<1>5. /\ y.linked /\ Busy(x) /\ Next1(x).do = "fill" /\ HasFile(tr, Next1(x).path) =>
                HasFile(tr2, Next1(x).path)
      /\ Busy(x) /\ Next1(x).do = "fill" /\ HasFile(tr2, Next1(x).path) => y = x
      /\ x.prog = <<>> => y = x
  BY <1>1 DEF Cut, f, Busy
<1> HIDE DEF y
<1>6. Next1(y) = Next1(x) /\ (Busy(y) <=> Busy(x))
  BY <1>4 DEF Next1, Busy
<1>7. Writing(y) <=> Writing(x)
  BY <1>4, <1>6 DEF Writing
<1>8. Touches(y) = Touches(x)
  BY <1>4 DEF Touches
<1>9. QED
  BY <1>4, <1>5, <1>6, <1>7, <1>8 DEF y

\* Only who is filling a file has one open, and it is there.
LEMMA LinkedFills ==
  ASSUME NEW x, NEW tr, NEW c, ThreadOK(x, tr, c), x.linked
  PROVE  /\ Busy(x) /\ Writing(x) /\ Next1(x).do = "fill" /\ HasFile(tr, Next1(x).path)
         /\ Writes(x.req) = {Target(x.req)} /\ Next1(x).path \in PartsOf(Target(x.req))
         /\ Target(x.req) \in Items
<1>1. x.prog # <<>> /\ x.req \in AllRequests
  BY KnownRequests DEF ThreadOK
<1>2. \/ \E n \in 1..Len(Program(x.req)) : Reading(x, tr, n) \/ Storing(x, tr, c, n)
      \/ Removing(x, tr, c)
  BY <1>1 DEF ThreadOK
<1>3. PICK n : Storing(x, tr, c, n)
  BY <1>2 DEF Reading, Removing
<1> DEFINE P == Program(x.req)
           a == AdmitAt(x.req)
           i == Target(x.req)
<1>4. /\ Busy(x) /\ Writing(x) /\ Writes(x.req) = {i} /\ i \in Items
      /\ n \in a + 1..Len(P)
      /\ Next1(x) = Fill(P[n]) /\ OpensPart(P, a, n, i, Leaves(x.req))
  BY <1>1, <1>3, StoringNext
<1>5. Fill(P[n]).do = "fill" /\ Fill(P[n]).path = P[n].path /\ P[n].path \in PartsOf(i)
  BY <1>4, OpenFields DEF OpensPart
<1>6. HasFile(tr, P[n].path)
  BY <1>3 DEF Storing
<1>7. QED
  BY <1>4, <1>5, <1>6

LEMMA ThreadFields ==
  ASSUME NEW x, NEW tr, NEW c, ThreadOK(x, tr, c)
  PROVE  /\ IsThread(x) /\ x.clash \in BOOLEAN /\ x.linked \in BOOLEAN
         /\ Busy(x) => x.req \in AllRequests /\ x.req \in UNION Workloads
         /\ ~Busy(x) => x.req = NoRequest /\ ~x.clash /\ ~x.linked
  BY KnownRequests DEF ThreadOK, IsThread, Marked, Busy

LEMMA AfterFacts ==
  ASSUME IInv, NEW t \in Threads, NEW nx, Moves(t, nx), NEW u \in Threads
  PROVE  LET y == After(t, nx, u) IN
         /\ IsThread(y) /\ y.clash \in BOOLEAN
         /\ Marked(y, th'[u]) /\ th'[u].clash \in BOOLEAN
         /\ th'[u].clash <=>
                y.clash \/ (Busy(y) /\ \E v \in Threads \ {u} : Disturbing(After(t, nx, v), y))
         /\ u # t => Busy(y) <=> Busy(th[u])
         /\ u # t => Writing(y) <=> Writing(th[u])
         /\ u # t => y.req = th[u].req /\ y.clash = th[u].clash /\ y = Cut(th[u], tree, tree')
         /\ u = t => y = nx
<1> DEFINE N == [v \in Threads |-> After(t, nx, v)]
           y == After(t, nx, u)
<1>1. PICK c : ThreadOK(nx, tree', c)
  BY DEF Moves
<1>2. ThreadOK(th[u], tree, cell) /\ ThreadOK(nx, tree', c)
  BY <1>1 DEF IInv
<1>3. /\ IsThread(th[u]) /\ th[u].linked \in BOOLEAN /\ th[u].clash \in BOOLEAN
      /\ IsThread(nx) /\ nx.clash \in BOOLEAN
  BY <1>2, ThreadFields
<1>4. Noted(N, Repaired(th[t], nx)) /\ N[u] = y /\ \A v \in Threads : N[v] = After(t, nx, v)
  BY DEF Moves
<1>5. u # t => y = Cut(th[u], tree, tree')
  BY DEF After
<1>6. u = t => y = nx
  BY DEF After
<1>7. u # t => /\ IsThread(y) /\ y.clash \in BOOLEAN /\ (Busy(y) <=> Busy(th[u]))
               /\ (Writing(y) <=> Writing(th[u]))
               /\ y.req = th[u].req /\ y.clash = th[u].clash
  BY <1>3, <1>5, CutFacts
<1>8. IsThread(y) /\ y.clash \in BOOLEAN
  BY <1>3, <1>6, <1>7
<1> HIDE DEF N, y
<1>9. /\ Marked(N[u], th'[u]) /\ th'[u].clash \in BOOLEAN
      /\ th'[u].clash <=>
             N[u].clash \/ (Busy(N[u]) /\ \E v \in Threads \ {u} : Disturbing(N[v], N[u]))
  BY <1>4, <1>8, NotedThreads
<1>10. QED
  BY <1>4, <1>5, <1>6, <1>7, <1>8, <1>9 DEF y

\* Another thread than the one that moves.
LEMMA OthersFollow ==
  ASSUME IInv, NEW t \in Threads, NEW nx, Moves(t, nx), NEW u \in Threads, u # t
  PROVE  Follows(th[u], th'[u], cell, cell', Written(th[t]))
<1> DEFINE x == th[u]
           y == Cut(th[u], tree, tree')
           x2 == th'[u]
           W == Written(th[t])
<1>1. ThreadOK(x, tree, cell) /\ ThreadOK(th[t], tree, cell) /\ HistoryOK
  BY DEF IInv
<1>2. /\ IsThread(x) /\ x.linked \in BOOLEAN /\ x.clash \in BOOLEAN
      /\ Busy(x) => x.req \in AllRequests
      /\ ~Busy(x) => ~x.clash /\ ~x.linked
  BY <1>1, ThreadFields
<1>3. /\ y.req = x.req /\ y.prog = x.prog /\ y.got = x.got /\ y.clash = x.clash
      /\ y.answer = x.answer /\ y.linked \in BOOLEAN /\ (y.linked => x.linked)
      /\ (Busy(y) <=> Busy(x)) /\ (Writing(y) <=> Writing(x)) /\ (x.prog = <<>> => y = x)
      /\ Busy(x) /\ Next1(x).do = "fill" /\ HasFile(tree', Next1(x).path) => y = x
  BY <1>2, CutFacts
<1>4. /\ Marked(y, x2) /\ x2.clash \in BOOLEAN /\ y.clash \in BOOLEAN
      /\ x2.clash => y.clash \/ Busy(y)
      /\ y.clash => x2.clash
  BY AfterFacts
<1>5. /\ x2.req = y.req /\ x2.prog = y.prog /\ x2.linked = y.linked
      /\ x2 = [req |-> x.req, prog |-> x.prog, got |-> x.got, linked |-> x2.linked,
               clash |-> x2.clash, answer |-> x.answer]
  BY <1>3, <1>4 DEF Marked
<1>6. \A i \in W : Writing(th[t]) /\ i \in Writes(th[t].req)
  BY DEF Written
<1>7. Busy(x) /\ W \cap Touches(x) # {} => x.clash
  BY <1>1, <1>6 DEF HistoryOK, Written
<1>8. ASSUME Writing(x), NEW i \in Writes(x.req), Alone(x2, cell', i)
      PROVE  /\ Alone(x, cell, i) /\ i \notin W /\ (x.linked => x2.linked)
             /\ cell'[i] = cell[i] \/ cell'[i] \in Damaged
  <2> DEFINE rep == Repaired(th[t], nx)
             N == [v \in Threads |-> After(t, nx, v)]
  <2>1. Busy(x) /\ x.req \in AllRequests /\ i \in Items
    BY <1>2, <1>8, RequestKinds DEF Writing
  <2>2. WritesTo(N[u], i)
    BY <1>3, <1>8 DEF WritesTo, After
  <2>3. IF cell[i] \in Damaged /\ i \notin rep THEN cell'[i] = cell[i]
        ELSE IF ~\E v \in Threads : WritesTo(N[v], i) THEN cell'[i] = Stored(tree', i)
        ELSE IF \E w \in Threads : \E v \in Threads \ {w} : WritesTo(N[w], i) /\ WritesTo(N[v], i)
             THEN cell'[i] = "overlap" ELSE cell'[i] = cell[i]
    BY <2>1, NotedItems DEF Moves
  <2>4. cell'[i] = cell[i] \/ cell'[i] \in Damaged
    BY <2>2, <2>3 DEF Damaged
  <2>5. cell[i] \in Damaged /\ i \notin rep => cell'[i] \in Damaged
    BY <2>3
  <2> HIDE DEF N
  <2>6. i \notin W
    <3> SUFFICES ASSUME i \in W PROVE FALSE
      OBVIOUS
    <3>1. Writing(th[t]) /\ i \in Writes(th[t].req) /\ Busy(th[t])
      BY <1>6 DEF Writing
    <3>2. cell[i] \in Damaged
      BY <1>1, <1>8, <2>1, <3>1 DEF HistoryOK, At2
    <3>3. x.clash /\ th[t].clash
      BY <1>1, <1>8, <2>1, <3>1 DEF HistoryOK, Touches
    <3>4. i \notin rep
      BY <3>3 DEF Repaired
    <3>5. x2.clash /\ cell'[i] \in Damaged
      BY <1>3, <1>4, <2>5, <3>2, <3>3, <3>4
    <3>6. QED
      BY <1>8, <3>5 DEF Alone
  <2>7. i \notin rep
    BY <2>6 DEF Repaired
  <2>8. Alone(x, cell, i)
    BY <1>3, <1>4, <1>8, <2>4, <2>5, <2>7 DEF Alone
  <2>9. ASSUME x.linked PROVE x2.linked
    <3>1. /\ Busy(x) /\ Next1(x).do = "fill" /\ HasFile(tree, Next1(x).path)
          /\ Writes(x.req) = {Target(x.req)} /\ Next1(x).path \in PartsOf(Target(x.req))
      BY <1>1, <2>9, LinkedFills
    <3>2. i = Target(x.req)
      BY <1>8, <3>1
    <3>3. HasFile(tree', Next1(x).path)
      BY <2>1, <2>6, <3>1, <3>2, FrameFacts DEF Moves, Moved
    <3>4. QED
      BY <1>3, <1>5, <2>9, <3>1, <3>3
  <2>10. QED
    BY <2>4, <2>6, <2>8, <2>9
<1>9. x2.linked \in BOOLEAN /\ (x2.linked => x.linked) /\ (x.prog = <<>> => ~x2.clash)
  BY <1>2, <1>3, <1>4, <1>5 DEF Busy
<1>10. ~x2.clash => ~x.clash /\ (Busy(x) => W \cap Touches(x) = {})
  BY <1>3, <1>4, <1>7
<1> HIDE DEF x, x2, W, y
<1>11. Follows(x, x2, cell, cell', W)
  BY <1>4, <1>5, <1>8, <1>9, <1>10 DEF Follows
<1>12. QED
  BY <1>11 DEF x, x2, W

\* The thread that moves.
LEMMA OwnFollows ==
  ASSUME IInv, NEW t \in Threads, NEW nx, Moves(t, nx), NEW c,
         Crossed(t, c), ThreadOK(nx, tree', c)
  PROVE  Follows(nx, th'[t], c, cell', {})
<1> DEFINE x2 == th'[t]
           rep == Repaired(th[t], nx)
           N == [v \in Threads |-> After(t, nx, v)]
<1>1. ThreadOK(nx, tree', c) /\ After(t, nx, t) = nx
  BY DEF After
<1>2. /\ nx.linked \in BOOLEAN /\ nx.clash \in BOOLEAN /\ (~Busy(nx) => ~nx.clash)
      /\ Busy(nx) => nx.req \in AllRequests
  BY <1>1, ThreadFields
<1>3. /\ Marked(nx, x2) /\ x2.clash \in BOOLEAN /\ (x2.clash => nx.clash \/ Busy(nx))
      /\ (nx.clash => x2.clash)
  BY <1>1, AfterFacts
<1>4. /\ x2.linked = nx.linked /\ x2.req = nx.req
      /\ x2 = [req |-> nx.req, prog |-> nx.prog, got |-> nx.got, linked |-> x2.linked,
               clash |-> x2.clash, answer |-> nx.answer]
  BY <1>3 DEF Marked
<1>5. ASSUME Writing(nx), NEW i \in Writes(nx.req), Alone(x2, cell', i)
      PROVE  Alone(nx, c, i) /\ (cell'[i] = c[i] \/ cell'[i] \in Damaged)
  <2>1. Busy(nx) /\ i \in Items /\ rep = {}
    BY <1>2, <1>5, RequestKinds DEF Writing, Busy, Repaired
  <2>2. WritesTo(N[t], i)
    BY <1>1, <1>5 DEF WritesTo
  <2>3. IF cell[i] \in Damaged /\ i \notin rep THEN cell'[i] = cell[i]
        ELSE IF ~\E v \in Threads : WritesTo(N[v], i) THEN cell'[i] = Stored(tree', i)
        ELSE IF \E w \in Threads : \E v \in Threads \ {w} : WritesTo(N[w], i) /\ WritesTo(N[v], i)
             THEN cell'[i] = "overlap" ELSE cell'[i] = cell[i]
    BY <2>1, NotedItems DEF Moves
  <2>4. cell'[i] = cell[i] \/ cell'[i] \in Damaged
    BY <2>2, <2>3 DEF Damaged
  <2>5. ASSUME NEW u \in Threads \ {t}, WritesTo(th[u], i) PROVE FALSE
    <3>1. WritesTo(N[u], i)
      BY <2>5, AfterFacts DEF WritesTo
    <3>2. cell'[i] \in Damaged
      BY <2>2, <2>3, <3>1 DEF Damaged
    <3>3. Disturbing(After(t, nx, u), nx)
      BY <1>5, <3>1 DEF WritesTo, Disturbing, Touches
    <3>4. x2.clash
      BY <1>1, <2>1, <3>3, AfterFacts
    <3>5. QED
      BY <1>5, <3>2, <3>4 DEF Alone
  <2>6. c[i] = cell[i]
    BY <2>1, <2>5 DEF Crossed
  <2>7. Alone(nx, c, i)
    BY <1>3, <1>5, <2>4, <2>6 DEF Alone
  <2>8. QED
    BY <2>4, <2>6, <2>7
<1>6. nx.prog = <<>> => ~x2.clash
  BY <1>2, <1>3 DEF Busy
<1> HIDE DEF x2
<1>7. Follows(nx, x2, c, cell', {})
  BY <1>2, <1>3, <1>4, <1>5, <1>6 DEF Follows
<1>8. QED
  BY <1>7 DEF x2

LEMMA MovedThreads ==
  ASSUME IInv, NEW t \in Threads, NEW nx, Moves(t, nx), NEW u \in Threads
  PROVE  ThreadOK(th'[u], tree', cell')
<1>1. CASE u = t
  <2>1. PICK c : Crossed(t, c) /\ ThreadOK(nx, tree', c)
    BY DEF Moves
  <2>2. Follows(nx, th'[t], c, cell', {})
    BY <2>1, OwnFollows
  <2>3. ThreadOK(nx, tree', c) /\ Frame({}, tree', tree')
    BY <2>1 DEF Frame, SameParts
  <2>4. ThreadOK(th'[t], tree', cell')
    BY <2>2, <2>3, ThreadKept
  <2>5. QED
    BY <1>1, <2>4
<1>2. CASE u # t
  <2>1. Follows(th[u], th'[u], cell, cell', Written(th[t]))
    BY <1>2, OthersFollow
  <2>2. ThreadOK(th[u], tree, cell) /\ Frame(Written(th[t]), tree, tree')
    BY DEF IInv, Moves, Moved
  <2>3. IsThread(th[u]) /\ th[u].linked \in BOOLEAN
    BY <2>2, ThreadFields
  <2>4. th'[u].linked = Cut(th[u], tree, tree').linked
    <3>1. Marked(After(t, nx, u), th'[u]) /\ After(t, nx, u) = Cut(th[u], tree, tree')
      BY <1>2, AfterFacts
    <3>2. QED
      BY <3>1, MarkedFacts
  <2>5. th'[u].linked => th[u].linked
    BY <2>1 DEF Follows
  <2>6. th'[u].linked /\ HasFile(tree, Next1(th[u]).path) => HasFile(tree', Next1(th[u]).path)
    BY <2>2, <2>3, <2>4, <2>5, CutFacts, LinkedFills
  <2>7. QED
    BY <2>1, <2>2, <2>6, ThreadKept
<1>3. QED
  BY <1>1, <1>2

LEMMA MovedHistory ==
  ASSUME IInv, NEW t \in Threads, NEW nx, Moves(t, nx)
  PROVE  HistoryOK'
<1> DEFINE N == [v \in Threads |-> After(t, nx, v)]
           rep == Repaired(th[t], nx)
           x == th[t]
<1>1. \A v \in Threads : N[v] = After(t, nx, v)
  OBVIOUS
<1>2. Noted(N, rep) /\ Moved(x, nx, tree, tree', cell)
  BY DEF Moves
<1> HIDE DEF N
<1>3. ASSUME NEW v \in Threads
      PROVE  /\ th'[v].req = N[v].req /\ (Busy(th'[v]) <=> Busy(N[v]))
             /\ (Writing(th'[v]) <=> Writing(N[v])) /\ Touches(th'[v]) = Touches(N[v])
  <2>1. Marked(N[v], th'[v])
    BY <1>1, AfterFacts
  <2>2. QED
    BY <2>1, MarkedFacts
<1>4. ASSUME NEW u \in Threads, NEW v \in Threads \ {u},
             Busy(th'[u]), Writing(th'[v]), Writes(th'[v].req) \cap Touches(th'[u]) # {}
      PROVE  th'[u].clash
  <2>1. Busy(N[u]) /\ Disturbing(N[v], N[u])
    BY <1>3, <1>4 DEF Disturbing
  <2>2. QED
    BY <1>1, <2>1, AfterFacts
<1>5. ASSUME NEW v \in Threads, NEW i PROVE WritesTo(N[v], i) <=> WritesTo(th'[v], i)
  BY <1>3 DEF WritesTo
<1>6. ASSUME NEW i \in Items
      PROVE  /\ cell'[i] \in Contents \cup {Absent} \cup Damaged
             /\ cell'[i] \notin Damaged => \/ \E v \in Threads : WritesTo(th'[v], i)
                                           \/ cell'[i] = Stored(tree', i)
             /\ \A v \in Threads : \A w \in Threads \ {v} :
                    WritesTo(th'[v], i) /\ WritesTo(th'[w], i) => cell'[i] \in Damaged
  <2>1. IF cell[i] \in Damaged /\ i \notin rep THEN cell'[i] = cell[i]
        ELSE IF ~\E v \in Threads : WritesTo(N[v], i) THEN cell'[i] = Stored(tree', i)
        ELSE IF \E w \in Threads : \E v \in Threads \ {w} : WritesTo(N[w], i) /\ WritesTo(N[v], i)
             THEN cell'[i] = "overlap" ELSE cell'[i] = cell[i]
    BY <1>2, NotedItems
  <2>2. cell[i] \in Contents \cup {Absent} \cup Damaged
    BY DEF IInv, HistoryOK
  <2>3. ASSUME cell[i] \notin Damaged \/ i \in rep, ~\E v \in Threads : WritesTo(N[v], i)
        PROVE  Stored(tree', i) \in Contents \cup {Absent}
    <3>1. CASE WritesTo(x, i)
      <4>1. N[t] = nx
        BY <1>1 DEF After
      <4>2. nx.prog = <<>>
        BY <1>2, <2>3, <3>1, <4>1 DEF Moved, WritesTo, Writing
      <4>3. i \in Written(x) /\ Alone(x, cell, i)
        BY <2>3, <3>1 DEF Written, WritesTo, Alone, Repaired
      <4>4. Final(x, tree', cell, i)
        BY <1>2, <4>2, <4>3 DEF Moved
      <4>5. x.req \in AllRequests /\ Writes(x.req) # {}
        BY <3>1, ThreadFields DEF IInv, WritesTo, Writing
      <4>6. CASE Stored(tree', i) = Leaves(x.req)
        BY <4>5, <4>6, RequestKinds
      <4>7. CASE x.clash /\ Untouched(tree', cell, i)
        <5>1. cell[i] \notin Damaged
          BY <2>3, <4>2, <4>7 DEF Repaired
        <5>2. QED
          BY <2>2, <4>7, <5>1 DEF Untouched
      <4>8. QED
        BY <4>4, <4>6, <4>7 DEF Final
    <3>2. CASE ~WritesTo(x, i)
      <4>1. i \notin Written(x) /\ cell[i] \notin Damaged
        BY <2>3, <3>2 DEF Written, WritesTo, Repaired
      <4>2. ASSUME NEW v \in Threads PROVE ~WritesTo(th[v], i)
        <5>1. CASE v = t
          BY <3>2, <5>1
        <5>2. CASE v # t
          BY <1>1, <2>3, <5>2, AfterFacts DEF WritesTo
        <5>3. QED
          BY <5>1, <5>2
      <4>3. cell[i] = Stored(tree, i)
        BY <4>1, <4>2 DEF IInv, HistoryOK, At2, WritesTo
      <4>4. Stored(tree', i) = Stored(tree, i)
        BY <1>2, <4>1, FrameFacts DEF Moved
      <4>5. QED
        BY <2>2, <4>1, <4>3, <4>4
    <3>3. QED
      BY <3>1, <3>2
  <2>4. cell'[i] \in Contents \cup {Absent} \cup Damaged
    BY <2>1, <2>2, <2>3 DEF Damaged
  <2>5. cell'[i] \notin Damaged => \/ \E v \in Threads : WritesTo(N[v], i)
                                   \/ cell'[i] = Stored(tree', i)
    BY <2>1 DEF Damaged
  <2>6. \A v \in Threads : \A w \in Threads \ {v} :
            WritesTo(N[v], i) /\ WritesTo(N[w], i) => cell'[i] \in Damaged
    BY <2>1 DEF Damaged
  <2>7. QED
    BY <1>5, <2>4, <2>5, <2>6
<1>7. cell' = [i \in Items |-> cell'[i]]
  BY <1>2, NotedItems, ItemParts
<1>8. QED
  BY <1>4, <1>6, <1>7 DEF HistoryOK, At2, WritesTo

LEMMA MovedFiles ==
  ASSUME IInv, NEW t \in Threads, NEW nx, Moves(t, nx)
  PROVE  EmptyOnlyByCrash'
<1> DEFINE N == [v \in Threads |-> After(t, nx, v)]
           rep == Repaired(th[t], nx)
           x == th[t]
<1>1. Noted(N, rep) /\ Moved(x, nx, tree, tree', cell)
  BY DEF Moves
<1>2. SUFFICES ASSUME NEW p \in DOMAIN tree'.files, tree'.files[p] = Empty
               PROVE  \/ \E u \in Threads : FillsLinked(th'[u], p)
                      \/ cell'[Front(p)] = "crash"
  BY DEF EmptyOnlyByCrash, FillsLinked, At
<1> DEFINE i == Front(p)
<1>3. i \in Items /\ p \in PartsOf(i) /\ TreeOK(tree')
  BY <1>1, <1>2 DEF Moved, TreeOK
<1>4. CASE FillsLinked(nx, p)
  <2>1. Marked(nx, th'[t])
    BY AfterFacts
  <2>2. QED
    BY <1>4, <2>1, MarkedFacts DEF FillsLinked
<1>5. CASE HasFile(tree, p) /\ tree.files[p] = Empty /\ ~FillsLinked(x, p)
  <2>1. (\E u \in Threads : FillsLinked(th[u], p)) \/ cell[i] = "crash"
    BY <1>5 DEF IInv, EmptyOnlyByCrash, HasFile, FillsLinked, At
  <2>2. ASSUME NEW u \in Threads, FillsLinked(th[u], p) PROVE FillsLinked(th'[u], p)
    <3>1. u # t
      BY <1>5, <2>2
    <3>2. IsThread(th[u]) /\ th[u].linked \in BOOLEAN
      BY ThreadFields DEF IInv
    <3>3. Cut(th[u], tree, tree') = th[u]
      BY <1>2, <2>2, <3>2, CutFacts DEF FillsLinked, HasFile
    <3>4. Marked(th[u], th'[u])
      BY <3>1, <3>3, AfterFacts
    <3>5. QED
      BY <2>2, <3>4, MarkedFacts DEF FillsLinked
  <2>3. ASSUME cell[i] = "crash" PROVE cell'[i] = "crash"
    <3>1. i \notin rep
      <4> SUFFICES ASSUME i \in rep PROVE FALSE
        OBVIOUS
      <4>1. nx.prog = <<>> /\ i \in Written(x) /\ Writing(x) /\ i \in Writes(x.req) /\ ~x.clash
        BY DEF Repaired, Written
      <4>2. Stored(tree', i) = Leaves(x.req)
        BY <1>1, <4>1 DEF Moved, Alone, Final
      <4>3. x.req \in AllRequests
        BY <4>1, ThreadFields DEF IInv, Writing
      <4>4. Leaves(x.req) \in Contents \/ Leaves(x.req) = Absent
        BY <4>1, <4>3, RequestKinds
      <4>5. CASE Leaves(x.req) \in Contents
        BY <1>2, <1>3, <4>2, <4>5, StoredFacts, ContentsDiffer
      <4>6. CASE Leaves(x.req) = Absent
        BY <1>2, <1>3, <4>2, <4>6, StoredFacts DEF Parts
      <4>7. QED
        BY <4>4, <4>5, <4>6
    <3>2. cell[i] \in Damaged
      BY <2>3 DEF Damaged
    <3>3. QED
      BY <1>1, <1>3, <2>3, <3>1, <3>2, NotedItems
  <2>4. QED
    BY <2>1, <2>2, <2>3
<1>6. QED
  BY <1>1, <1>2, <1>4, <1>5 DEF Moved

\* So a step keeps the invariant when it does what Moved says.
LEMMA MovesKeep ==
  ASSUME IInv, NEW t \in Threads, NEW nx, Moves(t, nx)
  PROVE  IInv'
<1>1. TreeOK(tree')
  BY DEF Moves, Moved
<1>2. th' = [u \in Threads |-> th'[u]] /\ requests' = requests
  BY DEF Moves, Noted
<1>3. \A u \in Threads : ThreadOK(th'[u], tree', cell')
  BY MovedThreads
<1>4. HistoryOK' /\ EmptyOnlyByCrash'
  BY MovedHistory, MovedFiles
<1>5. QED
  BY <1>1, <1>2, <1>3, <1>4 DEF IInv

-----------------------------------------------------------------------------
\* The steps one by one: each is such a step.

\* What a step makes of a thread at y that has the instructions rest to go and that
\* answers a if there are none.
On(y, rest) == [y EXCEPT !.prog = rest]
NextOf(y, rest, a) ==
    IF rest # <<>> THEN On(y, rest)
    ELSE [Idle EXCEPT !.answer = IF y.clash THEN "unknown" ELSE a]

LEMMA IdleFields ==
  /\ IsThread(Idle) /\ Idle.req = NoRequest /\ Idle.prog = <<>> /\ Idle.got = <<>>
  /\ Idle.linked = FALSE /\ Idle.clash = FALSE /\ Idle.answer = "none"
<1>1. ASSUME NEW f
      PROVE  LET x == [req |-> NoRequest, prog |-> <<>>, got |-> <<>>, linked |-> f, clash |-> f,
                       answer |-> "none"] IN
             /\ IsThread(x) /\ x.req = NoRequest /\ x.prog = <<>> /\ x.got = <<>>
             /\ x.linked = f /\ x.clash = f /\ x.answer = "none"
  BY DEF IsThread, Marked
<1>2. QED
  BY <1>1, Zenon DEF Idle

LEMMA AnswerNext ==
  ASSUME NEW y, IsThread(y), NEW b
  PROVE  LET x == [y EXCEPT !.answer = b] IN
         /\ IsThread(x) /\ x.prog = y.prog /\ x.req = y.req /\ x.got = y.got
         /\ x.linked = y.linked /\ x.clash = y.clash /\ x.answer = b
  BY DEF IsThread, Marked

LEMMA IdleNext ==
  ASSUME NEW x, NEW b, x = [Idle EXCEPT !.answer = b], NEW tr, NEW c
  PROVE  ThreadOK(x, tr, c) /\ x.prog = <<>> /\ x.req = NoRequest /\ ~x.clash /\ x.answer = b
<1>1. /\ IsThread(x) /\ x.prog = <<>> /\ x.req = NoRequest /\ x.got = <<>>
      /\ x.linked = FALSE /\ x.clash = FALSE /\ x.answer = b
  BY IdleFields, AnswerNext, ZenonT(30)
<1>2. QED
  BY <1>1 DEF ThreadOK, IsThread, Marked

LEMMA OnNext ==
  ASSUME NEW y, IsThread(y), NEW rest
  PROVE  LET x == On(y, rest) IN
         /\ IsThread(x) /\ x.prog = rest /\ x.req = y.req /\ x.got = y.got
         /\ x.linked = y.linked /\ x.clash = y.clash /\ x.answer = y.answer
  BY DEF On, IsThread, Marked

\* The same thread with other things read, or with a file opened or closed.
LEMMA GotNext ==
  ASSUME NEW y, IsThread(y), NEW got
  PROVE  LET x == [y EXCEPT !.got = got] IN
         /\ IsThread(x) /\ x.prog = y.prog /\ x.req = y.req /\ x.got = got
         /\ x.linked = y.linked /\ x.clash = y.clash /\ x.answer = y.answer
  BY DEF IsThread, Marked

LEMMA LinkedNext ==
  ASSUME NEW y, IsThread(y), NEW b
  PROVE  LET x == [y EXCEPT !.linked = b] IN
         /\ IsThread(x) /\ x.prog = y.prog /\ x.req = y.req /\ x.got = y.got
         /\ x.linked = b /\ x.clash = y.clash /\ x.answer = y.answer
  BY DEF IsThread, Marked

\* No file goes away.
FilesStay(tr, tr2) == \A p : HasFile(tr, p) => HasFile(tr2, p)

LEMMA NotedMoves ==
  ASSUME IInv, NEW t \in Threads, NEW nx, NEW rep, rep = Repaired(th[t], nx),
         Noted([th EXCEPT ![t] = nx], rep), FilesStay(tree, tree')
  PROVE  Noted([u \in Threads |-> After(t, nx, u)], Repaired(th[t], nx))
<1>1. th = [u \in Threads |-> th[u]]
  BY DEF IInv
<1>2. [th EXCEPT ![t] = nx] = [u \in Threads |-> IF u = t THEN nx ELSE th[u]]
  BY <1>1
<1>3. \A u \in Threads : After(t, nx, u) = IF u = t THEN nx ELSE th[u]
  BY DEF After, Cut, FilesStay
<1>4. [th EXCEPT ![t] = nx] = [u \in Threads |-> After(t, nx, u)]
  BY <1>2, <1>3
<1>5. QED
  BY <1>4

LEMMA GoesMoves ==
  ASSUME IInv, NEW t \in Threads, NEW y, NEW rest, NEW a, GoesOn(t, y, rest, a),
         IsThread(y), y.req = th[t].req, y.prog = th[t].prog, y.clash = th[t].clash,
         FilesStay(tree, tree')
  PROVE  Noted([u \in Threads |-> After(t, NextOf(y, rest, a), u)],
               Repaired(th[t], NextOf(y, rest, a)))
<1> DEFINE nx == NextOf(y, rest, a)
<1>1. Writing(y) <=> Writing(th[t])
  BY DEF Writing, Busy, Next1
<1>2. CASE rest # <<>>
  <2>1. nx = On(y, rest) /\ nx.prog = rest
    BY <1>2, OnNext DEF NextOf
  <2>2. Repaired(th[t], nx) = {}
    BY <1>2, <2>1 DEF Repaired
  <2>3. Noted([th EXCEPT ![t] = nx], {})
    BY <1>2, <2>1 DEF GoesOn, On
  <2> HIDE DEF nx
  <2>4. QED
    BY <2>2, <2>3, NotedMoves DEF nx
<1>3. CASE rest = <<>>
  <2> DEFINE rep == IF Writing(y) /\ ~y.clash THEN Writes(y.req) ELSE {}
  <2>1. nx = [Idle EXCEPT !.answer = IF y.clash THEN "unknown" ELSE a]
    BY <1>3 DEF NextOf
  <2>2. nx.prog = <<>>
    BY <2>1, IdleNext, Zenon
  <2>3. rep = Repaired(th[t], nx)
    BY <1>1, <2>2 DEF Repaired, Written
  <2>4. Noted([th EXCEPT ![t] = nx], rep)
    BY <1>3, <2>1 DEF GoesOn
  <2> HIDE DEF nx, rep
  <2>5. QED
    BY <2>3, <2>4, NotedMoves DEF nx
<1>4. QED
  BY <1>2, <1>3

LEMMA CrossedSame == \A t : Crossed(t, cell)
  BY DEF Crossed

LEMMA ToldOn ==
  ASSUME NEW x, NEW nx, NEW c, Busy(x), nx.prog # <<>>, nx.answer = x.answer,
         Writing(nx) => Writing(x) \/ x.clash \/ Permitted(x.req, c)
  PROVE  Told(x, nx, c)
  BY DEF Told

LEMMA ToldEnd ==
  ASSUME NEW x, NEW nx, NEW c, NEW a, Busy(x), x.clash \in BOOLEAN,
         nx = [Idle EXCEPT !.answer = IF x.clash THEN "unknown" ELSE a],
         x.clash \/ (Writing(x) /\ a = "ok") \/ (~Writing(x) /\ Replies(x.req, c, a))
  PROVE  Told(x, nx, c)
<1> DEFINE b == IF x.clash THEN "unknown" ELSE a
<1>1. nx.prog = <<>> /\ nx.answer = b
  BY IdleNext, Zenon
<1>2. ~Writing(nx)
  BY <1>1 DEF Writing, Busy
<1>3. CASE x.clash
  BY <1>1, <1>2, <1>3 DEF Told
<1>4. CASE ~x.clash
  BY <1>1, <1>2, <1>4 DEF Told
<1>5. QED
  BY <1>3, <1>4

\* A step that leaves the files alone.
LEMMA StillMoves ==
  ASSUME IInv, NEW t \in Threads, NEW nx, NEW c,
         Noted([u \in Threads |-> After(t, nx, u)], Repaired(th[t], nx)), tree' = tree,
         Crossed(t, c), ThreadOK(nx, tree, c), Told(th[t], nx, cell), \A p : ~FillsLinked(th[t], p),
         nx.prog # <<>> => /\ nx.clash = th[t].clash /\ (Busy(th[t]) => nx.req = th[t].req)
                           /\ (Writing(th[t]) => Writing(nx)),
         nx.prog = <<>> => \A i \in Written(th[t]) : ~Alone(th[t], cell, i) \/ Final(th[t], tree, cell, i)
  PROVE  Moves(t, nx)
<1>1. TreeOK(tree) /\ Frame(Written(th[t]), tree, tree)
  BY DEF IInv, Frame, SameParts
<1>2. Moved(th[t], nx, tree, tree', cell)
  BY <1>1 DEF Moved, HasFile
<1>3. QED
  BY <1>2 DEF Moves

LEMMA StartMoves ==
  ASSUME IInv, NEW t \in Threads, NEW r \in requests, Start(t, r)
  PROVE  LET nx == [Idle EXCEPT !.req = r, !.prog = Program(r)] IN
         /\ Moves(t, nx)
         /\ nx.prog # <<>> /\ nx.req = r /\ ~nx.clash /\ nx.answer = "none"
<1> DEFINE nx == [Idle EXCEPT !.req = r, !.prog = Program(r)]
           P == Program(r)
<1>1. /\ nx.req = r /\ nx.prog = P /\ nx.got = <<>> /\ ~nx.linked /\ ~nx.clash
      /\ nx.linked \in BOOLEAN /\ nx.clash \in BOOLEAN /\ IsThread(nx) /\ nx.answer = "none"
  <2> DEFINE y == [Idle EXCEPT !.req = r]
  <2>1. /\ IsThread(y) /\ y.req = r /\ y.prog = <<>> /\ y.got = <<>>
        /\ y.linked = FALSE /\ y.clash = FALSE /\ y.answer = "none"
    BY IdleFields DEF IsThread, Marked
  <2>2. nx = On(y, P)
    BY IdleFields DEF On, IsThread, Marked
  <2> HIDE DEF y, nx, P
  <2>3. /\ IsThread(nx) /\ nx.req = r /\ nx.prog = P /\ nx.got = <<>>
        /\ nx.linked = FALSE /\ nx.clash = FALSE /\ nx.answer = "none"
    BY <2>1, <2>2, OnNext
  <2>4. QED
    BY <2>3
<1>2. r \in UNION Workloads /\ r \in AllRequests
  BY KnownRequests DEF IInv
<1>3. IsSeq(P) /\ Len(P) \in Nat /\ Len(P) >= 2 /\ AdmitAt(r) \in Nat /\ AdmitAt(r) >= 1
  BY <1>2, ProgramFacts
<1>4. P = From(P, 1) /\ P # <<>>
  <2>1. PICK S : P \in Seq(S)
    BY <1>3 DEF IsSeq
  <2>2. From(P, 1) \in Seq(S) /\ Len(From(P, 1)) = Len(P) /\ \A k \in 1..Len(P) : From(P, 1)[k] = P[k]
    BY <1>3, <2>1, SubSeqProperties DEF From
  <2>3. QED
    BY <1>3, <2>1, <2>2, SeqEqual
<1> HIDE DEF nx, P
<1>5. Reading(nx, tree, 1)
  <2>1. nx.got \in Seq(Fillings \cup {Absent}) /\ Len(nx.got) = 1 - 1
    BY <1>1
  <2>2. 1 \in 1..Len(P) /\ 1 <= AdmitAt(r) /\ \A m \in 1..1 - 1 : FALSE
    BY <1>3
  <2>3. QED
    BY <1>1, <1>4, <2>1, <2>2 DEF Reading, P
<1>6. ThreadOK(nx, tree, cell)
  <2>1. 1 \in 1..Len(Program(nx.req))
    BY <1>1, <1>3 DEF P
  <2>2. nx = [req |-> nx.req, prog |-> nx.prog, got |-> nx.got, linked |-> nx.linked,
              clash |-> nx.clash, answer |-> nx.answer]
    BY <1>1 DEF IsThread, Marked
  <2>3. QED
    BY <1>1, <1>2, <1>4, <1>5, <2>1, <2>2 DEF ThreadOK
<1>7. ~Busy(th[t]) /\ tree' = tree /\ Noted([th EXCEPT ![t] = nx], {})
  BY DEF Start, nx
<1>8. ~Writing(th[t]) /\ th[t].clash = FALSE /\ \A p : ~FillsLinked(th[t], p)
  BY <1>7, ThreadFields DEF Writing, FillsLinked, IInv
<1>9. Repaired(th[t], nx) = {}
  BY <1>8 DEF Repaired, Written
<1>10. Noted([u \in Threads |-> After(t, nx, u)], Repaired(th[t], nx))
  BY <1>7, <1>9, NotedMoves DEF FilesStay
<1>11. nx.prog # <<>> /\ nx.clash = th[t].clash
  BY <1>1, <1>4, <1>8
<1>12. Told(th[t], nx, cell)
  <2>1. ~Writing(nx)
    BY <1>1, <1>2, <1>5, ReadingNext
  <2>2. QED
    BY <1>1, <1>7, <1>11, <2>1 DEF Told
<1>13. Moves(t, nx)
  BY <1>6, <1>7, <1>8, <1>10, <1>11, <1>12, CrossedSame, StillMoves
<1>14. QED
  BY <1>1, <1>11, <1>13 DEF nx

\* What a thread is at tells what it is doing.
LEMMA Doing ==
  ASSUME IInv, NEW t \in Threads, Busy(th[t])
  PROVE  LET x == th[t]
             at == 1..Len(Program(x.req)) IN
         /\ x.req \in AllRequests /\ x.req \in UNION Workloads /\ IsThread(x)
         /\ x.clash \in BOOLEAN /\ x.linked \in BOOLEAN /\ ThreadOK(x, tree, cell)
         /\ Next1(x).do \in {"read", "admit"} => \E n \in at : Reading(x, tree, n)
         /\ Next1(x).do \in {"mkdir", "open", "fill"} => \E n \in at : Storing(x, tree, cell, n)
         /\ Next1(x).do \in {"opendir", "clear"} => Removing(x, tree, cell)
<1> DEFINE x == th[t]
           P == Program(x.req)
<1>1. ThreadOK(x, tree, cell)
  BY DEF IInv
<1>2. /\ x.req \in AllRequests /\ x.req \in UNION Workloads /\ IsThread(x)
      /\ x.clash \in BOOLEAN /\ x.linked \in BOOLEAN
  BY <1>1, ThreadFields
<1>3. (\E n \in 1..Len(P) : Reading(x, tree, n) \/ Storing(x, tree, cell, n))
        \/ Removing(x, tree, cell)
  BY <1>1 DEF ThreadOK, Busy
<1>4. ASSUME NEW n \in 1..Len(P), Reading(x, tree, n) PROVE Next1(x).do \in {"read", "admit"}
  <2>1. n <= AdmitAt(x.req) /\ n \in Nat /\ AdmitAt(x.req) \in Nat
        /\ (n < AdmitAt(x.req) => ReadsOnly(x.req, Next1(x)))
        /\ (n = AdmitAt(x.req) => Next1(x).do = "admit")
    BY <1>2, <1>4, ReadingNext, ProgramFacts
  <2>2. QED
    BY <2>1 DEF ReadsOnly
<1>5. ASSUME NEW n \in 1..Len(P), Storing(x, tree, cell, n)
      PROVE  Next1(x).do \in {"mkdir", "open", "fill"}
  <2>1. \/ MakesDir(P, AdmitAt(x.req), n, Target(x.req)) /\ Next1(x) = P[n]
        \/ OpensPart(P, AdmitAt(x.req), n, Target(x.req), Leaves(x.req)) /\ Next1(x) \in {P[n], Fill(P[n])}
    BY <1>2, <1>5, StoringNext
  <2>2. QED
    BY <2>1, InstructionFields, OpenFields DEF MakesDir, OpensPart
<1>6. Removing(x, tree, cell) => Next1(x).do \in {"opendir", "clear"}
  BY <1>2, RemovingNext
<1> HIDE DEF x
<1>7. QED
  BY <1>1, <1>2, <1>3, <1>4, <1>5, <1>6 DEF x

LEMMA NotFilling ==
  ASSUME NEW x, Next1(x).do # "fill" \/ ~x.linked
  PROVE  \A p : ~FillsLinked(x, p)
  BY DEF FillsLinked

\* A request that is through, or has failed, before it writes.
LEMMA EndsMove ==
  ASSUME IInv, NEW t \in Threads, Busy(th[t]), ~Writing(th[t]), ~th[t].linked, tree' = tree,
         NEW y, IsThread(y), y.req = th[t].req, y.prog = th[t].prog, y.clash = th[t].clash,
         NEW a, GoesOn(t, y, <<>>, a), th[t].clash \/ Replies(th[t].req, cell, a)
  PROVE  Moves(t, NextOf(y, <<>>, a))
<1> DEFINE nx == NextOf(y, <<>>, a)
           b == IF y.clash THEN "unknown" ELSE a
<1>1. nx = [Idle EXCEPT !.answer = b]
  BY DEF NextOf
<1> HIDE DEF nx, b
<1>2. ThreadOK(nx, tree, cell) /\ nx.prog = <<>>
  BY <1>1, IdleNext, Zenon
<1>3. Noted([u \in Threads |-> After(t, nx, u)], Repaired(th[t], nx))
  BY GoesMoves DEF FilesStay, nx
<1>4. Written(th[t]) = {}
  BY DEF Written
<1>5. \A p : ~FillsLinked(th[t], p)
  BY NotFilling
<1>6. Told(th[t], nx, cell)
  <2>1. th[t].clash \in BOOLEAN
    BY Doing
  <2>2. QED
    BY <1>1, <2>1, ToldEnd DEF b
<1>7. Moves(t, nx)
  BY <1>2, <1>3, <1>4, <1>5, <1>6, CrossedSame, StillMoves
<1>8. QED
  BY <1>7 DEF nx

\* A request that goes on without touching the files.
LEMMA ContinuesMove ==
  ASSUME IInv, NEW t \in Threads, Busy(th[t]), tree' = tree, \A p : ~FillsLinked(th[t], p),
         NEW y, IsThread(y), y.req = th[t].req, y.prog = th[t].prog, y.clash = th[t].clash,
         y.answer = th[t].answer,
         NEW rest, rest # <<>>, NEW a, GoesOn(t, y, rest, a),
         NEW c, Crossed(t, c), ThreadOK(On(y, rest), tree, c),
         Writing(th[t]) => Writing(On(y, rest)),
         Writing(On(y, rest)) => Writing(th[t]) \/ th[t].clash \/ Permitted(th[t].req, cell)
  PROVE  Moves(t, On(y, rest))
<1> DEFINE nx == On(y, rest)
<1>1. nx.prog = rest /\ nx.req = th[t].req /\ nx.clash = th[t].clash /\ nx.answer = th[t].answer
  BY OnNext
<1>2. nx = NextOf(y, rest, a)
  BY DEF NextOf
<1>3. Noted([u \in Threads |-> After(t, nx, u)], Repaired(th[t], nx))
  BY <1>2, GoesMoves DEF FilesStay
<1> HIDE DEF nx
<1>4. ThreadOK(nx, tree, c) /\ (Writing(th[t]) => Writing(nx))
  BY DEF nx
<1>5. Told(th[t], nx, cell)
  BY <1>1, ToldOn DEF nx
<1>6. Moves(t, nx)
  BY <1>1, <1>3, <1>4, <1>5, StillMoves
<1>7. QED
  BY <1>6 DEF nx

\* What a thread reads of an item while nobody gets in its way, and nothing has damaged
\* the item, is its value.
LEMMA HeldValue ==
  ASSUME NEW tr, TreeOK(tr), NEW i \in Items, Stored(tr, i) \in Contents \cup {Absent},
         NEW p \in PartsOf(i)
  PROVE  Held(tr, p) = Stored(tr, i)
<1>1. CASE Stored(tr, i) = Absent
  BY <1>1, StoredFacts DEF Parts, Held, HasFile
<1>2. CASE Stored(tr, i) \in Contents
  BY <1>2, StoredFacts DEF Held
<1>3. QED
  BY <1>1, <1>2

LEMMA TrueValue ==
  ASSUME IInv, NEW t \in Threads, Busy(th[t]), ~Writing(th[t]), ~th[t].clash,
         NEW i \in Items, i \in Reads(th[t].req), cell[i] \notin Damaged
  PROVE  cell[i] \in Contents \cup {Absent} /\ \A p \in PartsOf(i) : Held(tree, p) = cell[i]
<1>1. ASSUME NEW u \in Threads PROVE ~At2(u, i)
  <2>1. SUFFICES ASSUME At2(u, i) PROVE FALSE
    OBVIOUS
  <2>2. u # t
    BY <2>1 DEF At2
  <2>3. i \in Writes(th[u].req) \cap Touches(th[t]) /\ Writing(th[u])
    BY <2>1 DEF At2, Touches
  <2>4. QED
    BY <2>2, <2>3 DEF IInv, HistoryOK
<1>2. cell[i] = Stored(tree, i) /\ cell[i] \in Contents \cup {Absent}
  BY <1>1 DEF IInv, HistoryOK
<1>3. TreeOK(tree)
  BY DEF IInv
<1>4. QED
  BY <1>2, <1>3, HeldValue

\* So is what it has read before.
LEMMA GotTrue ==
  ASSUME IInv, NEW t \in Threads, Busy(th[t]), NEW n, Reading(th[t], tree, n), ~th[t].clash,
         NEW i \in Reads(th[t].req), cell[i] \notin Damaged
  PROVE  /\ i \in Items /\ cell[i] \in Contents \cup {Absent}
         /\ \A m \in 1..n - 1 : th[t].got[m] = cell[i]
         /\ \A p \in PartsOf(i) : Held(tree, p) = cell[i]
<1> DEFINE x == th[t]
           P == Program(x.req)
<1>1. x.req \in AllRequests /\ Reads(x.req) \subseteq Items
  BY Doing, RequestKinds
<1>2. ~Writing(x) /\ n \in 1..Len(P) /\ n <= AdmitAt(x.req) /\ Len(P) \in Nat /\ AdmitAt(x.req) \in Nat
  BY <1>1, ReadingNext, ProgramFacts
<1>3. cell[i] \in Contents \cup {Absent} /\ \A p \in PartsOf(i) : Held(tree, p) = cell[i]
  BY <1>1, <1>2, TrueValue
<1>4. ASSUME NEW m \in 1..n - 1 PROVE x.got[m] = cell[i]
  <2>1. m \in 1..Len(P) /\ m < AdmitAt(x.req)
    BY <1>2
  <2>2. ReadsOnly(x.req, P[m])
    BY <1>1, <2>1, ReadFacts
  <2>3. P[m].path \in PartsOf(i)
    BY <2>2 DEF ReadsOnly
  <2>4. x.got[m] = Held(tree, P[m].path)
    BY <1>4 DEF Reading
  <2>5. QED
    BY <1>3, <2>3, <2>4
<1>5. QED
  BY <1>1, <1>3, <1>4

\* A file that must be there and is not: the answer is a failure, and rightly so.
LEMMA MissingReplies ==
  ASSUME IInv, NEW t \in Threads, Busy(th[t]), NEW n, Reading(th[t], tree, n), ~th[t].clash,
         NEW in, ReadsOnly(th[t].req, in), in.must, ~HasFile(tree, in.path)
  PROVE  Replies(th[t].req, cell, "fail")
<1> DEFINE r == th[t].req
           i == Front(in.path)
<1>1. /\ r \in AllRequests /\ i \in Items /\ Reads(r) = {i} /\ in.path \in PartsOf(i)
      /\ r.do # "set_block"
  BY Doing DEF ReadsOnly
<1> HIDE DEF i
<1>2. CASE cell[i] \in Damaged
  BY <1>1, <1>2 DEF Replies, Reply, Unsure
<1>3. CASE cell[i] \notin Damaged
  <2>1. cell[i] = Absent
    BY <1>1, <1>3, GotTrue DEF Held
  <2>2. Writes(r) = {} => Reply(r, cell, "fail")
    BY <1>1, <1>3, <2>1 DEF Reply
  <2>3. Writes(r) # {} => ~Allowed(r, cell)
    <3>1. CASE r.do = "insert_block"
      BY <1>1, <3>1 DEF Reads
    <3>2. CASE r.do = "rem_block"
      <4>1. i = BlockItem /\ r.old \in Values
        BY <1>1, <3>2, RequestFacts DEF Reads
      <4>2. Absent \notin Values
        BY ContentsDiffer DEF Fillings, Contents
      <4>3. QED
        BY <2>1, <3>2, <4>1, <4>2 DEF Allowed
    <3>3. CASE r.do = "set_token"
      <4>1. r.owner # r.user /\ i = TokenItem(r.owner, r.kind)
        BY <1>1, <3>3 DEF Reads
      <4>2. QED
        BY <2>1, <3>3, <4>1 DEF Allowed
    <3>4. CASE r.do = "del_token"
      <4>1. i = TokenItem(r.owner, "w")
        BY <1>1, <3>4 DEF Reads
      <4>2. QED
        BY <2>1, <3>4, <4>1 DEF Allowed
    <3>5. CASE r.do \in {"get_block", "get_token"}
      BY <3>5 DEF Writes
    <3>6. QED
      BY <1>1, <3>1, <3>2, <3>3, <3>4, <3>5, RequestFacts
  <2>4. QED
    BY <2>2, <2>3 DEF Replies
<1>4. QED
  BY <1>2, <1>3

LEMMA AgreedIs ==
  ASSUME NEW g \in Seq(Fillings \cup {Absent}), Len(g) = 2, g[1] # Absent
  PROVE  /\ Agreed(g) \in {"torn"} \cup Contents
         /\ g[1] = g[2] /\ g[1] \in Contents => Agreed(g) = g[1]
<1>1. g[1] \in Fillings
  OBVIOUS
<1>2. \A n \in 1..Len(g) : n = 1 \/ n = 2
  OBVIOUS
<1>3. 1 \in 1..Len(g)
  OBVIOUS
<1>4. CASE \A n \in 1..Len(g) : g[n] = g[1] /\ g[1] \notin {Empty, Mixed}
  <2>1. Agreed(g) = g[1]
    BY <1>4, Zenon DEF Agreed
  <2>2. g[1] \in Contents
    BY <1>1, <1>3, <1>4 DEF Fillings
  <2>3. QED
    BY <2>1, <2>2
<1>5. CASE ~(\A n \in 1..Len(g) : g[n] = g[1] /\ g[1] \notin {Empty, Mixed})
  <2>1. Agreed(g) = "torn"
    BY <1>5, Zenon DEF Agreed
  <2>2. ~(g[1] = g[2] /\ g[1] \in Contents)
    BY <1>2, <1>5, ContentsDiffer
  <2>3. QED
    BY <2>1, <2>2
<1>6. QED
  BY <1>4, <1>5

\* All files are read: the answer is what they say.
LEMMA ReadReplies ==
  ASSUME IInv, NEW t \in Threads, Busy(th[t]), NEW n, Reading(th[t], tree, n), ~th[t].clash,
         n = Len(Program(th[t].req)), n < AdmitAt(th[t].req),
         NEW in, in = Program(th[t].req)[n], ReadsOnly(th[t].req, in),
         HasFile(tree, in.path) \/ ~in.must,
         NEW got, got = Append(th[t].got, Held(tree, in.path))
  PROVE  Replies(th[t].req, cell, Agreed(got))
<1> DEFINE x == th[t]
           r == x.req
           i == Front(in.path)
           P == Program(r)
           v == Held(tree, in.path)
<1>1. /\ r \in AllRequests /\ i \in Items /\ Reads(r) = {i} /\ in.path \in PartsOf(i)
      /\ r.do # "set_block" => in.must
  BY Doing DEF ReadsOnly
<1>2. Writes(r) = {}
  BY <1>1, ProgramFacts
<1>3. r.do \in {"get_block", "get_token"}
  <2>1. r.do = "set_token" => TokenItem(r.user, r.kind) \in Writes(r)
    BY DEF Writes
  <2>2. r.do = "del_token" => TokenItem(r.user, "w") \in Writes(r)
    BY DEF Writes
  <2>3. r.do \in {"insert_block", "set_block", "rem_block"} => BlockItem \in Writes(r)
    BY DEF Writes
  <2>4. QED
    BY <1>1, <1>2, <2>1, <2>2, <2>3, RequestFacts
<1>4. Len(P) = 2 /\ P[1].must
  BY <1>1, <1>3, GetBlockProgram, GetTokenProgram
<1>5. in.must /\ HasFile(tree, in.path)
  BY <1>1, <1>3
<1>6. v \in Fillings
  BY <1>5 DEF Held, HasFile, IInv, TreeOK
<1>7. x.got \in Seq(Fillings \cup {Absent}) /\ Len(x.got) = 1 /\ x.got[1] # Absent
  BY <1>4 DEF Reading
<1> HIDE DEF v, i
<1>8. /\ got \in Seq(Fillings \cup {Absent}) /\ Len(got) = 2 /\ got[1] = x.got[1] /\ got[2] = v
  BY <1>6, <1>7, AppendProperties DEF v
<1>9. got[1] # Absent /\ Agreed(got) \in {"torn"} \cup Contents
      /\ (got[1] = got[2] /\ got[1] \in Contents => Agreed(got) = got[1])
  BY <1>7, <1>8, AgreedIs
<1>10. CASE cell[i] \in Damaged
  BY <1>1, <1>2, <1>9, <1>10 DEF Replies, Reply
<1>11. CASE cell[i] \notin Damaged
  <2>1. /\ cell[i] \in Contents \cup {Absent} /\ \A m \in 1..n - 1 : x.got[m] = cell[i]
        /\ v = cell[i]
    BY <1>1, <1>11, GotTrue DEF v
  <2>2. 1 \in 1..n - 1
    BY <1>4
  <2>3. got[1] = cell[i] /\ got[2] = cell[i] /\ cell[i] \in Contents /\ cell[i] # Absent
    BY <1>8, <1>9, <2>1, <2>2
  <2>4. Agreed(got) = cell[i]
    BY <1>9, <2>3
  <2>5. QED
    BY <1>1, <1>2, <1>11, <2>3, <2>4 DEF Replies, Reply
<1>12. QED
  BY <1>10, <1>11

LEMMA ReadMoves ==
  ASSUME IInv, NEW t \in Threads, Read(t)
  PROVE  \E nx : Moves(t, nx)
<1> DEFINE x == th[t]
           in == Next1(x)
           P == Program(x.req)
           v == IF HasFile(tree, in.path) THEN tree.files[in.path] ELSE Absent
           got == Append(x.got, v)
           y == [x EXCEPT !.got = got]
<1>1. /\ Busy(x) /\ in.do = "read" /\ tree' = tree
      /\ IF HasFile(tree, in.path) \/ ~in.must
         THEN GoesOn(t, y, Tail(x.prog), Agreed(got)) ELSE GoesOn(t, x, <<>>, "fail")
  BY DEF Read, At, Rest, Fails
<1>2. /\ x.req \in AllRequests /\ x.req \in UNION Workloads /\ IsThread(x)
      /\ x.clash \in BOOLEAN /\ x.linked \in BOOLEAN
  BY <1>1, Doing
<1>3. PICK n \in 1..Len(P) : Reading(x, tree, n)
  BY <1>1, Doing
<1>4. /\ ~Writing(x) /\ n <= AdmitAt(x.req) /\ ~x.linked
      /\ in = P[n] /\ Tail(x.prog) = From(P, n + 1)
      /\ n < AdmitAt(x.req) => ReadsOnly(x.req, in)
      /\ n = AdmitAt(x.req) => in.do = "admit"
  BY <1>2, <1>3, ReadingNext
<1>5. AdmitAt(x.req) \in Nat /\ Len(P) \in Nat /\ IsSeq(P)
  BY <1>2, ProgramFacts
<1>6. n < AdmitAt(x.req) /\ ReadsOnly(x.req, in)
  BY <1>1, <1>4, <1>5
<1>7. /\ IsThread(y) /\ y.req = x.req /\ y.prog = x.prog /\ y.clash = x.clash /\ y.got = got
      /\ y.linked = x.linked /\ y.answer = x.answer
  BY <1>2, GotNext, SMTT(30)
<1> HIDE DEF y
<1>8. CASE ~(HasFile(tree, in.path) \/ ~in.must)
  <2>1. GoesOn(t, x, <<>>, "fail")
    BY <1>1, <1>8
  <2>2. x.clash \/ Replies(x.req, cell, "fail")
    BY <1>1, <1>3, <1>6, <1>8, MissingReplies
  <2>3. QED
    BY <1>1, <1>2, <1>4, <2>1, <2>2, EndsMove
<1>9. CASE (HasFile(tree, in.path) \/ ~in.must) /\ n = Len(P)
  <2>1. PICK S : P \in Seq(S)
    BY <1>5 DEF IsSeq
  <2>2. Tail(x.prog) = <<>>
    <3>1. From(P, n + 1) = <<>>
      BY <1>9, <2>1, FromFacts
    <3>2. QED
      BY <1>4, <3>1
  <2>3. GoesOn(t, y, <<>>, Agreed(got))
    BY <1>1, <1>9, <2>2
  <2>4. x.clash \/ Replies(x.req, cell, Agreed(got))
    <3>1. v = Held(tree, in.path)
      BY DEF Held
    <3>2. QED
      BY <1>1, <1>3, <1>4, <1>6, <1>9, <3>1, ReadReplies
  <2>5. QED
    BY <1>1, <1>4, <1>7, <2>3, <2>4, EndsMove
<1>10. CASE (HasFile(tree, in.path) \/ ~in.must) /\ n # Len(P)
  <2> DEFINE rest == From(P, n + 1)
             nx == On(y, rest)
  <2>1. n + 1 \in 1..Len(P) /\ n + 1 <= AdmitAt(x.req)
    BY <1>5, <1>6, <1>10
  <2>2. rest # <<>>
    <3>1. PICK S : P \in Seq(S)
      BY <1>5 DEF IsSeq
    <3>2. QED
      BY <2>1, <3>1, FromFacts
  <2>3. GoesOn(t, y, rest, Agreed(got))
    BY <1>1, <1>4, <1>10
  <2>4. /\ IsThread(nx) /\ nx.prog = rest /\ nx.req = x.req /\ nx.got = got
        /\ nx.linked = x.linked /\ nx.clash = x.clash
    BY <1>7, OnNext
  <2>5. /\ x.got \in Seq(Fillings \cup {Absent}) /\ Len(x.got) = n - 1
        /\ \A m \in 1..n - 1 :
            (P[m].must => x.got[m] # Absent) /\ (~x.clash => x.got[m] = Held(tree, P[m].path))
    BY <1>3 DEF Reading
  <2>6. v \in Fillings \cup {Absent} /\ v = Held(tree, P[n].path) /\ (P[n].must => v # Absent)
    <3>1. HasFile(tree, in.path) => tree.files[in.path] \in Fillings
      BY DEF IInv, TreeOK, HasFile
    <3>2. QED
      BY <1>4, <1>10, <3>1, ContentsDiffer DEF Held
  <2> HIDE DEF v
  <2>7. /\ got \in Seq(Fillings \cup {Absent}) /\ Len(got) = n /\ got[n] = v
        /\ \A m \in 1..n - 1 : got[m] = x.got[m]
    BY <2>5, <2>6, AppendProperties
  <2>8. \A m \in 1..(n + 1) - 1 : m = n \/ m \in 1..n - 1
    OBVIOUS
  <2> HIDE DEF nx, rest
  <2>9. Reading(nx, tree, n + 1)
    <3>1. \A m \in 1..(n + 1) - 1 :
            (P[m].must => nx.got[m] # Absent) /\ (~nx.clash => nx.got[m] = Held(tree, P[m].path))
      BY <2>4, <2>5, <2>6, <2>7, <2>8
    <3>2. nx.got \in Seq(Fillings \cup {Absent}) /\ Len(nx.got) = (n + 1) - 1
      BY <2>4, <2>7
    <3>3. QED
      BY <1>4, <2>1, <2>4, <3>1, <3>2 DEF Reading, rest
  <2>10. ThreadOK(nx, tree, cell)
    BY <1>2, <1>4, <2>1, <2>2, <2>4, <2>9 DEF ThreadOK, IsThread, Marked
  <2>11. \A p : ~FillsLinked(x, p)
    BY <1>4, NotFilling
  <2>12. ~Writing(nx)
    BY <1>2, <2>4, <2>9, ReadingNext
  <2>13. Moves(t, nx)
    BY <1>1, <1>4, <1>7, <2>2, <2>3, <2>10, <2>11, <2>12, CrossedSame, ContinuesMove DEF nx
  <2>14. QED
    BY <2>13
<1>11. QED
  BY <1>8, <1>9, <1>10

\* The items at the moment when t starts to write.
Shared(t) == [i \in Items |->
    IF \E u \in Threads \ {t} : WritesTo(th[u], i) THEN "overlap" ELSE cell[i]]

LEMMA SharedFacts ==
  ASSUME IInv, NEW t \in Threads, ~Writing(th[t])
  PROVE  Crossed(t, Shared(t)) /\ \A i \in Items : Untouched(tree, Shared(t), i)
<1>1. ASSUME NEW i \in Items, \E u \in Threads \ {t} : WritesTo(th[u], i)
      PROVE  Shared(t)[i] \in Damaged
  BY <1>1 DEF Shared, Damaged
<1>2. ASSUME NEW i \in Items, ~\E u \in Threads \ {t} : WritesTo(th[u], i)
      PROVE  Shared(t)[i] = cell[i] /\ (cell[i] \in Damaged \/ cell[i] = Stored(tree, i))
  <2>1. Shared(t)[i] = cell[i]
    BY <1>2 DEF Shared
  <2>2. ~\E u \in Threads : At2(u, i)
    BY <1>2 DEF At2, WritesTo
  <2>3. QED
    BY <2>1, <2>2 DEF IInv, HistoryOK
<1>3. ASSUME NEW i \in Items
      PROVE  /\ \/ Shared(t)[i] = cell[i]
                \/ Shared(t)[i] \in Damaged /\ \E u \in Threads \ {t} : WritesTo(th[u], i)
             /\ Untouched(tree, Shared(t), i)
  <2>1. CASE \E u \in Threads \ {t} : WritesTo(th[u], i)
    BY <1>1, <2>1 DEF Untouched
  <2>2. CASE ~\E u \in Threads \ {t} : WritesTo(th[u], i)
    BY <1>2, <2>2 DEF Untouched
  <2>3. QED
    BY <2>1, <2>2
<1>4. QED
  BY <1>3 DEF Crossed

LEMMA LastOne ==
  ASSUME NEW P, IsSeq(P), NEW n \in 1..Len(P)
  PROVE  n = Len(P) => From(P, n) = <<P[n]>>
<1> DEFINE f == From(P, n)
           v == P[n]
<1>1. PICK S : P \in Seq(S)
  BY DEF IsSeq
<1>2. f \in Seq(S) /\ Len(f) = Len(P) - n + 1 /\ f[1] = v
  BY <1>1, FromFacts
<1>3. SUFFICES ASSUME n = Len(P) PROVE f = <<v>>
  OBVIOUS
<1> HIDE DEF f, v
<1>4. Len(f) = 1
  BY <1>1, <1>2, <1>3
<1>5. f \in Seq(S \cup {v}) /\ <<v>> \in Seq(S \cup {v}) /\ Len(<<v>>) = 1 /\ <<v>>[1] = v
  BY <1>2
<1>6. \A k \in 1..1 : f[k] = <<v>>[k]
  BY <1>2, <1>5
<1>7. f = <<v>>
  BY <1>4, <1>5, <1>6, SeqEqual
<1>8. QED
  BY <1>7

\* A refusal is right if nobody got in the way of t and nothing has damaged the block.
LEMMA MismatchReplies ==
  ASSUME IInv, NEW t \in Threads, Busy(th[t]), Reading(th[t], tree, AdmitAt(th[t].req)), ~th[t].clash,
         th[t].req.do \in {"set_block", "rem_block"}, ~MacMatches(th[t].req, th[t].got[1])
  PROVE  Replies(th[t].req, cell, "fail")
<1> DEFINE r == th[t].req
<1>1. /\ r \in AllRequests /\ Reads(r) = {BlockItem} /\ Writes(r) # {} /\ AdmitAt(r) = 2
  BY Doing DEF Reads, Writes, AdmitAt
<1>2. CASE cell[BlockItem] \in Damaged
  BY <1>1, <1>2 DEF Replies, Unsure
<1>3. CASE cell[BlockItem] \notin Damaged
  <2>1. \A m \in 1..AdmitAt(r) - 1 : th[t].got[m] = cell[BlockItem]
    BY <1>1, <1>3, GotTrue
  <2>2. th[t].got[1] = cell[BlockItem]
    BY <1>1, <2>1
  <2>3. ~Allowed(r, cell)
    BY <2>2 DEF MacMatches, Allowed
  <2>4. QED
    BY <1>1, <2>3 DEF Replies
<1>4. QED
  BY <1>2, <1>3

LEMMA AdmitPermits ==
  ASSUME IInv, NEW t \in Threads, Busy(th[t]), Reading(th[t], tree, AdmitAt(th[t].req)), ~th[t].clash,
         ~(th[t].req.do \in {"set_block", "rem_block"} /\ ~MacMatches(th[t].req, th[t].got[1]))
  PROVE  Permitted(th[t].req, cell)
<1> DEFINE x == th[t]
           r == x.req
           P == Program(r)
<1>1. r \in AllRequests
  BY Doing
<1>2. SUFFICES ASSUME ~Unsure(r, cell) PROVE Allowed(r, cell)
  BY DEF Permitted
<1>3. ASSUME NEW i \in Reads(r)
      PROVE  \A m \in 1..AdmitAt(r) - 1 : x.got[m] = cell[i] /\ (P[m].must => cell[i] # Absent)
  <2>1. cell[i] \notin Damaged
    BY <1>2 DEF Unsure
  <2>2. \A m \in 1..AdmitAt(r) - 1 : x.got[m] = cell[i]
    BY <2>1, GotTrue
  <2>3. \A m \in 1..AdmitAt(r) - 1 : P[m].must => x.got[m] # Absent
    BY DEF Reading
  <2>4. QED
    BY <2>2, <2>3
<1>4. CASE r.do \in {"set_block", "rem_block"}
  <2>1. Reads(r) = {BlockItem} /\ AdmitAt(r) = 2
    BY <1>4 DEF Reads, AdmitAt
  <2>2. x.got[1] = cell[BlockItem]
    BY <1>3, <2>1
  <2>3. QED
    BY <1>4, <2>2 DEF MacMatches, Allowed
<1>5. CASE r.do = "set_token" /\ r.owner # r.user
  <2>1. Reads(r) = {TokenItem(r.owner, r.kind)}
    BY <1>5 DEF Reads
  <2>2. AdmitAt(r) = 3 /\ P[1].must
    BY <1>1, <1>5, SetTokenProgram
  <2>3. cell[TokenItem(r.owner, r.kind)] # Absent
    BY <1>3, <2>1, <2>2
  <2>4. QED
    BY <1>5, <2>3 DEF Allowed
<1>6. CASE r.do = "del_token"
  <2>1. Reads(r) = {TokenItem(r.owner, "w")}
    BY <1>6 DEF Reads
  <2>2. AdmitAt(r) = 3 /\ P[1].must
    BY <1>1, <1>6, DelTokenProgram
  <2>3. cell[TokenItem(r.owner, "w")] # Absent
    BY <1>3, <2>1, <2>2
  <2>4. QED
    BY <1>6, <2>3 DEF Allowed
<1>7. CASE r.do \in {"insert_block", "get_block", "get_token"} \/ (r.do = "set_token" /\ r.owner = r.user)
  BY <1>7 DEF Allowed
<1>8. QED
  BY <1>1, <1>4, <1>5, <1>6, <1>7, RequestFacts

LEMMA AdmittedMoves ==
  ASSUME IInv, NEW t \in Threads, Admitted(t)
  PROVE  \E nx : Moves(t, nx)
<1> DEFINE x == th[t]
           P == Program(x.req)
           a == AdmitAt(x.req)
           rest == From(P, a + 1)
           nx == On(x, rest)
           c == Shared(t)
<1>1. /\ Busy(x) /\ Next1(x).do = "admit" /\ tree' = tree
      /\ IF x.req.do \in {"set_block", "rem_block"} /\ ~MacMatches(x.req, x.got[1])
         THEN GoesOn(t, x, <<>>, "fail") ELSE GoesOn(t, x, Tail(x.prog), "ok")
  BY DEF Admitted, At, Fails, Goes, Rest
<1>2. /\ x.req \in AllRequests /\ x.req \in UNION Workloads /\ IsThread(x)
      /\ x.clash \in BOOLEAN /\ x.linked \in BOOLEAN
  BY <1>1, Doing
<1>3. PICK n \in 1..Len(P) : Reading(x, tree, n)
  BY <1>1, Doing
<1>4. /\ ~Writing(x) /\ n <= a /\ ~x.linked /\ Tail(x.prog) = From(P, n + 1)
      /\ n < a => ReadsOnly(x.req, Next1(x))
      /\ n = a => Writes(x.req) # {}
  BY <1>2, <1>3, ReadingNext
<1>5. a \in Nat /\ a >= 1 /\ Len(P) \in Nat /\ IsSeq(P) /\ (Writes(x.req) # {} => a < Len(P))
  BY <1>2, ProgramFacts
<1>6. n = a /\ Writes(x.req) # {} /\ a < Len(P) /\ Tail(x.prog) = rest
  <2>1. n = a
    BY <1>1, <1>4, <1>5 DEF ReadsOnly
  <2>2. QED
    BY <1>4, <1>5, <2>1
<1>7. rest # <<>>
  <2>1. PICK S : P \in Seq(S)
    BY <1>5 DEF IsSeq
  <2>2. a + 1 \in 1..Len(P)
    BY <1>5, <1>6
  <2>3. QED
    BY <2>1, <2>2, FromFacts
<1>8. /\ IsThread(nx) /\ nx.prog = rest /\ nx.req = x.req /\ nx.linked = x.linked
      /\ nx.clash = x.clash /\ nx.answer = x.answer
  BY <1>2, OnNext
<1> HIDE DEF nx
<1> DEFINE refused == x.req.do \in {"set_block", "rem_block"} /\ ~MacMatches(x.req, x.got[1])
<1>9. CASE refused
  <2>1. GoesOn(t, x, <<>>, "fail")
    BY <1>1, <1>9
  <2>2. x.clash \/ Replies(x.req, cell, "fail")
    BY <1>1, <1>3, <1>6, <1>9, MismatchReplies
  <2>3. QED
    BY <1>1, <1>2, <1>4, <2>1, <2>2, EndsMove
<1>10. CASE ~refused
  <2>1. Crossed(t, c) /\ \A i \in Items : Untouched(tree, c, i)
    BY <1>4, SharedFacts
  <2> HIDE DEF c
  <2>2. a + 1 \in 1..Len(P) /\ a + 1 \in a + 1..Len(P) /\ \A m \in a + 1..(a + 1) - 1 : FALSE
    BY <1>5, <1>6
  <2>3. (\E k \in 1..Len(Program(nx.req)) : Reading(nx, tree, k) \/ Storing(nx, tree, c, k))
            \/ Removing(nx, tree, c)
    <3>1. Stores(x.req) \/ Removes(x.req)
      BY <1>2, <1>6, RequestKinds
    <3>2. CASE Stores(x.req)
      <4>1. StoredBefore(nx, tree, a + 1)
        BY <1>8, <2>2 DEF StoredBefore
      <4>2. Storing(nx, tree, c, a + 1)
        BY <1>4, <1>8, <2>2, <3>2, <4>1 DEF Storing
      <4>3. QED
        BY <1>8, <2>2, <4>2
    <3>3. CASE Removes(x.req)
      <4>1. Len(P) = a + 1 /\ P[a + 1] = OpenDir(Removed(x.req)) /\ Writes(x.req) \subseteq Items
        BY <1>2, <3>3, RemoveFacts, RequestKinds
      <4>2. rest = <<OpenDir(Removed(x.req))>>
        BY <1>5, <4>1, LastOne
      <4>3. Removing(nx, tree, c)
        BY <1>4, <1>8, <2>1, <3>3, <4>1, <4>2 DEF Removing
      <4>4. QED
        BY <4>3
    <3>4. QED
      BY <3>1, <3>2, <3>3
  <2>4. ThreadOK(nx, tree, c)
    BY <1>2, <1>4, <1>7, <1>8, <2>3 DEF ThreadOK, IsThread, Marked
  <2>5. \A p : ~FillsLinked(x, p)
    BY <1>4, NotFilling
  <2>6. GoesOn(t, x, rest, "ok")
    BY <1>1, <1>6, <1>10
  <2>7. x.clash \/ Permitted(x.req, cell)
    BY <1>1, <1>3, <1>6, <1>10, AdmitPermits
  <2> HIDE DEF rest
  <2>8. Moves(t, nx)
    BY <1>1, <1>2, <1>4, <1>7, <2>1, <2>4, <2>5, <2>6, <2>7, ContinuesMove DEF nx
  <2>9. QED
    BY <2>8
<1>11. QED
  BY <1>9, <1>10

-----------------------------------------------------------------------------
\* Steps that change files.

EmptiesOK(x, nx, tr, tr2) ==
    \A p \in DOMAIN tr2.files : tr2.files[p] = Empty =>
        \/ FillsLinked(nx, p)
        \/ HasFile(tr, p) /\ tr.files[p] = Empty /\ ~FillsLinked(x, p)

LEMMA GoesOnMoves ==
  ASSUME IInv, NEW t \in Threads, Busy(th[t]), Writing(th[t]),
         NEW y, IsThread(y), y.req = th[t].req, y.prog = th[t].prog, y.clash = th[t].clash,
         y.answer = th[t].answer, NEW rest, rest # <<>>, NEW a, GoesOn(t, y, rest, a), FilesStay(tree, tree'),
         TreeOK(tree'), Frame(Written(th[t]), tree, tree'),
         ThreadOK(On(y, rest), tree', cell), Writing(On(y, rest)),
         EmptiesOK(th[t], On(y, rest), tree, tree')
  PROVE  Moves(t, On(y, rest))
<1> DEFINE nx == On(y, rest)
<1>1. nx.prog = rest /\ nx.req = th[t].req /\ nx.clash = th[t].clash /\ nx.answer = th[t].answer
  BY OnNext
<1>2. nx = NextOf(y, rest, a)
  BY DEF NextOf
<1>3. Noted([u \in Threads |-> After(t, nx, u)], Repaired(th[t], nx))
  BY <1>2, GoesMoves
<1>4. Crossed(t, cell)
  BY CrossedSame
<1> HIDE DEF nx
<1>5. ThreadOK(nx, tree', cell) /\ Writing(nx) /\ EmptiesOK(th[t], nx, tree, tree')
  BY DEF nx
<1>6. Moved(th[t], nx, tree, tree', cell)
  BY <1>1, <1>5 DEF Moved, EmptiesOK
<1>7. Told(th[t], nx, cell)
  BY <1>1, ToldOn
<1>8. Moves(t, nx)
  BY <1>3, <1>4, <1>5, <1>6, <1>7 DEF Moves
<1>9. QED
  BY <1>8 DEF nx

LEMMA CompletesMoves ==
  ASSUME IInv, NEW t \in Threads, Busy(th[t]), Writing(th[t]),
         NEW y, IsThread(y), y.req = th[t].req, y.prog = th[t].prog, y.clash = th[t].clash,
         NEW a, GoesOn(t, y, <<>>, a), th[t].clash \/ a = "ok", FilesStay(tree, tree'),
         TreeOK(tree'), Frame(Written(th[t]), tree, tree'),
         \A i \in Writes(th[t].req) : Alone(th[t], cell, i) => Final(th[t], tree', cell, i),
         \A p \in DOMAIN tree'.files : tree'.files[p] = Empty =>
            HasFile(tree, p) /\ tree.files[p] = Empty /\ ~FillsLinked(th[t], p)
  PROVE  Moves(t, NextOf(y, <<>>, a))
<1> DEFINE nx == NextOf(y, <<>>, a)
           b == IF y.clash THEN "unknown" ELSE a
<1>1. nx = [Idle EXCEPT !.answer = b]
  BY DEF NextOf
<1> HIDE DEF nx, b
<1>2. ThreadOK(nx, tree', cell) /\ nx.prog = <<>>
  BY <1>1, IdleNext, Zenon
<1>3. Noted([u \in Threads |-> After(t, nx, u)], Repaired(th[t], nx))
  BY GoesMoves DEF nx
<1>4. Moved(th[t], nx, tree, tree', cell)
  BY <1>2 DEF Moved, Written
<1>5. Told(th[t], nx, cell)
  <2>1. th[t].clash \in BOOLEAN
    BY Doing
  <2>2. QED
    BY <1>1, <2>1, ToldEnd DEF b
<1>6. Moves(t, nx)
  BY <1>2, <1>3, <1>4, <1>5, CrossedSame DEF Moves
<1>7. QED
  BY <1>6 DEF nx

\* mkdir.
LEMMA MakeDirFacts ==
  ASSUME NEW tr, TreeOK(tr), NEW d \in Dirs
  PROVE  LET tr2 == MakeDir(tr, d) IN
         /\ TreeOK(tr2) /\ tr2.files = tr.files /\ tr.dirs \subseteq tr2.dirs
         /\ Front(d) \in tr.dirs => d \in tr2.dirs
<1> DEFINE tr2 == MakeDir(tr, d)
<1>1. d \notin DOMAIN tr.files
  BY PartsFacts DEF TreeOK
<1>2. tr = [dirs |-> tr.dirs, files |-> tr.files]
  BY DEF TreeOK
<1>3. CASE Front(d) \in tr.dirs /\ ~Exists(tr, d)
  <2>1. tr2 = [tr EXCEPT !.dirs = @ \cup {d}]
    BY <1>3 DEF MakeDir
  <2>2. tr2 = [dirs |-> tr.dirs \cup {d}, files |-> tr.files]
    BY <1>2, <2>1
  <2>3. tr2.dirs = tr.dirs \cup {d} /\ tr2.files = tr.files /\ tr2 = [dirs |-> tr2.dirs, files |-> tr2.files]
    BY <2>2
  <2> HIDE DEF tr2
  <2>4. \A u \in Users, k \in {"r", "w"} : TokenItem(u, k) \in tr2.dirs => UserDir(u) \in tr2.dirs
    BY <1>3, <2>3, Parents DEF TreeOK
  <2>5. TreeOK(tr2)
    BY <2>3, <2>4 DEF TreeOK
  <2>6. QED
    BY <2>3, <2>5 DEF tr2
<1>4. CASE ~(Front(d) \in tr.dirs /\ ~Exists(tr, d))
  <2>1. tr2 = tr
    BY <1>4 DEF MakeDir
  <2>2. QED
    BY <1>1, <1>4, <2>1 DEF Exists
<1>5. QED
  BY <1>3, <1>4

\* A file gets the content v.
SetFile(tr, p, v) ==
    [dirs |-> tr.dirs,
     files |-> [q \in DOMAIN tr.files \cup {p} |-> IF q = p THEN v ELSE tr.files[q]]]

\* The part p of i has the content v, everything else is as it was.
FileSet(tr, tr2, i, p, v) ==
    /\ TreeOK(tr2) /\ Frame({i}, tr, tr2) /\ FilesStay(tr, tr2) /\ tr2.dirs = tr.dirs
    /\ HasFile(tr2, p) /\ tr2.files[p] = v
    /\ \A q : q # p => /\ HasFile(tr2, q) <=> HasFile(tr, q)
                       /\ HasFile(tr, q) => tr2.files[q] = tr.files[q]

LEMMA SetFileFacts ==
  ASSUME NEW tr, TreeOK(tr), NEW i \in Items, NEW p \in PartsOf(i), i \in tr.dirs,
         NEW v \in Fillings, NEW tr2, tr2 = SetFile(tr, p, v)
  PROVE  FileSet(tr, tr2, i, p, v)
<1> DEFINE dom == DOMAIN tr.files \cup {p}
<1>1. /\ tr2.dirs = tr.dirs /\ DOMAIN tr2.files = dom
      /\ tr2 = [dirs |-> tr2.dirs, files |-> tr2.files]
      /\ tr2.files = [q \in DOMAIN tr2.files |-> tr2.files[q]]
      /\ \A q \in dom : tr2.files[q] = IF q = p THEN v ELSE tr.files[q]
  BY DEF SetFile
<1>2. Front(p) = i
  BY PartsFacts
<1>3. ASSUME NEW q \in DOMAIN tr2.files
      PROVE  /\ tr2.files[q] \in Fillings
             /\ Front(q) \in Items \cap tr2.dirs /\ q \in PartsOf(Front(q))
  BY <1>1, <1>2 DEF TreeOK
<1>4. TreeOK(tr2)
  BY <1>1, <1>3 DEF TreeOK
<1>5. /\ HasFile(tr2, p) /\ tr2.files[p] = v /\ FilesStay(tr, tr2)
      /\ \A q : q # p => /\ HasFile(tr2, q) <=> HasFile(tr, q)
                         /\ HasFile(tr, q) => tr2.files[q] = tr.files[q]
  BY <1>1 DEF HasFile, FilesStay
<1>6. \A j \in Items \ {i} : p \notin PartsOf(j)
  BY PartsFacts
<1>7. Frame({i}, tr, tr2)
  BY <1>1, <1>5, <1>6 DEF Frame, SameParts
<1>8. QED
  BY <1>1, <1>4, <1>5, <1>7 DEF FileSet

LEMMA TruncateIs ==
  ASSUME NEW tr, TreeOK(tr), NEW p PROVE Truncate(tr, p) = SetFile(tr, p, Empty)
  BY DEF TreeOK, Truncate, SetFile

LEMMA OverwriteIs ==
  ASSUME NEW tr, TreeOK(tr), NEW p, HasFile(tr, p), NEW v
  PROVE  [tr EXCEPT !.files[p] = v] = SetFile(tr, p, v)
<1>1. tr = [dirs |-> tr.dirs, files |-> tr.files] /\ p \in DOMAIN tr.files
      /\ tr.files = [q \in DOMAIN tr.files |-> tr.files[q]]
  BY DEF TreeOK, HasFile
<1>2. [tr EXCEPT !.files[p] = v] = [dirs |-> tr.dirs, files |-> [tr.files EXCEPT ![p] = v]]
  BY <1>1
<1>3. [tr.files EXCEPT ![p] = v] = [q \in DOMAIN tr.files \cup {p} |-> IF q = p THEN v ELSE tr.files[q]]
  BY <1>1
<1>4. QED
  BY <1>2, <1>3 DEF SetFile

\* A thread that stores, between its instructions.
LEMMA StoringOK ==
  ASSUME NEW y, IsThread(y), y.req \in AllRequests, y.req \in UNION Workloads,
         y.clash \in BOOLEAN, y.linked \in BOOLEAN,
         NEW tr, NEW c, NEW n, Storing(y, tr, c, n)
  PROVE  ThreadOK(y, tr, c) /\ Writing(y)
<1>1. y.prog # <<>> /\ Writing(y) /\ n \in AdmitAt(y.req) + 1..Len(Program(y.req))
  BY StoringNext DEF Busy
<1>2. n \in 1..Len(Program(y.req))
  BY <1>1, ProgramFacts
<1>3. QED
  BY <1>1, <1>2 DEF ThreadOK, IsThread, Marked

\* The n-th instruction is done, and there is another one.
LEMMA StoringOn ==
  ASSUME NEW x, IsThread(x), x.req \in AllRequests, x.req \in UNION Workloads, x.clash \in BOOLEAN,
         NEW tr, NEW tr2, NEW c, NEW n, Storing(x, tr, c, n), n # Len(Program(x.req)),
         NEW y, IsThread(y), y.req = x.req, y.clash = x.clash, ~y.linked, y.linked \in BOOLEAN,
         Alone(x, c, Target(x.req)) => StoredBefore(x, tr2, n + 1)
  PROVE  LET rest == From(Program(x.req), n + 1) IN
         /\ rest # <<>> /\ ThreadOK(On(y, rest), tr2, c) /\ Writing(On(y, rest))
<1> DEFINE P == Program(x.req)
           rest == From(P, n + 1)
           nx == On(y, rest)
<1>1. /\ Stores(x.req) /\ n \in AdmitAt(x.req) + 1..Len(P)
  BY DEF Storing
<1>2. Len(P) \in Nat /\ AdmitAt(x.req) \in Nat /\ IsSeq(P)
  BY ProgramFacts
<1>3. n + 1 \in AdmitAt(x.req) + 1..Len(P) /\ n + 1 \in 1..Len(P)
  BY <1>1, <1>2
<1>4. rest # <<>>
  <2>1. PICK S : P \in Seq(S)
    BY <1>2 DEF IsSeq
  <2>2. QED
    BY <1>3, <2>1, FromFacts
<1>5. /\ IsThread(nx) /\ nx.prog = rest /\ nx.req = x.req /\ nx.linked = y.linked
      /\ nx.clash = x.clash
  BY OnNext
<1> HIDE DEF nx
<1>6. Alone(nx, c, Target(x.req)) => StoredBefore(nx, tr2, n + 1)
  BY <1>5 DEF Alone, StoredBefore
<1>7. Storing(nx, tr2, c, n + 1)
  BY <1>1, <1>3, <1>5, <1>6 DEF Storing
<1>8. ThreadOK(nx, tr2, c) /\ Writing(nx)
  BY <1>5, <1>7, StoringOK
<1>9. QED
  BY <1>4, <1>8 DEF nx

\* When everything is stored the item has the value.
LEMMA AllStored ==
  ASSUME NEW x, x.req \in AllRequests, Stores(x.req), NEW tr, TreeOK(tr),
         StoredBefore(x, tr, Len(Program(x.req)) + 1)
  PROVE  Stored(tr, Target(x.req)) = Leaves(x.req)
<1> DEFINE P == Program(x.req)
           a == AdmitAt(x.req)
           i == Target(x.req)
<1>1. i \in Items /\ Leaves(x.req) \in Contents
  BY RequestKinds
<1>2. Len(P) \in Nat /\ a \in Nat
  BY ProgramFacts
<1>3. ASSUME NEW p \in PartsOf(i) PROVE HasFile(tr, p) /\ tr.files[p] = Leaves(x.req)
  <2>1. PICK m \in a + 1..Len(P) : P[m].do = "open" /\ P[m].path = p
    BY StoreFacts DEF StoreProgram
  <2>2. m \in a + 1..(Len(P) + 1) - 1
    BY <1>2
  <2>3. QED
    BY <2>1, <2>2 DEF StoredBefore
<1>4. QED
  BY <1>1, <1>3, StoredFacts

LEMMA MakesMoves ==
  ASSUME IInv, NEW t \in Threads, Makes(t)
  PROVE  \E nx : Moves(t, nx)
<1> DEFINE x == th[t]
           P == Program(x.req)
           a == AdmitAt(x.req)
           i == Target(x.req)
           d == Next1(x).path
<1>1. Busy(x) /\ Next1(x).do = "mkdir" /\ tree' = MakeDir(tree, d) /\ GoesOn(t, x, Tail(x.prog), "ok")
  BY DEF Makes, At, Goes, Rest
<1>2. /\ x.req \in AllRequests /\ x.req \in UNION Workloads /\ IsThread(x)
      /\ x.clash \in BOOLEAN /\ x.linked \in BOOLEAN
  BY <1>1, Doing
<1>3. PICK n \in 1..Len(P) : Storing(x, tree, cell, n)
  BY <1>1, Doing
<1>4. /\ Writing(x) /\ Writes(x.req) = {i} /\ i \in Items /\ n \in a + 1..Len(P)
      /\ Tail(x.prog) = From(P, n + 1)
      /\ \/ /\ Next1(x) = P[n] /\ ~x.linked
            /\ MakesDir(P, a, n, i) \/ OpensPart(P, a, n, i, Leaves(x.req))
         \/ Next1(x) = Fill(P[n]) /\ OpensPart(P, a, n, i, Leaves(x.req))
  BY <1>2, <1>3, StoringNext
<1>5. Next1(x) = P[n] /\ ~x.linked /\ MakesDir(P, a, n, i)
  BY <1>1, <1>4, OpenFields DEF OpensPart
<1>6. a \in Nat /\ Len(P) \in Nat
  BY <1>2, ProgramFacts
<1>7. n # Len(P) /\ d \in Dirs
  BY <1>4, <1>5, <1>6 DEF MakesDir
<1>8. TreeOK(tree)
  BY DEF IInv
<1>9. /\ TreeOK(tree') /\ tree'.files = tree.files /\ tree.dirs \subseteq tree'.dirs
      /\ Front(d) \in tree.dirs => d \in tree'.dirs
  BY <1>1, <1>7, <1>8, MakeDirFacts
<1>10. Frame(Written(x), tree, tree') /\ FilesStay(tree, tree')
  BY <1>9 DEF Frame, SameParts, FilesStay, HasFile
<1>11. ASSUME Alone(x, cell, i) PROVE StoredBefore(x, tree', n + 1)
  <2>1. StoredBefore(x, tree, n)
    BY <1>3, <1>11 DEF Storing
  <2>2. d \in tree'.dirs
    <3>1. CASE Front(d) \in Roots
      BY <1>8, <1>9, <3>1 DEF TreeOK
    <3>2. CASE \E m \in a + 1..n - 1 : P[m] = Mkdir(Front(d))
      <4>1. PICK m \in a + 1..n - 1 : P[m] = Mkdir(Front(d))
        BY <3>2
      <4>2. Front(d) \in tree.dirs
        BY <2>1, <4>1, InstructionFields DEF StoredBefore
      <4>3. QED
        BY <1>9, <4>2
    <3>3. QED
      BY <1>5, <3>1, <3>2 DEF MakesDir
  <2>3. ASSUME NEW m \in a + 1..(n + 1) - 1
        PROVE  /\ P[m].do = "mkdir" => P[m].path \in tree'.dirs
               /\ P[m].do = "open" => HasFile(tree', P[m].path) /\ tree'.files[P[m].path] = Leaves(x.req)
    <3>1. CASE m = n
      BY <1>1, <1>5, <2>2, <3>1
    <3>2. CASE m # n
      <4>1. m \in a + 1..n - 1
        BY <1>4, <1>6, <3>2
      <4>2. QED
        BY <1>9, <2>1, <4>1 DEF StoredBefore, HasFile
    <3>3. QED
      BY <3>1, <3>2
  <2>4. QED
    BY <2>3 DEF StoredBefore
<1> DEFINE rest == From(P, n + 1)
<1>12. rest # <<>> /\ ThreadOK(On(x, rest), tree', cell) /\ Writing(On(x, rest))
  BY <1>2, <1>3, <1>5, <1>7, <1>11, StoringOn
<1>13. EmptiesOK(x, On(x, rest), tree, tree')
  BY <1>1, <1>9 DEF EmptiesOK, FillsLinked, HasFile
<1>14. GoesOn(t, x, rest, "ok")
  BY <1>1, <1>4
<1> HIDE DEF rest
<1>15. Moves(t, On(x, rest))
  BY <1>1, <1>2, <1>4, <1>9, <1>10, <1>12, <1>13, <1>14, GoesOnMoves
<1>16. QED
  BY <1>15

\* The n-th instruction of a store is done: the request goes on, or is through.
LEMMA DoneMoves ==
  ASSUME IInv, NEW t \in Threads, Busy(th[t]), NEW n, Storing(th[t], tree, cell, n),
         NEW y, IsThread(y), y.req = th[t].req, y.prog = th[t].prog, y.clash = th[t].clash,
         ~y.linked, y.linked \in BOOLEAN,
         y.answer = th[t].answer, NEW b, th[t].clash \/ b = "ok",
         GoesOn(t, y, From(Program(th[t].req), n + 1), b), FilesStay(tree, tree'),
         TreeOK(tree'), Frame(Written(th[t]), tree, tree'),
         Alone(th[t], cell, Target(th[t].req)) => StoredBefore(th[t], tree', n + 1),
         \A p \in DOMAIN tree'.files : tree'.files[p] = Empty =>
            HasFile(tree, p) /\ tree.files[p] = Empty /\ ~FillsLinked(th[t], p)
  PROVE  \E nx : Moves(t, nx)
<1> DEFINE x == th[t]
           P == Program(x.req)
           i == Target(x.req)
           rest == From(P, n + 1)
<1>1. /\ x.req \in AllRequests /\ x.req \in UNION Workloads /\ IsThread(x) /\ x.clash \in BOOLEAN
  BY Doing
<1>2. Writing(x) /\ Writes(x.req) = {i} /\ n \in AdmitAt(x.req) + 1..Len(P) /\ Stores(x.req)
  BY <1>1, StoringNext DEF Storing
<1>3. CASE n = Len(P)
  <2>1. rest = <<>>
    <3>1. IsSeq(P) /\ n \in 1..Len(P)
      BY <1>1, <1>2, ProgramFacts
    <3>2. PICK S : P \in Seq(S)
      BY <3>1 DEF IsSeq
    <3>3. QED
      BY <1>3, <3>1, <3>2, FromFacts
  <2>2. \A j \in Writes(x.req) : Alone(x, cell, j) => Final(x, tree', cell, j)
    <3>1. Alone(x, cell, i) => StoredBefore(x, tree', Len(P) + 1)
      BY <1>3
    <3>2. Alone(x, cell, i) => Stored(tree', i) = Leaves(x.req)
      BY <1>1, <1>2, <3>1, AllStored
    <3>3. QED
      BY <1>2, <3>2 DEF Final
  <2>3. GoesOn(t, y, <<>>, b)
    BY <2>1
  <2>4. Moves(t, NextOf(y, <<>>, b))
    BY <1>2, <2>2, <2>3, CompletesMoves
  <2>5. QED
    BY <2>4
<1>4. CASE n # Len(P)
  <2>1. rest # <<>> /\ ThreadOK(On(y, rest), tree', cell) /\ Writing(On(y, rest))
    BY <1>1, <1>4, StoringOn
  <2>2. EmptiesOK(x, On(y, rest), tree, tree')
    BY DEF EmptiesOK
  <2>3. GoesOn(t, y, rest, b)
    OBVIOUS
  <2> HIDE DEF rest
  <2>4. Moves(t, On(y, rest))
    BY <1>2, <2>1, <2>2, <2>3, GoesOnMoves
  <2>5. QED
    BY <2>4
<1>5. QED
  BY <1>3, <1>4

\* The directory of the item is there when nobody has got in the way.
LEMMA DirThere ==
  ASSUME NEW x, NEW tr, NEW n, StoredBefore(x, tr, n),
         NEW i, NEW v, OpensPart(Program(x.req), AdmitAt(x.req), n, i, v)
  PROVE  i \in tr.dirs
<1>1. PICK m \in AdmitAt(x.req) + 1..n - 1 : Program(x.req)[m] = Mkdir(i)
  BY DEF OpensPart
<1>2. QED
  BY <1>1, InstructionFields DEF StoredBefore

\* What was stored before is not touched by the file that the n-th instruction opens.
LEMMA StoredStays ==
  ASSUME NEW x, NEW tr, NEW tr2, NEW n, StoredBefore(x, tr, n),
         NEW i, NEW v, OpensPart(Program(x.req), AdmitAt(x.req), n, i, v),
         tr2.dirs = tr.dirs,
         \A q : q # Program(x.req)[n].path =>
            (HasFile(tr, q) => HasFile(tr2, q) /\ tr2.files[q] = tr.files[q])
  PROVE  StoredBefore(x, tr2, n)
<1> DEFINE P == Program(x.req)
           a == AdmitAt(x.req)
<1>1. ASSUME NEW m \in a + 1..n - 1
      PROVE  /\ P[m].do = "mkdir" => P[m].path \in tr2.dirs
             /\ P[m].do = "open" => HasFile(tr2, P[m].path) /\ tr2.files[P[m].path] = Leaves(x.req)
  <2>1. /\ P[m].do = "mkdir" => P[m].path \in tr.dirs
        /\ P[m].do = "open" => HasFile(tr, P[m].path) /\ tr.files[P[m].path] = Leaves(x.req)
    BY <1>1 DEF StoredBefore
  <2>2. P[m].do = "open" => P[m].path # P[n].path
    BY <1>1 DEF OpensPart
  <2>3. QED
    BY <2>1, <2>2
<1>2. QED
  BY <1>1 DEF StoredBefore

LEMMA StoredUpTo ==
  ASSUME NEW x, NEW tr, NEW n, x.req \in AllRequests, n \in AdmitAt(x.req) + 1..Len(Program(x.req)),
         StoredBefore(x, tr, n), Program(x.req)[n].do = "open",
         HasFile(tr, Program(x.req)[n].path), tr.files[Program(x.req)[n].path] = Leaves(x.req)
  PROVE  StoredBefore(x, tr, n + 1)
<1> DEFINE P == Program(x.req)
           a == AdmitAt(x.req)
<1>1. a \in Nat /\ Len(P) \in Nat
  BY ProgramFacts
<1>2. ASSUME NEW m \in a + 1..(n + 1) - 1
      PROVE  /\ P[m].do = "mkdir" => P[m].path \in tr.dirs
             /\ P[m].do = "open" => HasFile(tr, P[m].path) /\ tr.files[P[m].path] = Leaves(x.req)
  <2>1. m = n \/ m \in a + 1..n - 1
    BY <1>1
  <2>2. P[n].do # "mkdir"
    OBVIOUS
  <2>3. m \in a + 1..n - 1 =>
            /\ P[m].do = "mkdir" => P[m].path \in tr.dirs
            /\ P[m].do = "open" => HasFile(tr, P[m].path) /\ tr.files[P[m].path] = Leaves(x.req)
    BY DEF StoredBefore
  <2>4. QED
    BY <2>1, <2>2, <2>3
<1>3. QED
  BY <1>2 DEF StoredBefore

\* y is x with a file open.
Opened(x, y) ==
    /\ IsThread(y) /\ y.req = x.req /\ y.prog = x.prog /\ y.clash = x.clash
    /\ y.answer = x.answer /\ y.linked /\ y.linked \in BOOLEAN

\* The instructions of x when it has opened the file it is at.
ThenFill(x) == <<Fill(Next1(x))>> \o Tail(x.prog)

\* fopen in write_whole_file, when it succeeds: the file is empty and open.
LEMMA OpensFile ==
  ASSUME IInv, NEW t \in Threads, Busy(th[t]), NEW n, Storing(th[t], tree, cell, n),
         Next1(th[t]) = Program(th[t].req)[n],
         OpensPart(Program(th[t].req), AdmitAt(th[t].req), n, Target(th[t].req), Leaves(th[t].req)),
         Target(th[t].req) \in tree.dirs,
         tree' = SetFile(tree, Next1(th[t]).path, Empty),
         NEW y, Opened(th[t], y),
         GoesOn(t, y, ThenFill(th[t]), "ok")
  PROVE  \E nx : Moves(t, nx)
<1> DEFINE x == th[t]
           P == Program(x.req)
           a == AdmitAt(x.req)
           i == Target(x.req)
           p == Next1(x).path
           rest == ThenFill(x)
           nx == On(y, rest)
<1>1. /\ x.req \in AllRequests /\ x.req \in UNION Workloads /\ IsThread(x) /\ x.clash \in BOOLEAN
  BY Doing
<1>2. /\ Writing(x) /\ Writes(x.req) = {i} /\ i \in Items /\ n \in a + 1..Len(P)
      /\ Tail(x.prog) = From(P, n + 1) /\ Stores(x.req)
  BY <1>1, StoringNext DEF Storing
<1>3. /\ P[n].do = "open" /\ P[n].path = p /\ p \in PartsOf(i)
      /\ Fill(P[n]).do = "fill" /\ Fill(P[n]).path = p
  BY OpenFields DEF OpensPart
<1>4. TreeOK(tree)
  BY DEF IInv
<1>5. FileSet(tree, tree', i, p, Empty)
  <2>1. Empty \in Fillings /\ i \in tree.dirs /\ tree' = SetFile(tree, p, Empty)
    BY DEF Fillings
  <2> HIDE DEF i, p
  <2>2. QED
    BY <1>2, <1>3, <1>4, <2>1, SetFileFacts
<1>6. /\ TreeOK(tree') /\ Frame({i}, tree, tree') /\ FilesStay(tree, tree') /\ tree'.dirs = tree.dirs
      /\ HasFile(tree', p) /\ tree'.files[p] = Empty
      /\ \A q : q # p => /\ HasFile(tree', q) <=> HasFile(tree, q)
                         /\ HasFile(tree, q) => tree'.files[q] = tree.files[q]
  BY <1>5 DEF FileSet
<1>7. rest # <<>> /\ Head(rest) = Fill(P[n]) /\ rest = <<Fill(P[n])>> \o From(P, n + 1)
  <2>1. IsSeq(P) /\ n \in 1..Len(P)
    BY <1>1, <1>2, ProgramFacts
  <2>2. PICK S : P \in Seq(S)
    BY <2>1 DEF IsSeq
  <2>3. From(P, n + 1) \in Seq(S)
    BY <2>1, <2>2, FromFacts
  <2>4. rest = <<Fill(P[n])>> \o From(P, n + 1)
    BY <1>2 DEF ThenFill
  <2> HIDE DEF rest
  <2>5. QED
    BY <2>3, <2>4, PutInFront
<1>8. /\ IsThread(nx) /\ nx.prog = rest /\ nx.req = x.req /\ nx.clash = x.clash
      /\ nx.linked /\ nx.linked \in BOOLEAN
  <2>1. /\ IsThread(y) /\ y.req = x.req /\ y.clash = x.clash
        /\ y.linked /\ y.linked \in BOOLEAN
    BY DEF Opened
  <2>2. /\ IsThread(nx) /\ nx.prog = rest /\ nx.req = y.req /\ nx.clash = y.clash
        /\ nx.linked = y.linked
    BY <2>1, OnNext, Zenon
  <2> HIDE DEF nx
  <2>3. QED
    BY <2>1, <2>2
<1> HIDE DEF nx
<1>9. Alone(nx, cell, i) => StoredBefore(nx, tree', n)
  <2>1. SUFFICES ASSUME Alone(nx, cell, i) PROVE StoredBefore(nx, tree', n)
    OBVIOUS
  <2>2. Alone(x, cell, i)
    BY <1>8, <2>1 DEF Alone
  <2>3. StoredBefore(x, tree, n)
    BY <2>2 DEF Storing
  <2>4. StoredBefore(x, tree', n)
    BY <1>6, <2>3, StoredStays
  <2>5. QED
    BY <1>8, <2>4 DEF StoredBefore
<1>10. Storing(nx, tree', cell, n)
  <2>1. /\ nx.prog = <<Fill(P[n])>> \o From(P, n + 1)
        /\ HasFile(tree', P[n].path) /\ nx.linked /\ tree'.files[P[n].path] = Empty
    BY <1>3, <1>6, <1>7, <1>8
  <2> HIDE DEF rest
  <2>2. QED
    BY <1>2, <1>3, <1>8, <1>9, <2>1 DEF Storing
<1>11. ThreadOK(nx, tree', cell) /\ Writing(nx)
  BY <1>1, <1>8, <1>10, StoringOK
<1>12. FillsLinked(nx, p)
  BY <1>3, <1>7, <1>8 DEF FillsLinked, Busy, Next1
<1>13. EmptiesOK(x, nx, tree, tree')
  <2>1. ASSUME NEW q \in DOMAIN tree'.files, tree'.files[q] = Empty, q # p
        PROVE  HasFile(tree, q) /\ tree.files[q] = Empty /\ ~FillsLinked(x, q)
    BY <1>6, <2>1 DEF HasFile, FillsLinked
  <2>2. QED
    BY <1>12, <2>1 DEF EmptiesOK
<1>14. Frame(Written(x), tree, tree')
  BY <1>2, <1>6 DEF Written
<1>15. GoesOn(t, y, rest, "ok")
  BY <1>2
<1> HIDE DEF rest
<1>16. Moves(t, nx)
  BY <1>2, <1>6, <1>7, <1>11, <1>13, <1>14, <1>15, GoesOnMoves DEF nx, Opened
<1>17. QED
  BY <1>16

LEMMA OpenMoves ==
  ASSUME IInv, NEW t \in Threads, Open(t)
  PROVE  \E nx : Moves(t, nx)
<1> DEFINE x == th[t]
           P == Program(x.req)
           a == AdmitAt(x.req)
           i == Target(x.req)
           p == Next1(x).path
<1>1. /\ Busy(x) /\ Next1(x).do = "open"
      /\ IF CanOpenForWrite(tree, p)
         THEN /\ tree' = Truncate(tree, p)
              /\ GoesOn(t, [x EXCEPT !.linked = TRUE], ThenFill(x), "ok")
         ELSE /\ tree' = tree
              /\ GoesOn(t, x, <<>>, "fail") \/ GoesOn(t, x, Tail(x.prog), "ok")
  BY DEF Open, At, Fails, Goes, Rest, ThenFill
<1>2. /\ x.req \in AllRequests /\ x.req \in UNION Workloads /\ IsThread(x)
      /\ x.clash \in BOOLEAN /\ x.linked \in BOOLEAN
  BY <1>1, Doing
<1>3. PICK n \in 1..Len(P) : Storing(x, tree, cell, n)
  BY <1>1, Doing
<1>4. /\ Writing(x) /\ Writes(x.req) = {i} /\ i \in Items /\ n \in a + 1..Len(P)
      /\ Tail(x.prog) = From(P, n + 1)
      /\ \/ /\ Next1(x) = P[n] /\ ~x.linked
            /\ MakesDir(P, a, n, i) \/ OpensPart(P, a, n, i, Leaves(x.req))
         \/ Next1(x) = Fill(P[n]) /\ OpensPart(P, a, n, i, Leaves(x.req))
  BY <1>2, <1>3, StoringNext
<1>5. Next1(x) = P[n] /\ ~x.linked /\ OpensPart(P, a, n, i, Leaves(x.req))
  <2>1. OpensPart(P, a, n, i, Leaves(x.req)) => Fill(P[n]).do = "fill"
    BY OpenFields DEF OpensPart
  <2>2. MakesDir(P, a, n, i) => P[n].do = "mkdir"
    BY InstructionFields DEF MakesDir
  <2>3. QED
    BY <1>1, <1>4, <2>1, <2>2
<1>6. Front(p) = i
  BY <1>4, <1>5, PartsFacts DEF OpensPart
<1>7. TreeOK(tree)
  BY DEF IInv
<1>8. CASE i \in tree.dirs
  <2>1. tree' = SetFile(tree, p, Empty)
    BY <1>1, <1>6, <1>7, <1>8, TruncateIs DEF CanOpenForWrite
  <2>2. \E y : /\ IsThread(y) /\ y.req = x.req /\ y.prog = x.prog /\ y.clash = x.clash
              /\ y.linked = TRUE /\ y.answer = x.answer
              /\ GoesOn(t, y, ThenFill(x), "ok")
    BY <1>1, <1>2, <1>6, <1>8, LinkedNext, ZenonT(30) DEF CanOpenForWrite
  <2>3. PICK y : Opened(x, y) /\ GoesOn(t, y, ThenFill(x), "ok")
    BY <2>2 DEF Opened
  <2>4. QED
    BY <1>1, <1>3, <1>5, <1>8, <2>1, <2>3, OpensFile
<1>9. CASE i \notin tree.dirs
  <2>1. tree' = tree /\ (GoesOn(t, x, <<>>, "fail") \/ GoesOn(t, x, From(P, n + 1), "ok"))
    <3>1. ~CanOpenForWrite(tree, p)
      BY <1>6, <1>9 DEF CanOpenForWrite
    <3>2. tree' = tree /\ (GoesOn(t, x, <<>>, "fail") \/ GoesOn(t, x, Tail(x.prog), "ok"))
      BY <1>1, <3>1, Zenon
    <3>3. QED
      BY <1>4, <3>2
  <2>2. ~Alone(x, cell, i)
    <3>1. StoredBefore(x, tree, n) => i \in tree.dirs
      BY <1>5, DirThere
    <3>2. QED
      BY <1>3, <1>9, <3>1 DEF Storing
  <2>3. FilesStay(tree, tree') /\ TreeOK(tree') /\ Frame(Written(x), tree, tree')
    BY <1>7, <2>1 DEF FilesStay, Frame, SameParts
  <2>4. \A q \in DOMAIN tree'.files : tree'.files[q] = Empty =>
            HasFile(tree, q) /\ tree.files[q] = Empty /\ ~FillsLinked(x, q)
    BY <1>5, <2>1 DEF HasFile, FillsLinked
  <2>5. CASE GoesOn(t, x, <<>>, "fail")
    <3>1. x.clash /\ \A j \in Writes(x.req) : ~Alone(x, cell, j)
      BY <1>4, <2>2 DEF Alone
    <3>2. Moves(t, NextOf(x, <<>>, "fail"))
      BY <1>1, <1>2, <1>4, <2>3, <2>4, <2>5, <3>1, CompletesMoves
    <3>3. QED
      BY <3>2
  <2>6. CASE GoesOn(t, x, From(P, n + 1), "ok")
    BY <1>1, <1>2, <1>3, <1>5, <2>2, <2>3, <2>4, <2>6, DoneMoves
  <2>7. QED
    BY <2>1, <2>5, <2>6
<1>10. QED
  BY <1>8, <1>9

\* What a thread that fills a file knows of it.
LEMMA FillingFacts ==
  ASSUME NEW x, NEW tr, NEW c, NEW n, x.req \in AllRequests, Storing(x, tr, c, n),
         Next1(x).do = "fill"
  PROVE  LET P == Program(x.req)
             i == Target(x.req)
             p == Next1(x).path IN
         /\ Next1(x) = Fill(P[n]) /\ OpensPart(P, AdmitAt(x.req), n, i, Leaves(x.req))
         /\ P[n].do = "open" /\ P[n].path = p /\ p \in PartsOf(i) /\ Next1(x).val = Leaves(x.req)
         /\ x.linked => HasFile(tr, p)
         /\ Alone(x, c, i) => x.linked /\ tr.files[p] = Empty
<1> DEFINE P == Program(x.req)
           a == AdmitAt(x.req)
           i == Target(x.req)
<1>1. /\ n \in a + 1..Len(P)
      /\ \/ /\ Next1(x) = P[n] /\ ~x.linked
            /\ MakesDir(P, a, n, i) \/ OpensPart(P, a, n, i, Leaves(x.req))
         \/ Next1(x) = Fill(P[n]) /\ OpensPart(P, a, n, i, Leaves(x.req))
  BY StoringNext
<1>2. MakesDir(P, a, n, i) => P[n].do = "mkdir"
  BY InstructionFields DEF MakesDir
<1>3. OpensPart(P, a, n, i, Leaves(x.req)) =>
        /\ P[n].do = "open" /\ P[n].path \in PartsOf(i)
        /\ Fill(P[n]).path = P[n].path /\ Fill(P[n]).val = Leaves(x.req)
  BY OpenFields DEF OpensPart
<1>4. /\ Next1(x) = Fill(P[n]) /\ OpensPart(P, a, n, i, Leaves(x.req))
      /\ P[n].do = "open" /\ P[n].path = Next1(x).path /\ Next1(x).path \in PartsOf(i)
      /\ Next1(x).val = Leaves(x.req)
  BY <1>1, <1>2, <1>3
<1>5. x.prog # From(P, n)
  <2>1. a \in Nat /\ Len(P) \in Nat /\ IsSeq(P)
    BY ProgramFacts
  <2>2. PICK S : P \in Seq(S)
    BY <2>1 DEF IsSeq
  <2>3. n \in 1..Len(P)
    BY <1>1, <2>1
  <2>4. Head(From(P, n)) = P[n]
    BY <2>2, <2>3, FromFacts
  <2>5. QED
    BY <1>4, <2>4 DEF Next1
<1>6. /\ x.linked => HasFile(tr, P[n].path)
      /\ Alone(x, c, i) => x.linked /\ tr.files[P[n].path] = Empty
  BY <1>5 DEF Storing
<1>7. QED
  BY <1>4, <1>6

LEMMA FillInMoves ==
  ASSUME IInv, NEW t \in Threads, FillIn(t)
  PROVE  \E nx : Moves(t, nx)
<1> DEFINE x == th[t]
           P == Program(x.req)
           a == AdmitAt(x.req)
           i == Target(x.req)
           p == Next1(x).path
<1>1. /\ Busy(x) /\ Next1(x).do = "fill"
      /\ IF x.linked
         THEN \E v \in Overwritten(tree, p, Next1(x).val, Next1(x).fixed) :
                  tree' = [tree EXCEPT !.files[p] = v]
         ELSE tree' = tree
      /\ GoesOn(t, [x EXCEPT !.linked = FALSE], Tail(x.prog), "ok")
  BY DEF FillIn, At, Rest
<1>2. /\ x.req \in AllRequests /\ x.req \in UNION Workloads /\ IsThread(x)
      /\ x.clash \in BOOLEAN /\ x.linked \in BOOLEAN
  BY <1>1, Doing
<1>3. PICK n \in 1..Len(P) : Storing(x, tree, cell, n)
  BY <1>1, Doing
<1>4. /\ Writing(x) /\ Writes(x.req) = {i} /\ i \in Items /\ n \in a + 1..Len(P)
      /\ Tail(x.prog) = From(P, n + 1)
  BY <1>2, <1>3, StoringNext
<1>5. /\ Next1(x) = Fill(P[n]) /\ OpensPart(P, a, n, i, Leaves(x.req))
      /\ P[n].do = "open" /\ P[n].path = p /\ p \in PartsOf(i) /\ Next1(x).val = Leaves(x.req)
      /\ x.linked => HasFile(tree, p)
      /\ Alone(x, cell, i) => x.linked /\ tree.files[p] = Empty
  BY <1>1, <1>2, <1>3, FillingFacts
<1>6. PICK y : /\ IsThread(y) /\ y.req = x.req /\ y.prog = x.prog /\ y.clash = x.clash
               /\ ~y.linked /\ y.linked \in BOOLEAN /\ y.answer = x.answer
               /\ GoesOn(t, y, From(P, n + 1), "ok")
  <2>1. \E y : /\ IsThread(y) /\ y.req = x.req /\ y.prog = x.prog /\ y.clash = x.clash
               /\ y.linked = FALSE /\ y.answer = x.answer /\ GoesOn(t, y, Tail(x.prog), "ok")
    BY <1>1, <1>2, LinkedNext, ZenonT(30)
  <2>2. QED
    BY <1>4, <2>1
<1>7. TreeOK(tree)
  BY DEF IInv
<1>8. SUFFICES /\ FilesStay(tree, tree') /\ TreeOK(tree') /\ Frame({i}, tree, tree')
               /\ Alone(x, cell, i) => StoredBefore(x, tree', n + 1)
               /\ \A q \in DOMAIN tree'.files : tree'.files[q] = Empty =>
                    HasFile(tree, q) /\ tree.files[q] = Empty /\ ~FillsLinked(x, q)
  <2>1. Written(x) = {i}
    BY <1>4 DEF Written
  <2>2. QED
    BY <1>1, <1>3, <1>6, <1>8, <2>1, DoneMoves
<1>9. CASE x.linked
  <2>1. PICK v \in Overwritten(tree, p, Leaves(x.req), Next1(x).fixed) :
            tree' = [tree EXCEPT !.files[p] = v]
    BY <1>1, <1>5, <1>9
  <2>2. v \in Fillings /\ v # Empty /\ (tree.files[p] = Empty => v = Leaves(x.req))
    <3>1. Stores(x.req)
      BY <1>3 DEF Storing
    <3>2. Leaves(x.req) \in Contents
      BY <1>2, <3>1, RequestKinds
    <3>3. /\ v = Leaves(x.req) \/ v = Mixed
          /\ tree.files[p] = Empty => v = Leaves(x.req)
      BY DEF Overwritten
    <3>4. QED
      BY <3>2, <3>3, ContentsDiffer DEF Fillings
  <2>3. i \in tree.dirs
    <3>1. Front(p) = i
      BY <1>4, <1>5, PartsFacts
    <3>2. QED
      BY <1>5, <1>7, <1>9, <3>1 DEF TreeOK, HasFile
  <2>4. tree' = SetFile(tree, p, v)
    BY <1>5, <1>7, <1>9, <2>1, OverwriteIs
  <2>5. FileSet(tree, tree', i, p, v)
    <3> HIDE DEF i, p
    <3>1. QED
      BY <1>4, <1>5, <1>7, <2>2, <2>3, <2>4, SetFileFacts
  <2>6. /\ TreeOK(tree') /\ Frame({i}, tree, tree') /\ FilesStay(tree, tree') /\ tree'.dirs = tree.dirs
        /\ HasFile(tree', p) /\ tree'.files[p] = v
        /\ \A q : q # p => /\ HasFile(tree', q) <=> HasFile(tree, q)
                           /\ HasFile(tree, q) => tree'.files[q] = tree.files[q]
    BY <2>5 DEF FileSet
  <2>7. ASSUME Alone(x, cell, i) PROVE StoredBefore(x, tree', n + 1)
    <3>1. StoredBefore(x, tree, n) /\ v = Leaves(x.req)
      BY <1>3, <1>5, <2>2, <2>7 DEF Storing
    <3>2. StoredBefore(x, tree', n)
      BY <1>5, <2>6, <3>1, StoredStays
    <3>3. QED
      BY <1>2, <1>4, <1>5, <2>6, <3>1, <3>2, StoredUpTo
  <2>8. ASSUME NEW q \in DOMAIN tree'.files, tree'.files[q] = Empty
        PROVE  HasFile(tree, q) /\ tree.files[q] = Empty /\ ~FillsLinked(x, q)
    <3>1. q # p
      BY <2>2, <2>6, <2>8
    <3>2. QED
      BY <2>6, <2>8, <3>1 DEF HasFile, FillsLinked
  <2>9. QED
    BY <2>6, <2>7, <2>8
<1>10. CASE ~x.linked
  <2>1. tree' = tree
    BY <1>1, <1>10
  <2>2. FilesStay(tree, tree') /\ TreeOK(tree') /\ Frame({i}, tree, tree')
    BY <1>7, <2>1 DEF FilesStay, Frame, SameParts
  <2>3. \A q \in DOMAIN tree'.files : tree'.files[q] = Empty =>
            HasFile(tree, q) /\ tree.files[q] = Empty /\ ~FillsLinked(x, q)
    BY <1>10, <2>1 DEF HasFile, FillsLinked
  <2>4. QED
    BY <1>5, <1>10, <2>2, <2>3
<1>11. QED
  BY <1>9, <1>10

-----------------------------------------------------------------------------
\* Removals.

LEMMA ShortConcats ==
  /\ <<>> \o <<>> = <<>>
  /\ \A a : <<a>> \o <<>> = <<a>> /\ <<>> \o <<a>> = <<a>>
  /\ \A a, b : <<a>> \o <<b>> = <<a, b>>
<1>1. <<>> \o <<>> = <<>>
  BY EmptySeq, ConcatEmptySeq
<1>2. ASSUME NEW a PROVE <<a>> \o <<>> = <<a>> /\ <<>> \o <<a>> = <<a>>
  <2>1. <<a>> \in Seq({a})
    OBVIOUS
  <2>2. QED
    BY <2>1, ConcatEmptySeq
<1>3. ASSUME NEW a, NEW b PROVE <<a>> \o <<b>> = <<a, b>>
  <2> DEFINE S == {a, b}
             x == <<a>>
             y == <<b>>
             z == <<a, b>>
  <2>1. /\ x \in Seq(S) /\ y \in Seq(S) /\ z \in Seq(S)
        /\ Len(x) = 1 /\ Len(y) = 1 /\ Len(z) = 2
        /\ x[1] = a /\ y[1] = b /\ z[1] = a /\ z[2] = b
    OBVIOUS
  <2> HIDE DEF x, y, z, S
  <2>2. /\ Len(z) = Len(x) + Len(y)
        /\ \A k \in 1..Len(x) : z[k] = x[k]
        /\ \A k \in 1..Len(y) : z[Len(x) + k] = y[k]
    BY <2>1
  <2>3. x \o y = z
    BY <2>1, <2>2, ConcatIs, Zenon
  <2>4. QED
    BY <2>3 DEF x, y, z
<1>4. QED
  BY <1>1, <1>2, <1>3

\* The names in a directory that a removal lists.
LEMMA EntriesOfItem ==
  ASSUME NEW tr, TreeOK(tr), NEW j \in Items
  PROVE  Entries(tr, j) = Parts(tr, j)
<1>1. ASSUME NEW p \in tr.dirs, p # <<>> PROVE Front(p) # j
  <2>1. p \in Dirs
    BY <1>1 DEF TreeOK
  <2>2. \/ p \in Roots \/ p = KeyDir \/ p = BlockItem \/ \E u \in Users : p = UserDir(u)
        \/ \E u \in Users, k \in {"r", "w"} : p = TokenItem(u, k)
    BY <2>1 DEF Dirs, Items
  <2>3. p \in Roots => p = <<"data_store">> \/ p = <<"key_store">>
    BY <1>1 DEF Roots
  <2>4. <<>> \in Roots /\ <<"data_store">> \in Roots /\ <<"key_store">> \in Roots
    BY DEF Roots
  <2>5. QED
    BY <2>2, <2>3, <2>4, Parents, DirsDiffer
<1>2. ASSUME NEW p \in DOMAIN tr.files PROVE p # <<>> /\ Front(p) = j <=> p \in PartsOf(j)
  <2>1. Front(p) \in Items /\ p \in PartsOf(Front(p))
    BY DEF TreeOK
  <2>2. QED
    BY <2>1, PartsFacts
<1>3. QED
  BY <1>1, <1>2 DEF Entries, Parts

LEMMA EntriesOfUser ==
  ASSUME NEW tr, TreeOK(tr), NEW u \in Users
  PROVE  Entries(tr, UserDir(u)) = {TokenItem(u, "r"), TokenItem(u, "w")} \cap tr.dirs
<1>1. ASSUME NEW p \in tr.dirs
      PROVE  p # <<>> /\ Front(p) = UserDir(u) <=> p \in {TokenItem(u, "r"), TokenItem(u, "w")}
  <2>1. p \in Dirs
    BY <1>1 DEF TreeOK
  <2>2. \/ p \in Roots \/ p = KeyDir \/ p = BlockItem \/ \E v \in Users : p = UserDir(v)
        \/ \E v \in Users, k \in {"r", "w"} : p = TokenItem(v, k)
    BY <2>1 DEF Dirs, Items
  <2>3. p \in Roots => p = <<>> \/ p = <<"data_store">> \/ p = <<"key_store">>
    BY DEF Roots
  <2>4. <<>> \in Roots /\ <<"data_store">> \in Roots /\ <<"key_store">> \in Roots
    BY DEF Roots
  <2>5. CASE p \in Roots \/ p = KeyDir \/ p = BlockItem \/ \E v \in Users : p = UserDir(v)
    <3>1. p = <<>> \/ Front(p) \in Roots \cup {KeyDir}
      BY <2>3, <2>4, <2>5, Parents
    <3>2. p \notin {TokenItem(u, "r"), TokenItem(u, "w")}
      BY <2>5, DirsDiffer, ItemParts
    <3>3. QED
      BY <3>1, <3>2, DirsDiffer
  <2>6. CASE \E v \in Users, k \in {"r", "w"} : p = TokenItem(v, k)
    <3>1. PICK v \in Users, k \in {"r", "w"} : p = TokenItem(v, k)
      BY <2>6
    <3>2. Front(p) = UserDir(v) /\ p # <<>>
      BY <2>4, <3>1, Parents, DirsDiffer
    <3>3. Front(p) = UserDir(u) <=> v = u
      BY <3>2, DirsDiffer
    <3>4. p \in {TokenItem(u, "r"), TokenItem(u, "w")} <=> v = u
      BY <3>1, DirsDiffer
    <3>5. QED
      BY <3>2, <3>3, <3>4
  <2>7. QED
    BY <2>2, <2>5, <2>6
<1>2. ASSUME NEW p \in DOMAIN tr.files PROVE Front(p) # UserDir(u)
  BY DirsDiffer DEF TreeOK
<1>3. ASSUME NEW p \in {TokenItem(u, "r"), TokenItem(u, "w")} PROVE p \notin DOMAIN tr.files
  <2>1. p \in Items
    BY ItemParts
  <2>2. p \in Dirs
    BY <2>1 DEF Dirs
  <2>3. QED
    BY <2>2, PartsFacts DEF TreeOK
<1>4. QED
  BY <1>1, <1>2, <1>3 DEF Entries

\* What is left to do when j is done with.
Rests(x, tr, c, j, tail) ==
    LET D == Removed(x.req) IN
    /\ j \in Writes(x.req) /\ j \in Items
    /\ \/ j = D /\ tail = <<>>
       \/ \E left \in SUBSET Writes(x.req) :
            D \notin Items /\ tail = <<Clear(D, left)>> /\ Cleared(x, tr, c, left, j)

\* What a removal is about to do.
Opening(x, tr, c) ==
    LET d == Next1(x).path IN
    \/ /\ d = Removed(x.req) /\ Tail(x.prog) = <<>>
       /\ \A i \in Writes(x.req) : Alone(x, c, i) => Untouched(tr, c, i)
    \/ Rests(x, tr, c, d, Tail(x.prog)) /\ (Alone(x, c, d) => Present(tr, c, d))

ClearingItem(x, tr, c) ==
    LET d == Next1(x).path IN
    /\ Rests(x, tr, c, d, Tail(x.prog)) /\ Next1(x).left \subseteq PartsOf(d)
    /\ Alone(x, c, d) => Parts(tr, d) = Next1(x).left

ClearingUser(x, tr, c) ==
    LET d == Next1(x).path IN
    /\ d = Removed(x.req) /\ d \notin Items /\ Tail(x.prog) = <<>>
    /\ Next1(x).left \subseteq Writes(x.req) /\ Cleared(x, tr, c, Next1(x).left, d)

LEMMA RemovingIs ==
  ASSUME NEW x, NEW tr, NEW c, x.req \in AllRequests, Removing(x, tr, c)
  PROVE  /\ Next1(x).do = "opendir" => Opening(x, tr, c)
         /\ Next1(x).do = "clear" => ClearingItem(x, tr, c) \/ ClearingUser(x, tr, c)
<1> DEFINE D == Removed(x.req)
           V == Writes(x.req)
<1>1. Removes(x.req) /\ V \subseteq Items /\ (D \in Items => V = {D})
  <2>1. Removes(x.req)
    BY DEF Removing
  <2>2. QED
    BY <2>1, RequestKinds, RemoveFacts
<1>2. CASE x.prog = <<OpenDir(D)>> /\ \A i \in V : Alone(x, c, i) => Untouched(tr, c, i)
  <2>1. Next1(x) = OpenDir(D) /\ Tail(x.prog) = <<>>
    BY <1>2, OneOrTwo DEF Next1
  <2>2. Next1(x).do = "opendir" /\ Next1(x).path = D
    BY <2>1, InstructionFields
  <2>3. Opening(x, tr, c)
    BY <1>2, <2>1, <2>2 DEF Opening
  <2>4. QED
    BY <2>2, <2>3
<1>3. ASSUME NEW left \in SUBSET PartsOf(D), D \in Items, x.prog = <<Clear(D, left)>>,
             Alone(x, c, D) => Parts(tr, D) = left
      PROVE  Next1(x).do = "clear" /\ ClearingItem(x, tr, c)
  <2>1. Next1(x) = Clear(D, left) /\ Tail(x.prog) = <<>>
    BY <1>3, OneOrTwo DEF Next1
  <2>2. Next1(x).do = "clear" /\ Next1(x).path = D /\ Next1(x).left = left
    BY <2>1, InstructionFields
  <2>3. Rests(x, tr, c, D, <<>>)
    BY <1>1, <1>3 DEF Rests
  <2>4. QED
    BY <1>3, <2>1, <2>2, <2>3 DEF ClearingItem
<1>4. ASSUME NEW left \in SUBSET V, D \notin Items,
             x.prog = <<Clear(D, left)>>, Cleared(x, tr, c, left, D)
      PROVE  Next1(x).do = "clear" /\ ClearingUser(x, tr, c)
  <2>1. Next1(x) = Clear(D, left) /\ Tail(x.prog) = <<>>
    BY <1>4, OneOrTwo DEF Next1
  <2>2. Next1(x).do = "clear" /\ Next1(x).path = D /\ Next1(x).left = left
    BY <2>1, InstructionFields
  <2>3. QED
    BY <1>4, <2>1, <2>2 DEF ClearingUser
<1>5. ASSUME NEW left \in SUBSET V, NEW j \in V, D \notin Items, Cleared(x, tr, c, left, j),
             x.prog = <<OpenDir(j), Clear(D, left)>>, Alone(x, c, j) => Present(tr, c, j)
      PROVE  Next1(x).do = "opendir" /\ Opening(x, tr, c)
  <2>1. Next1(x) = OpenDir(j) /\ Tail(x.prog) = <<Clear(D, left)>>
    BY <1>5, OneOrTwo DEF Next1
  <2>2. Next1(x).do = "opendir" /\ Next1(x).path = j
    BY <2>1, InstructionFields
  <2>3. Rests(x, tr, c, j, Tail(x.prog))
    BY <1>1, <1>5, <2>1 DEF Rests
  <2>4. QED
    BY <1>5, <2>2, <2>3 DEF Opening
<1>6. ASSUME NEW left \in SUBSET V, NEW j \in V, D \notin Items, Cleared(x, tr, c, left, j),
             NEW more \in SUBSET PartsOf(j), x.prog = <<Clear(j, more), Clear(D, left)>>,
             Alone(x, c, j) => Parts(tr, j) = more
      PROVE  Next1(x).do = "clear" /\ ClearingItem(x, tr, c)
  <2>1. Next1(x) = Clear(j, more) /\ Tail(x.prog) = <<Clear(D, left)>>
    BY <1>6, OneOrTwo DEF Next1
  <2>2. Next1(x).do = "clear" /\ Next1(x).path = j /\ Next1(x).left = more
    BY <2>1, InstructionFields
  <2>3. Rests(x, tr, c, j, Tail(x.prog))
    BY <1>1, <1>6, <2>1 DEF Rests
  <2>4. QED
    BY <1>6, <2>2, <2>3 DEF ClearingItem
<1>7. \/ x.prog = <<OpenDir(D)>> /\ \A i \in V : Alone(x, c, i) => Untouched(tr, c, i)
      \/ \E left \in SUBSET PartsOf(D) :
            /\ D \in Items /\ x.prog = <<Clear(D, left)>>
            /\ Alone(x, c, D) => Parts(tr, D) = left
      \/ \E left \in SUBSET V :
            /\ D \notin Items
            /\ \/ x.prog = <<Clear(D, left)>> /\ Cleared(x, tr, c, left, D)
               \/ \E j \in V :
                    /\ Cleared(x, tr, c, left, j)
                    /\ \/ /\ x.prog = <<OpenDir(j), Clear(D, left)>>
                          /\ Alone(x, c, j) => Present(tr, c, j)
                       \/ \E more \in SUBSET PartsOf(j) :
                            /\ x.prog = <<Clear(j, more), Clear(D, left)>>
                            /\ Alone(x, c, j) => Parts(tr, j) = more
  BY DEF Removing
<1> HIDE DEF D, V
<1>8. QED
  BY <1>2, <1>3, <1>4, <1>5, <1>6, <1>7

LEMMA RemovingOK ==
  ASSUME NEW y, IsThread(y), y.req \in AllRequests, y.req \in UNION Workloads,
         y.clash \in BOOLEAN, y.linked \in BOOLEAN,
         NEW tr, NEW c, Removing(y, tr, c)
  PROVE  ThreadOK(y, tr, c) /\ Writing(y)
<1>1. Busy(y) /\ Writing(y)
  BY RemovingNext
<1>2. QED
  BY <1>1 DEF ThreadOK, IsThread, Marked, Busy

\* The thread x with the instructions rest.
Removal(x, y, rest) ==
    /\ IsThread(y) /\ y.prog = rest /\ y.req = x.req /\ y.clash = x.clash
    /\ ~y.linked /\ y.linked \in BOOLEAN /\ Removes(x.req)

LEMMA SameAlone ==
  ASSUME NEW x, NEW y, NEW rest, Removal(x, y, rest)
  PROVE  /\ \A c, i : Alone(y, c, i) <=> Alone(x, c, i)
         /\ \A tr, c, left, j : Cleared(y, tr, c, left, j) <=> Cleared(x, tr, c, left, j)
<1>1. \A c, i : Alone(y, c, i) <=> Alone(x, c, i)
  BY DEF Alone, Removal
<1>2. y.req = x.req
  BY DEF Removal
<1>3. QED
  BY <1>1, <1>2 DEF Cleared

LEMMA ItemCleared ==
  ASSUME NEW x, NEW tr, NEW c, NEW j, NEW tail, Rests(x, tr, c, j, tail),
         NEW more \in SUBSET PartsOf(j), Alone(x, c, j) => Parts(tr, j) = more,
         NEW y, Removal(x, y, <<Clear(j, more)>> \o tail)
  PROVE  Removing(y, tr, c)
<1> DEFINE D == Removed(x.req)
           V == Writes(x.req)
<1>1. y.req = x.req /\ Removes(y.req) /\ ~y.linked /\ y.prog = <<Clear(j, more)>> \o tail
  BY DEF Removal
<1>2. Alone(y, c, j) => Parts(tr, j) = more
  BY SameAlone
<1>3. CASE j = D /\ tail = <<>>
  <2>1. y.prog = <<Clear(D, more)>> /\ D \in Items
    BY <1>1, <1>3, ShortConcats DEF Rests
  <2>2. QED
    BY <1>1, <1>2, <1>3, <2>1 DEF Removing
<1>4. ASSUME NEW left \in SUBSET V, D \notin Items, tail = <<Clear(D, left)>>, Cleared(x, tr, c, left, j)
      PROVE  Removing(y, tr, c)
  <2>1. y.prog = <<Clear(j, more), Clear(D, left)>> /\ j \in V
    BY <1>1, <1>4, ShortConcats DEF Rests
  <2>2. Cleared(y, tr, c, left, j)
    BY <1>4, SameAlone
  <2>3. QED
    BY <1>1, <1>2, <1>4, <2>1, <2>2 DEF Removing
<1>5. QED
  BY <1>3, <1>4 DEF Rests

\* j is done with: the removal goes on, or nothing is left of any item.
LEMMA ItemGone ==
  ASSUME NEW x, NEW tr, NEW c, NEW j, NEW tail, Rests(x, tr, c, j, tail), Removes(x.req),
         x.req \in AllRequests, Alone(x, c, j) => Parts(tr, j) = {}
  PROVE  /\ tail = <<>> => \A i \in Writes(x.req) : Alone(x, c, i) => Parts(tr, i) = {}
         /\ tail # <<>> => \A y : Removal(x, y, tail) => Removing(y, tr, c)
<1> DEFINE D == Removed(x.req)
           V == Writes(x.req)
<1>1. V \subseteq Items /\ (D \in Items => V = {D})
  BY RequestKinds, RemoveFacts
<1>2. CASE j = D /\ tail = <<>>
  <2>1. V = {j}
    BY <1>1, <1>2 DEF Rests
  <2>2. QED
    BY <1>2, <2>1
<1>3. ASSUME NEW left \in SUBSET V, D \notin Items, tail = <<Clear(D, left)>>, Cleared(x, tr, c, left, j)
      PROVE  tail # <<>> /\ \A y : Removal(x, y, tail) => Removing(y, tr, c)
  <2>1. tail # <<>>
    BY <1>3, OneOrTwo
  <2>2. Cleared(x, tr, c, left, D)
    <3>1. ASSUME NEW i \in V, Alone(x, c, i)
          PROVE  IF i \in left THEN Present(tr, c, i) ELSE Parts(tr, i) = {}
      BY <1>3, <3>1 DEF Cleared
    <3>2. D \notin V
      BY <1>1, <1>3
    <3>3. QED
      BY <1>3, <3>1, <3>2 DEF Cleared
  <2>3. ASSUME NEW y, Removal(x, y, tail) PROVE Removing(y, tr, c)
    <3>1. y.req = x.req /\ Removes(y.req) /\ ~y.linked /\ y.prog = <<Clear(D, left)>>
      BY <1>3, <2>3 DEF Removal
    <3>2. Cleared(y, tr, c, left, D)
      BY <2>2, <2>3, SameAlone
    <3>3. QED
      BY <1>3, <3>1, <3>2 DEF Removing
  <2>4. QED
    BY <2>1, <2>3
<1>4. QED
  BY <1>2, <1>3 DEF Rests

\* A thread that removes goes on with rest, or is through.
LEMMA RemovalGoesOn ==
  ASSUME IInv, NEW t \in Threads, Busy(th[t]), Removing(th[t], tree, cell),
         NEW rest, GoesOn(t, th[t], rest, "ok"), FilesStay(tree, tree'), TreeOK(tree'),
         Frame(Written(th[t]), tree, tree'), tree'.files = tree.files,
         rest = <<>> => \A i \in Writes(th[t].req) : Alone(th[t], cell, i) => Final(th[t], tree', cell, i),
         rest # <<>> => \A y : Removal(th[t], y, rest) => Removing(y, tree', cell)
  PROVE  \E nx : Moves(t, nx)
<1> DEFINE x == th[t]
<1>1. /\ x.req \in AllRequests /\ x.req \in UNION Workloads /\ IsThread(x)
      /\ x.clash \in BOOLEAN /\ x.linked \in BOOLEAN
  BY Doing
<1>2. Writing(x) /\ ~x.linked /\ Removes(x.req)
  BY <1>1, RemovingNext DEF Removing
<1>3. \A p : ~FillsLinked(x, p)
  BY <1>2, NotFilling
<1>4. CASE rest = <<>>
  <2>1. \A p \in DOMAIN tree'.files : tree'.files[p] = Empty =>
            HasFile(tree, p) /\ tree.files[p] = Empty /\ ~FillsLinked(x, p)
    BY <1>3 DEF HasFile
  <2>2. GoesOn(t, x, <<>>, "ok")
    BY <1>4
  <2>3. Moves(t, NextOf(x, <<>>, "ok"))
    BY <1>1, <1>2, <1>4, <2>1, <2>2, CompletesMoves
  <2>4. QED
    BY <2>3
<1>5. CASE rest # <<>>
  <2> DEFINE nx == On(x, rest)
  <2>1. /\ IsThread(nx) /\ nx.prog = rest /\ nx.req = x.req /\ nx.linked = x.linked
        /\ nx.clash = x.clash
    BY <1>1, OnNext
  <2> HIDE DEF nx
  <2>2. Removal(x, nx, rest)
    BY <1>1, <1>2, <2>1 DEF Removal
  <2>3. Removing(nx, tree', cell)
    BY <1>5, <2>2
  <2>4. ThreadOK(nx, tree', cell) /\ Writing(nx)
    BY <1>1, <2>1, <2>3, RemovingOK
  <2>5. EmptiesOK(x, nx, tree, tree')
    BY <1>3 DEF EmptiesOK, HasFile
  <2>6. Moves(t, nx)
    BY <1>1, <1>2, <1>5, <2>4, <2>5, GoesOnMoves DEF nx
  <2>7. QED
    BY <2>6
<1>6. QED
  BY <1>4, <1>5

LEMMA NoDirNoParts ==
  ASSUME NEW tr, TreeOK(tr), NEW i \in Items, i \notin tr.dirs
  PROVE  Parts(tr, i) = {}
<1>1. ASSUME NEW p \in PartsOf(i), p \in DOMAIN tr.files PROVE FALSE
  BY <1>1, PartsFacts DEF TreeOK
<1>2. QED
  BY <1>1 DEF Parts

LEMMA NothingLeft ==
  ASSUME NEW x, x.req \in AllRequests, Removes(x.req), NEW tr, TreeOK(tr), NEW c,
         NEW i \in Writes(x.req), Parts(tr, i) = {}
  PROVE  Final(x, tr, c, i)
<1>1. i \in Items /\ Leaves(x.req) = Absent
  BY RequestKinds
<1>2. Stored(tr, i) = Absent
  BY <1>1, StoredFacts
<1>3. QED
  BY <1>1, <1>2 DEF Final

\* The directory that x opens is not there.
LEMMA OpensNothing ==
  ASSUME IInv, NEW x, x.req \in AllRequests, Removing(x, tree, cell), Next1(x).do = "opendir",
         Next1(x).path \notin tree.dirs, NEW rest, rest = Tail(x.prog)
  PROVE  /\ rest = <<>> => \A i \in Writes(x.req) : Alone(x, cell, i) => Final(x, tree, cell, i)
         /\ rest # <<>> => \A y : Removal(x, y, rest) => Removing(y, tree, cell)
<1> DEFINE d == Next1(x).path
<1>1. TreeOK(tree) /\ Removes(x.req)
  BY DEF IInv, Removing
<1>2. Opening(x, tree, cell) /\ Writes(x.req) \subseteq Items
  BY RemovingIs, RequestKinds
<1>3. CASE d = Removed(x.req) /\ rest = <<>>
  <2>1. ASSUME NEW i \in Writes(x.req) PROVE i \notin tree.dirs
    <3>1. CASE Removed(x.req) \in Items /\ Writes(x.req) = {Removed(x.req)}
      BY <1>3, <3>1
    <3>2. ASSUME NEW u \in Users, Removed(x.req) = UserDir(u),
                 Writes(x.req) = {TokenItem(u, "r"), TokenItem(u, "w")}
          PROVE  i \notin tree.dirs
      BY <1>1, <1>3, <3>2 DEF TreeOK
    <3>3. QED
      BY <1>1, <3>1, <3>2, RemoveFacts
  <2>2. ASSUME NEW i \in Writes(x.req) PROVE Parts(tree, i) = {}
    BY <1>1, <1>2, <2>1, NoDirNoParts
  <2>3. QED
    BY <1>1, <1>3, <2>2, NothingLeft
<1>4. CASE Rests(x, tree, cell, d, rest)
  <2>1. Parts(tree, d) = {}
    BY <1>1, <1>4, NoDirNoParts DEF Rests
  <2>2. /\ rest = <<>> => \A i \in Writes(x.req) : Alone(x, cell, i) => Parts(tree, i) = {}
        /\ rest # <<>> => \A y : Removal(x, y, rest) => Removing(y, tree, cell)
    BY <1>1, <1>4, <2>1, ItemGone
  <2>3. QED
    BY <1>1, <2>2, NothingLeft
<1>5. QED
  BY <1>2, <1>3, <1>4 DEF Opening

\* It is there.
LEMMA OpensListed ==
  ASSUME IInv, NEW x, x.req \in AllRequests, Removing(x, tree, cell), Next1(x).do = "opendir",
         Next1(x).path \in tree.dirs,
         NEW y, Removal(x, y, <<Clear(Next1(x).path, Entries(tree, Next1(x).path))>> \o Tail(x.prog))
  PROVE  Removing(y, tree, cell)
<1> DEFINE d == Next1(x).path
           E == Entries(tree, d)
<1>1. TreeOK(tree) /\ Removes(x.req)
  BY DEF IInv, Removing
<1>2. Opening(x, tree, cell) /\ Writes(x.req) \subseteq Items
  BY RemovingIs, RequestKinds
<1>3. ASSUME Rests(x, tree, cell, d, Tail(x.prog)) PROVE Removing(y, tree, cell)
  <2>1. E = Parts(tree, d) /\ E \in SUBSET PartsOf(d)
    BY <1>1, <1>3, EntriesOfItem DEF Rests, Parts
  <2> HIDE DEF E, d
  <2>2. QED
    BY <1>3, <2>1, ItemCleared DEF E, d
<1>4. CASE d = Removed(x.req) /\ Tail(x.prog) = <<>> /\ d \in Items
  <2>1. Writes(x.req) = {d}
    BY <1>1, <1>4, RemoveFacts
  <2>2. Rests(x, tree, cell, d, Tail(x.prog))
    BY <1>4, <2>1 DEF Rests
  <2>3. QED
    BY <1>3, <2>2
<1>5. CASE /\ d = Removed(x.req) /\ Tail(x.prog) = <<>> /\ d \notin Items
           /\ \A i \in Writes(x.req) : Alone(x, cell, i) => Untouched(tree, cell, i)
  <2>1. PICK u \in Users : d = UserDir(u) /\ Writes(x.req) = {TokenItem(u, "r"), TokenItem(u, "w")}
    BY <1>1, <1>5, RemoveFacts
  <2>2. E = Writes(x.req) \cap tree.dirs
    BY <1>1, <2>1, EntriesOfUser
  <2>3. y.prog = <<Clear(d, E)>> /\ y.req = x.req /\ Removes(y.req) /\ ~y.linked
    <3>1. y.prog = <<Clear(d, E)>> \o <<>>
      BY <1>5 DEF Removal
    <3>2. QED
      BY <1>1, <3>1, ShortConcats DEF Removal
  <2> HIDE DEF E
  <2>4. ASSUME NEW i \in Writes(x.req), Alone(x, cell, i)
        PROVE  IF i \in E THEN Present(tree, cell, i) ELSE Parts(tree, i) = {}
    <3>1. Untouched(tree, cell, i)
      BY <1>5, <2>4
    <3>2. i \in E => Present(tree, cell, i)
      BY <2>2, <3>1 DEF Present
    <3>3. i \notin E => Parts(tree, i) = {}
      BY <1>1, <1>2, <2>2, NoDirNoParts
    <3>4. QED
      BY <3>2, <3>3
  <2>5. Cleared(x, tree, cell, E, d)
    <3>1. E \subseteq Writes(x.req) \ {d}
      BY <1>2, <1>5, <2>2
    <3>2. QED
      BY <2>4, <3>1 DEF Cleared
  <2>6. Cleared(y, tree, cell, E, d)
    BY <2>5, SameAlone
  <2>7. E \in SUBSET Writes(y.req)
    BY <2>2, <2>3
  <2>8. QED
    BY <1>5, <2>3, <2>6, <2>7 DEF Removing
<1>6. QED
  BY <1>2, <1>3, <1>4, <1>5 DEF Opening

LEMMA OpensMoves ==
  ASSUME IInv, NEW t \in Threads, Opens(t)
  PROVE  \E nx : Moves(t, nx)
<1> DEFINE x == th[t]
           d == Next1(x).path
           there == <<Clear(d, Entries(tree, d))>> \o Tail(x.prog)
<1>1. /\ Busy(x) /\ Next1(x).do = "opendir" /\ tree' = tree
      /\ GoesOn(t, x, (IF d \in tree.dirs THEN <<Clear(d, Entries(tree, d))>> ELSE <<>>) \o Tail(x.prog), "ok")
  BY DEF Opens, At, Rest
<1>2. x.req \in AllRequests /\ Removing(x, tree, cell)
  BY <1>1, Doing
<1>3. TreeOK(tree') /\ Frame(Written(x), tree, tree') /\ FilesStay(tree, tree') /\ tree'.files = tree.files
  BY <1>1 DEF IInv, Frame, SameParts, FilesStay
<1>4. \E S : Tail(x.prog) \in Seq(S)
  <2>1. Opening(x, tree, cell)
    BY <1>1, <1>2, RemovingIs
  <2>2. Tail(x.prog) = <<>> \/ \E left : Tail(x.prog) = <<Clear(Removed(x.req), left)>>
    BY <2>1 DEF Opening, Rests
  <2>3. CASE Tail(x.prog) = <<>>
    <3>1. Tail(x.prog) \in Seq({})
      BY <2>3, EmptySeq
    <3>2. QED
      BY <3>1
  <2>4. ASSUME NEW in, Tail(x.prog) = <<in>>
        PROVE  \E S : Tail(x.prog) \in Seq(S)
    <3>1. <<in>> \in Seq({in})
      OBVIOUS
    <3>2. QED
      BY <2>4, <3>1
  <2>5. QED
    BY <2>2, <2>3, <2>4
<1>5. CASE d \in tree.dirs
  <2>1. GoesOn(t, x, there, "ok")
    BY <1>1, <1>5
  <2>2. there # <<>>
    BY <1>4, PutInFront
  <2>3. \A y : Removal(x, y, there) => Removing(y, tree', cell)
    BY <1>1, <1>2, <1>5, OpensListed
  <2> HIDE DEF there
  <2>4. QED
    BY <1>1, <1>2, <1>3, <2>1, <2>2, <2>3, RemovalGoesOn
<1>6. CASE d \notin tree.dirs
  <2> DEFINE rest == Tail(x.prog)
  <2>1. GoesOn(t, x, rest, "ok")
    <3>1. <<>> \o rest = rest
      BY <1>4, ConcatEmptySeq
    <3>2. QED
      BY <1>1, <1>6, <3>1
  <2> HIDE DEF rest
  <2>2. /\ rest = <<>> => \A i \in Writes(x.req) : Alone(x, cell, i) => Final(x, tree, cell, i)
        /\ rest # <<>> => \A y : Removal(x, y, rest) => Removing(y, tree, cell)
    BY <1>1, <1>2, <1>6, OpensNothing DEF rest
  <2>3. QED
    BY <1>1, <1>2, <1>3, <2>1, <2>2, RemovalGoesOn
<1>7. QED
  BY <1>5, <1>6

\* What has been cleared stays so when the files of the other items stay.
LEMMA ClearedKept ==
  ASSUME NEW x, x.req \in AllRequests, NEW tr, NEW tr2, NEW c, NEW left, NEW j,
         Cleared(x, tr, c, left, j), tr.dirs \ {j} \subseteq tr2.dirs,
         \A i \in Items \ {j} : SameParts(i, tr, tr2)
  PROVE  Cleared(x, tr2, c, left, j)
<1>1. Writes(x.req) \subseteq Items
  BY RequestKinds
<1>2. ASSUME NEW i \in Writes(x.req) \ {j}, Alone(x, c, i)
      PROVE  IF i \in left THEN Present(tr2, c, i) ELSE Parts(tr2, i) = {}
  <2>1. SameParts(i, tr, tr2)
    BY <1>1, <1>2
  <2>2. Stored(tr2, i) = Stored(tr, i)
    BY <2>1, StoredSame
  <2>3. Parts(tr2, i) = Parts(tr, i)
    BY <2>1 DEF SameParts, Parts, HasFile
  <2>4. i \in tr.dirs => i \in tr2.dirs
    BY <1>2
  <2>5. IF i \in left THEN Present(tr, c, i) ELSE Parts(tr, i) = {}
    BY <1>2 DEF Cleared
  <2>6. QED
    BY <2>2, <2>3, <2>4, <2>5 DEF Present, Untouched
<1>3. QED
  BY <1>2 DEF Cleared

LEMMA RestsKept ==
  ASSUME NEW x, x.req \in AllRequests, NEW tr, NEW tr2, NEW c, NEW j, NEW tail,
         Rests(x, tr, c, j, tail), tr.dirs \ {j} \subseteq tr2.dirs,
         \A i \in Items \ {j} : SameParts(i, tr, tr2)
  PROVE  Rests(x, tr2, c, j, tail)
  BY ClearedKept DEF Rests

\* rmdir.
LEMMA RemoveDirFacts ==
  ASSUME NEW tr, TreeOK(tr), NEW W, NEW d \in Gone(W), NEW tr2, tr2 = RemoveDir(tr, d)
  PROVE  /\ TreeOK(tr2) /\ tr2.files = tr.files /\ tr.dirs \ {d} \subseteq tr2.dirs
         /\ Frame(W, tr, tr2) /\ FilesStay(tr, tr2)
<1>1. d \in Items \/ \E u \in Users : d = UserDir(u)
  BY DEF Gone
<1>2. CASE d \in tr.dirs /\ Entries(tr, d) = {}
  <2>1. d \notin DOMAIN tr.files
    <3>1. d \in Dirs
      BY <1>1 DEF Dirs
    <3>2. QED
      BY <3>1, PartsFacts DEF TreeOK
  <2>2. tr2 = Without(tr, d) /\ DOMAIN tr.files \ {d} = DOMAIN tr.files
    BY <1>2, <2>1 DEF RemoveDir
  <2>3. tr.files = [q \in DOMAIN tr.files |-> tr.files[q]]
    BY DEF TreeOK
  <2>4. tr2 = [dirs |-> tr.dirs \ {d}, files |-> tr.files]
    BY <2>2, <2>3 DEF Without
  <2>5. tr2.dirs = tr.dirs \ {d} /\ tr2.files = tr.files /\ tr2 = [dirs |-> tr2.dirs, files |-> tr2.files]
    BY <2>4
  <2>6. d \notin Roots
    BY <1>1, DirsDiffer
  <2>7. ASSUME NEW p \in DOMAIN tr.files PROVE Front(p) # d
    <3>1. Front(p) \in Items /\ p \in PartsOf(Front(p))
      BY DEF TreeOK
    <3>2. p # <<>>
      BY <3>1, PartsFacts
    <3>3. QED
      BY <1>2, <3>2 DEF Entries
  <2>8. ASSUME NEW u \in Users, NEW k \in {"r", "w"}, TokenItem(u, k) \in tr.dirs
        PROVE  UserDir(u) # d /\ UserDir(u) \in tr.dirs
    <3>1. Front(TokenItem(u, k)) = UserDir(u) /\ TokenItem(u, k) # <<>>
      BY Parents, DirsDiffer DEF Roots
    <3>2. UserDir(u) # d
      BY <1>2, <2>8, <3>1 DEF Entries
    <3>3. QED
      BY <2>8, <3>2 DEF TreeOK
  <2>9. TreeOK(tr2)
    <3>1. \A p \in DOMAIN tr2.files :
            /\ tr2.files[p] \in Fillings
            /\ Front(p) \in Items \cap tr2.dirs /\ p \in PartsOf(Front(p))
      BY <2>5, <2>7 DEF TreeOK
    <3>2. Roots \subseteq tr2.dirs /\ tr2.dirs \subseteq Dirs
      BY <2>5, <2>6 DEF TreeOK
    <3>3. \A u \in Users, k \in {"r", "w"} : TokenItem(u, k) \in tr2.dirs => UserDir(u) \in tr2.dirs
      BY <2>5, <2>8
    <3>4. QED
      BY <2>3, <2>5, <3>1, <3>2, <3>3 DEF TreeOK
  <2>10. Frame(W, tr, tr2) /\ FilesStay(tr, tr2)
    BY <2>5 DEF Frame, FilesStay, SameParts, HasFile
  <2>11. QED
    BY <2>5, <2>9, <2>10
<1>3. CASE ~(d \in tr.dirs /\ Entries(tr, d) = {})
  <2>1. tr2 = tr
    BY <1>3 DEF RemoveDir
  <2>2. QED
    BY <2>1 DEF Frame, FilesStay, SameParts
<1>4. QED
  BY <1>2, <1>3

\* unlink.
LEMMA UnlinkFacts ==
  ASSUME NEW tr, TreeOK(tr), NEW j \in Items, NEW p \in PartsOf(j), NEW tr2, tr2 = Without(tr, p)
  PROVE  /\ TreeOK(tr2) /\ tr2.dirs = tr.dirs /\ Parts(tr2, j) = Parts(tr, j) \ {p}
         /\ \A i \in Items \ {j} : SameParts(i, tr, tr2)
         /\ \A q : HasFile(tr2, q) <=> HasFile(tr, q) /\ q # p
         /\ \A q : HasFile(tr2, q) => tr2.files[q] = tr.files[q]
<1>1. p \notin tr.dirs
  BY PartsFacts DEF TreeOK
<1>2. /\ tr2.dirs = tr.dirs /\ DOMAIN tr2.files = DOMAIN tr.files \ {p}
      /\ tr2 = [dirs |-> tr2.dirs, files |-> tr2.files]
      /\ tr2.files = [q \in DOMAIN tr2.files |-> tr2.files[q]]
      /\ \A q \in DOMAIN tr2.files : tr2.files[q] = tr.files[q]
  BY <1>1 DEF Without
<1>3. ASSUME NEW q \in DOMAIN tr2.files
      PROVE  /\ tr2.files[q] \in Fillings
             /\ Front(q) \in Items \cap tr2.dirs /\ q \in PartsOf(Front(q))
  BY <1>2 DEF TreeOK
<1>4. TreeOK(tr2)
  BY <1>2, <1>3 DEF TreeOK
<1>5. /\ \A q : HasFile(tr2, q) <=> HasFile(tr, q) /\ q # p
      /\ \A q : HasFile(tr2, q) => tr2.files[q] = tr.files[q]
  BY <1>2 DEF HasFile
<1>6. \A i \in Items \ {j} : p \notin PartsOf(i)
  BY PartsFacts
<1>7. \A i \in Items \ {j} : SameParts(i, tr, tr2)
  BY <1>5, <1>6 DEF SameParts
<1>8. Parts(tr2, j) = Parts(tr, j) \ {p}
  BY <1>2 DEF Parts
<1>9. QED
  BY <1>2, <1>4, <1>5, <1>7, <1>8

\* A thread that is clearing a directory.
LEMMA ClearingFacts ==
  ASSUME IInv, NEW t \in Threads, At(t, "clear")
  PROVE  LET x == th[t] IN
         /\ Busy(x) /\ x.req \in AllRequests /\ Removing(x, tree, cell) /\ Removes(x.req)
         /\ Writing(x) /\ Written(x) = Writes(x.req) /\ Writes(x.req) \subseteq Items
         /\ ClearingItem(x, tree, cell) \/ ClearingUser(x, tree, cell)
         /\ Next1(x).path \in Gone(Writes(x.req)) /\ ~x.linked
<1> DEFINE x == th[t]
<1>1. Busy(x) /\ Next1(x).do = "clear"
  BY DEF At
<1>2. x.req \in AllRequests /\ Removing(x, tree, cell)
  BY <1>1, Doing
<1>3. Removes(x.req) /\ Writing(x) /\ Writes(x.req) \subseteq Items /\ ~x.linked
  BY <1>2, RemovingNext, RequestKinds DEF Removing
<1>4. ClearingItem(x, tree, cell) \/ ClearingUser(x, tree, cell)
  BY <1>1, <1>2, RemovingIs
<1>5. ClearingItem(x, tree, cell) => Next1(x).path \in Gone(Writes(x.req))
  BY DEF ClearingItem, Rests, Gone
<1>6. ClearingUser(x, tree, cell) => Next1(x).path \in Gone(Writes(x.req))
  BY <1>2, <1>3, RemoveFacts DEF ClearingUser
<1>7. QED
  BY <1>1, <1>2, <1>3, <1>4, <1>5, <1>6 DEF Written

LEMMA RmdirMoves ==
  ASSUME IInv, NEW t \in Threads, At(t, "clear"), Next1(th[t]).left = {},
         tree' = RemoveDir(tree, Next1(th[t]).path), Goes(t)
  PROVE  \E nx : Moves(t, nx)
<1> DEFINE x == th[t]
           d == Next1(x).path
           tail == Tail(x.prog)
<1>1. /\ Busy(x) /\ x.req \in AllRequests /\ Removing(x, tree, cell) /\ Removes(x.req)
      /\ Written(x) = Writes(x.req) /\ Writes(x.req) \subseteq Items
      /\ ClearingItem(x, tree, cell) \/ ClearingUser(x, tree, cell)
      /\ d \in Gone(Writes(x.req))
  BY ClearingFacts
<1>2. GoesOn(t, x, tail, "ok")
  BY DEF Goes, Rest
<1>3. /\ TreeOK(tree') /\ tree'.files = tree.files /\ tree.dirs \ {d} \subseteq tree'.dirs
      /\ Frame(Writes(x.req), tree, tree') /\ FilesStay(tree, tree')
  BY <1>1, RemoveDirFacts DEF IInv
<1>4. \A i : SameParts(i, tree, tree') /\ Parts(tree', i) = Parts(tree, i)
  BY <1>3 DEF SameParts, HasFile, Parts
<1> HIDE DEF tail
<1>5. SUFFICES /\ tail = <<>> => \A i \in Writes(x.req) : Alone(x, cell, i) => Final(x, tree', cell, i)
               /\ tail # <<>> => \A y : Removal(x, y, tail) => Removing(y, tree', cell)
  BY <1>1, <1>2, <1>3, <1>5, RemovalGoesOn
<1>6. CASE ClearingItem(x, tree, cell)
  <2>1. Rests(x, tree, cell, d, tail) /\ (Alone(x, cell, d) => Parts(tree, d) = {})
    BY <1>6 DEF ClearingItem, tail
  <2>2. Rests(x, tree', cell, d, tail)
    BY <1>1, <1>3, <1>4, <2>1, RestsKept
  <2>3. /\ tail = <<>> => \A i \in Writes(x.req) : Alone(x, cell, i) => Parts(tree', i) = {}
        /\ tail # <<>> => \A y : Removal(x, y, tail) => Removing(y, tree', cell)
    BY <1>1, <1>4, <2>1, <2>2, ItemGone
  <2>4. QED
    BY <1>1, <1>3, <2>3, NothingLeft
<1>7. CASE ClearingUser(x, tree, cell)
  <2>1. tail = <<>> /\ d \notin Items /\ Cleared(x, tree, cell, {}, d)
    BY <1>7 DEF ClearingUser, tail
  <2>2. ASSUME NEW i \in Writes(x.req), Alone(x, cell, i) PROVE Parts(tree', i) = {}
    <3>1. i \in Writes(x.req) \ {d}
      BY <1>1, <2>1
    <3>2. QED
      BY <1>4, <2>1, <2>2, <3>1 DEF Cleared
  <2>3. QED
    BY <1>1, <1>3, <2>1, <2>2, NothingLeft
<1>8. QED
  BY <1>1, <1>6, <1>7

\* The name is a directory.
LEMMA NestedMoves ==
  ASSUME IInv, NEW t \in Threads, At(t, "clear"), NEW p \in Next1(th[t]).left, p \in tree.dirs,
         tree' = tree,
         GoesOn(t, th[t], <<OpenDir(p)>> \o (<<Clear(Next1(th[t]).path, Next1(th[t]).left \ {p})>> \o Rest(t)), "ok")
  PROVE  \E nx : Moves(t, nx)
<1> DEFINE x == th[t]
           d == Next1(x).path
           left == Next1(x).left \ {p}
           rest == <<OpenDir(p), Clear(d, left)>>
<1>1. /\ Busy(x) /\ x.req \in AllRequests /\ Removing(x, tree, cell) /\ Removes(x.req)
      /\ Written(x) = Writes(x.req) /\ Writes(x.req) \subseteq Items
      /\ ClearingItem(x, tree, cell) \/ ClearingUser(x, tree, cell)
  BY ClearingFacts
<1>2. TreeOK(tree)
  BY DEF IInv
<1>3. ~ClearingItem(x, tree, cell)
  <2>1. p \in Dirs
    BY <1>2 DEF TreeOK
  <2>2. QED
    BY <2>1, PartsFacts DEF ClearingItem, Rests
<1>4. /\ d = Removed(x.req) /\ d \notin Items /\ Tail(x.prog) = <<>>
      /\ Next1(x).left \subseteq Writes(x.req) /\ Cleared(x, tree, cell, Next1(x).left, d)
  BY <1>1, <1>3 DEF ClearingUser
<1>5. GoesOn(t, x, rest, "ok")
  <2>1. <<Clear(d, left)>> \o Rest(t) = <<Clear(d, left)>>
    BY <1>4, ShortConcats DEF Rest
  <2>2. <<OpenDir(p)>> \o (<<Clear(d, left)>> \o Rest(t)) = rest
    BY <2>1, ShortConcats
  <2>3. QED
    BY <2>2
<1>6. rest # <<>>
  BY OneOrTwo
<1>7. ASSUME NEW i \in Writes(x.req), Alone(x, cell, i)
      PROVE  IF i \in Next1(x).left THEN Present(tree, cell, i) ELSE Parts(tree, i) = {}
  <2>1. i \in Writes(x.req) \ {d}
    BY <1>1, <1>4
  <2>2. QED
    BY <1>4, <1>7, <2>1 DEF Cleared
<1>8. Cleared(x, tree, cell, left, p)
  <2>1. left \subseteq Writes(x.req) \ {p}
    BY <1>4
  <2>2. QED
    BY <1>7, <2>1 DEF Cleared
<1>9. p \in Writes(x.req) /\ (Alone(x, cell, p) => Present(tree, cell, p))
  BY <1>4, <1>7
<1>10. ASSUME NEW y, Removal(x, y, rest) PROVE Removing(y, tree', cell)
  <2>1. y.req = x.req /\ Removes(y.req) /\ ~y.linked /\ y.prog = rest
    BY <1>10 DEF Removal
  <2>2. Cleared(y, tree, cell, left, p) /\ (Alone(y, cell, p) => Present(tree, cell, p))
    BY <1>8, <1>9, <1>10, SameAlone
  <2>3. left \in SUBSET Writes(y.req)
    BY <1>4, <2>1
  <2> HIDE DEF left
  <2>4. QED
    BY <1>4, <1>9, <2>1, <2>2, <2>3 DEF Removing
<1>11. TreeOK(tree') /\ Frame(Written(x), tree, tree') /\ FilesStay(tree, tree') /\ tree'.files = tree.files
  BY <1>2 DEF Frame, SameParts, FilesStay
<1> HIDE DEF rest
<1>12. QED
  BY <1>1, <1>5, <1>6, <1>10, <1>11, RemovalGoesOn

\* The name has gone.
LEMMA MissedMoves ==
  ASSUME IInv, NEW t \in Threads, At(t, "clear"), NEW p \in Next1(th[t]).left, ~Exists(tree, p),
         tree' = tree, Goes(t)
  PROVE  \E nx : Moves(t, nx)
<1> DEFINE x == th[t]
           d == Next1(x).path
           tail == Tail(x.prog)
<1>1. /\ Busy(x) /\ x.req \in AllRequests /\ Removing(x, tree, cell) /\ Removes(x.req)
      /\ Written(x) = Writes(x.req) /\ Writes(x.req) \subseteq Items
      /\ ClearingItem(x, tree, cell) \/ ClearingUser(x, tree, cell)
  BY ClearingFacts
<1>2. GoesOn(t, x, tail, "ok")
  BY DEF Goes, Rest
<1>3. TreeOK(tree)
  BY DEF IInv
<1>4. TreeOK(tree') /\ Frame(Written(x), tree, tree') /\ FilesStay(tree, tree') /\ tree'.files = tree.files
  BY <1>3 DEF Frame, SameParts, FilesStay
<1> HIDE DEF tail
<1>5. SUFFICES /\ tail = <<>> => \A i \in Writes(x.req) : Alone(x, cell, i) => Final(x, tree, cell, i)
               /\ tail # <<>> => \A y : Removal(x, y, tail) => Removing(y, tree, cell)
  BY <1>1, <1>2, <1>4, <1>5, RemovalGoesOn
<1>6. CASE ClearingItem(x, tree, cell)
  <2>1. Rests(x, tree, cell, d, tail) /\ ~Alone(x, cell, d)
    BY <1>6 DEF ClearingItem, Parts, Exists, tail
  <2>2. /\ tail = <<>> => \A i \in Writes(x.req) : Alone(x, cell, i) => Parts(tree, i) = {}
        /\ tail # <<>> => \A y : Removal(x, y, tail) => Removing(y, tree, cell)
    BY <1>1, <2>1, ItemGone
  <2>3. QED
    BY <1>1, <1>3, <2>2, NothingLeft
<1>7. CASE ClearingUser(x, tree, cell)
  <2>1. /\ tail = <<>> /\ d \notin Items /\ Next1(x).left \subseteq Writes(x.req)
        /\ Cleared(x, tree, cell, Next1(x).left, d)
    BY <1>7 DEF ClearingUser, tail
  <2>2. ASSUME NEW i \in Writes(x.req), Alone(x, cell, i)
        PROVE  IF i \in Next1(x).left THEN Present(tree, cell, i) ELSE Parts(tree, i) = {}
    <3>1. i \in Writes(x.req) \ {d}
      BY <1>1, <2>1
    <3>2. QED
      BY <2>1, <2>2, <3>1 DEF Cleared
  <2>3. x.clash
    <3>1. ~Alone(x, cell, p)
      BY <2>1, <2>2 DEF Present, Exists
    <3>2. QED
      BY <2>1, <3>1 DEF Alone
  <2>4. ASSUME NEW i \in Writes(x.req), Alone(x, cell, i) PROVE Final(x, tree, cell, i)
    <3>1. CASE i \in Next1(x).left
      BY <2>2, <2>3, <2>4, <3>1 DEF Final, Present
    <3>2. CASE i \notin Next1(x).left
      BY <1>1, <1>3, <2>2, <2>4, <3>2, NothingLeft
    <3>3. QED
      BY <3>1, <3>2
  <2>5. QED
    BY <2>1, <2>4
<1>8. QED
  BY <1>1, <1>6, <1>7

\* The name is a file: whoever has it open loses it.
LEMMA UnlinkedThreads ==
  ASSUME NEW t \in Threads, NEW p, NEW rest, ~At(t, "fill"), HasFile(tree, p),
         \A q : HasFile(tree', q) <=> HasFile(tree, q) /\ q # p
  PROVE  [Unlinked(p) EXCEPT ![t].prog = rest] = [u \in Threads |-> After(t, On(th[t], rest), u)]
<1> DEFINE U == Unlinked(p)
<1>1. U = [u \in Threads |-> U[u]]
  BY DEF Unlinked
<1>2. ASSUME NEW u \in Threads PROVE U[u] = Cut(th[u], tree, tree')
  <2> DEFINE f == [th[u] EXCEPT !.linked = FALSE]
  <2>1. U[u] = IF At(u, "fill") /\ Next1(th[u]).path = p THEN f ELSE th[u]
    BY DEF Unlinked
  <2>2. Cut(th[u], tree, tree') =
            IF Busy(th[u]) /\ Next1(th[u]).do = "fill" /\ HasFile(tree, Next1(th[u]).path)
                    /\ ~HasFile(tree', Next1(th[u]).path)
            THEN f ELSE th[u]
    BY DEF Cut
  <2> HIDE DEF f
  <2>3. QED
    BY <2>1, <2>2 DEF At
<1>3. U[t] = th[t]
  <2>1. U[t] = IF At(t, "fill") /\ Next1(th[t]).path = p THEN [th[t] EXCEPT !.linked = FALSE] ELSE th[t]
    BY DEF Unlinked
  <2>2. QED
    BY <2>1, Zenon
<1> HIDE DEF U
<1>4. [U EXCEPT ![t].prog = rest] = [u \in Threads |-> IF u = t THEN On(U[t], rest) ELSE U[u]]
  BY <1>1 DEF On
<1>5. \A u \in Threads : After(t, On(th[t], rest), u) = IF u = t THEN On(U[t], rest) ELSE U[u]
  BY <1>2, <1>3 DEF After
<1>6. QED
  BY <1>4, <1>5 DEF U

\* The instructions of t without the name p.
Less(t, p) == <<Clear(Next1(th[t]).path, Next1(th[t]).left \ {p})>> \o Rest(t)

LEMMA UnlinkMoves ==
  ASSUME IInv, NEW t \in Threads, At(t, "clear"), NEW p \in Next1(th[t]).left, HasFile(tree, p),
         tree' = Without(tree, p),
         Noted([Unlinked(p) EXCEPT ![t].prog = Less(t, p)], {})
  PROVE  \E nx : Moves(t, nx)
<1> DEFINE x == th[t]
           d == Next1(x).path
           left == Next1(x).left \ {p}
           nx == On(x, Less(t, p))
<1>1. /\ Busy(x) /\ x.req \in AllRequests /\ Removing(x, tree, cell) /\ Removes(x.req)
      /\ Writing(x) /\ Written(x) = Writes(x.req) /\ Writes(x.req) \subseteq Items
      /\ ClearingItem(x, tree, cell) \/ ClearingUser(x, tree, cell)
      /\ ~x.linked
  BY ClearingFacts
<1>2. /\ x.req \in UNION Workloads /\ IsThread(x) /\ x.clash \in BOOLEAN /\ x.linked \in BOOLEAN
  BY <1>1, Doing
<1>3. TreeOK(tree)
  BY DEF IInv
<1>4. ClearingItem(x, tree, cell)
  <2>1. SUFFICES ASSUME ClearingUser(x, tree, cell) PROVE FALSE
    BY <1>1
  <2>2. p \in Dirs
    BY <1>1, <2>1 DEF ClearingUser, Dirs
  <2>3. QED
    BY <1>3, <2>2, PartsFacts DEF TreeOK, HasFile
<1>5. /\ Rests(x, tree, cell, d, Tail(x.prog)) /\ Next1(x).left \subseteq PartsOf(d)
      /\ Alone(x, cell, d) => Parts(tree, d) = Next1(x).left
  BY <1>4 DEF ClearingItem
<1>6. d \in Items /\ d \in Writes(x.req) /\ p \in PartsOf(d)
  BY <1>5 DEF Rests
<1>7. /\ TreeOK(tree') /\ tree'.dirs = tree.dirs /\ Parts(tree', d) = Parts(tree, d) \ {p}
      /\ \A i \in Items \ {d} : SameParts(i, tree, tree')
      /\ \A q : HasFile(tree', q) <=> HasFile(tree, q) /\ q # p
      /\ \A q : HasFile(tree', q) => tree'.files[q] = tree.files[q]
  <2> HIDE DEF d
  <2>1. QED
    BY <1>3, <1>6, UnlinkFacts
<1>8. Frame(Written(x), tree, tree')
  BY <1>1, <1>6, <1>7 DEF Frame
<1>9. \A q : ~FillsLinked(x, q)
  BY NotFilling DEF At
<1>10. /\ IsThread(nx) /\ nx.prog = Less(t, p) /\ nx.req = x.req /\ nx.linked = x.linked
       /\ nx.clash = x.clash /\ nx.answer = x.answer
  BY <1>2, OnNext
<1>11. Noted([u \in Threads |-> After(t, nx, u)], {})
  <2>1. ~At(t, "fill")
    BY DEF At
  <2>2. [Unlinked(p) EXCEPT ![t].prog = Less(t, p)] = [u \in Threads |-> After(t, nx, u)]
    BY <1>7, <2>1, UnlinkedThreads
  <2>3. QED
    BY <2>2
<1> HIDE DEF nx
<1>12. Removing(nx, tree', cell)
  <2>1. Rests(x, tree', cell, d, Tail(x.prog))
    BY <1>1, <1>5, <1>7, RestsKept
  <2>2. left \in SUBSET PartsOf(d) /\ (Alone(x, cell, d) => Parts(tree', d) = left)
    BY <1>5, <1>7
  <2>3. Removal(x, nx, <<Clear(d, left)>> \o Tail(x.prog))
    <3>1. Less(t, p) = <<Clear(d, left)>> \o Tail(x.prog)
      BY DEF Less, Rest
    <3>2. ~x.linked
      BY ClearingFacts
    <3>3. QED
      BY <1>1, <1>2, <1>10, <3>1, <3>2 DEF Removal
  <2> HIDE DEF d, left
  <2>4. QED
    BY <2>1, <2>2, <2>3, ItemCleared
<1>13. ThreadOK(nx, tree', cell) /\ Writing(nx)
  BY <1>1, <1>2, <1>10, <1>12, RemovingOK
<1>14. nx.prog # <<>>
  BY <1>13 DEF Writing, Busy
<1>15. Moved(x, nx, tree, tree', cell)
  <2>1. \A q \in DOMAIN tree'.files : tree'.files[q] = Empty =>
            HasFile(tree, q) /\ tree.files[q] = Empty /\ ~FillsLinked(x, q)
    BY <1>7, <1>9 DEF HasFile
  <2>2. QED
    BY <1>7, <1>8, <1>10, <1>13, <1>14, <2>1 DEF Moved
<1>16. Repaired(x, nx) = {}
  BY <1>14 DEF Repaired
<1>17. Told(x, nx, cell)
  BY <1>1, <1>10, <1>14, ToldOn
<1>18. Moves(t, nx)
  BY <1>11, <1>13, <1>15, <1>16, <1>17, CrossedSame DEF Moves
<1>19. QED
  BY <1>18

LEMMA ClearNextMoves ==
  ASSUME IInv, NEW t \in Threads, ClearNext(t)
  PROVE  \E nx : Moves(t, nx)
<1> DEFINE in == Next1(th[t])
<1>1. /\ At(t, "clear")
      /\ \/ in.left = {} /\ tree' = RemoveDir(tree, in.path) /\ Goes(t)
         \/ \E p \in in.left :
              \/ /\ HasFile(tree, p) /\ tree' = Without(tree, p)
                 /\ Noted([Unlinked(p) EXCEPT ![t].prog = Less(t, p)], {})
              \/ /\ p \in tree.dirs /\ tree' = tree
                 /\ GoesOn(t, th[t], <<OpenDir(p)>> \o Less(t, p), "ok")
              \/ ~Exists(tree, p) /\ tree' = tree /\ Goes(t)
  BY DEF ClearNext, Less
<1>2. CASE in.left = {} /\ tree' = RemoveDir(tree, in.path) /\ Goes(t)
  BY <1>1, <1>2, RmdirMoves
<1>3. ASSUME NEW p \in in.left, HasFile(tree, p), tree' = Without(tree, p),
             Noted([Unlinked(p) EXCEPT ![t].prog = Less(t, p)], {})
      PROVE  \E nx : Moves(t, nx)
  BY <1>1, <1>3, UnlinkMoves
<1>4. ASSUME NEW p \in in.left, p \in tree.dirs, tree' = tree,
             GoesOn(t, th[t], <<OpenDir(p)>> \o Less(t, p), "ok")
      PROVE  \E nx : Moves(t, nx)
  BY <1>1, <1>4, NestedMoves DEF Less
<1>5. ASSUME NEW p \in in.left, ~Exists(tree, p), tree' = tree, Goes(t)
      PROVE  \E nx : Moves(t, nx)
  BY <1>1, <1>5, MissedMoves
<1>6. QED
  BY <1>1, <1>2, <1>3, <1>4, <1>5

-----------------------------------------------------------------------------
\* The invariant holds at first and is kept.

LEMMA IdleOK == \A tr, c : ThreadOK(Idle, tr, c) /\ ~Busy(Idle) /\ ~Writing(Idle)
  BY IdleFields DEF ThreadOK, IsThread, Marked, Busy, Writing

\* What a path starts with.
LEMMA PrefixIs ==
  ASSUME NEW S, NEW s \in Seq(S), NEW q \in Seq(S), Len(q) <= Len(s),
         \A k \in 1..Len(q) : q[k] = s[k]
  PROVE  SubSeq(s, 1, Len(q)) = q
<1>1. /\ SubSeq(s, 1, Len(q)) \in Seq(S) /\ Len(SubSeq(s, 1, Len(q))) = Len(q)
      /\ \A k \in 1..Len(q) : SubSeq(s, 1, Len(q))[k] = s[k]
  BY SubSeqProperties
<1>2. QED
  BY <1>1, SeqEqual

LEMMA TuplePrefixes ==
  ASSUME NEW a, NEW b, NEW e, NEW d
  PROVE  /\ Len(<<a, b>>) = 2 /\ SubSeq(<<a, b>>, 1, 1) = <<a>>
         /\ SubSeq(<<a, b>>, 1, 2) = <<a, b>>
         /\ Len(<<a, b, e, d>>) = 4 /\ SubSeq(<<a, b, e, d>>, 1, 1) = <<a>>
         /\ SubSeq(<<a, b, e, d>>, 1, 2) = <<a, b>>
         /\ SubSeq(<<a, b, e, d>>, 1, 3) = <<a, b, e>>
         /\ SubSeq(<<a, b, e, d>>, 1, 4) = <<a, b, e, d>>
<1> DEFINE S == {a, b, e, d}
           one == <<a>>
           two == <<a, b>>
           three == <<a, b, e>>
           four == <<a, b, e, d>>
<1>1. one \in Seq(S) /\ two \in Seq(S) /\ three \in Seq(S) /\ four \in Seq(S)
  OBVIOUS
<1>2. Len(one) = 1 /\ Len(two) = 2 /\ Len(three) = 3 /\ Len(four) = 4
  OBVIOUS
<1>3. /\ one[1] = a /\ two[1] = a /\ two[2] = b /\ three[1] = a /\ three[2] = b /\ three[3] = e
      /\ four[1] = a /\ four[2] = b /\ four[3] = e /\ four[4] = d
  OBVIOUS
<1> HIDE DEF S, one, two, three, four
<1>4. SubSeq(two, 1, 1) = one /\ SubSeq(four, 1, 1) = one
  BY <1>1, <1>2, <1>3, PrefixIs
<1>5. SubSeq(two, 1, 2) = two /\ SubSeq(four, 1, 2) = two
  <2>1. \A k \in 1..2 : two[k] = four[k]
    BY <1>3
  <2>2. QED
    BY <1>1, <1>2, <2>1, PrefixIs
<1>6. SubSeq(four, 1, 3) = three
  <2>1. \A k \in 1..3 : three[k] = four[k]
    BY <1>3
  <2>2. QED
    BY <1>1, <1>2, <2>1, PrefixIs
<1>7. SubSeq(four, 1, 4) = four
  BY <1>1, <1>2, PrefixIs
<1>8. QED
  BY <1>2, <1>4, <1>5, <1>6, <1>7, Zenon DEF one, two, three, four

\* The directories above an item, and its own.
Above(i) == {SubSeq(i, 1, n) : n \in 1..Len(i)}

LEMMA AboveBlock == Above(BlockItem) = {<<"data_store">>, BlockItem}
<1> DEFINE i == BlockItem
<1>1. Len(i) = 2 /\ SubSeq(i, 1, 1) = <<"data_store">> /\ SubSeq(i, 1, 2) = i
  BY TuplePrefixes DEF BlockItem
<1> HIDE DEF i
<1>2. \A n \in 1..Len(i) : n = 1 \/ n = 2
  BY <1>1
<1>3. 1 \in 1..Len(i) /\ 2 \in 1..Len(i)
  BY <1>1
<1>4. Above(i) = {<<"data_store">>, i}
  <2>1. ASSUME NEW d \in Above(i) PROVE d \in {<<"data_store">>, i}
    <3>1. PICK n \in 1..Len(i) : d = SubSeq(i, 1, n)
      BY Zenon DEF Above
    <3>2. CASE n = 1
      BY <1>1, <3>1, <3>2, Zenon
    <3>3. CASE n = 2
      BY <1>1, <3>1, <3>3, Zenon
    <3>4. QED
      BY <1>2, <3>2, <3>3, Zenon
  <2>2. <<"data_store">> \in Above(i) /\ i \in Above(i)
    BY <1>1, <1>3, Zenon DEF Above
  <2>3. QED
    BY <2>1, <2>2, Zenon
<1>5. QED
  BY <1>4 DEF i

LEMMA AboveToken ==
  ASSUME NEW u, NEW k
  PROVE  Above(TokenItem(u, k)) = {<<"key_store">>, KeyDir, UserDir(u), TokenItem(u, k)}
<1> DEFINE i == TokenItem(u, k)
<1>1. /\ Len(i) = 4 /\ SubSeq(i, 1, 1) = <<"key_store">> /\ SubSeq(i, 1, 2) = KeyDir
      /\ SubSeq(i, 1, 3) = UserDir(u) /\ SubSeq(i, 1, 4) = i
  BY TuplePrefixes DEF TokenItem, UserDir, KeyDir
<1> HIDE DEF i
<1>2. \A n \in 1..Len(i) : n = 1 \/ n = 2 \/ n = 3 \/ n = 4
  BY <1>1
<1>3. 1 \in 1..Len(i) /\ 2 \in 1..Len(i) /\ 3 \in 1..Len(i) /\ 4 \in 1..Len(i)
  BY <1>1
<1>4. Above(i) = {<<"key_store">>, KeyDir, UserDir(u), i}
  <2>1. ASSUME NEW d \in Above(i) PROVE d \in {<<"key_store">>, KeyDir, UserDir(u), i}
    <3>1. PICK n \in 1..Len(i) : d = SubSeq(i, 1, n)
      BY Zenon DEF Above
    <3>2. CASE n = 1
      BY <1>1, <3>1, <3>2, Zenon
    <3>3. CASE n = 2
      BY <1>1, <3>1, <3>3, Zenon
    <3>4. CASE n = 3
      BY <1>1, <3>1, <3>4, Zenon
    <3>5. CASE n = 4
      BY <1>1, <3>1, <3>5, Zenon
    <3>6. QED
      BY <1>2, <3>2, <3>3, <3>4, <3>5, Zenon
  <2>2. <<"key_store">> \in Above(i) /\ KeyDir \in Above(i)
    BY <1>1, <1>3, Zenon DEF Above
  <2>3. UserDir(u) \in Above(i) /\ i \in Above(i)
    BY <1>1, <1>3, Zenon DEF Above
  <2>4. QED
    BY <2>1, <2>2, <2>3, Zenon
<1>5. QED
  BY <1>4 DEF i

LEMMA AboveItem ==
  ASSUME NEW i \in Items
  PROVE  /\ i \in Above(i) /\ Above(i) \subseteq Dirs
         /\ \A u \in Users, k \in {"r", "w"} : TokenItem(u, k) \in Above(i) => UserDir(u) \in Above(i)
<1>1. CASE i = BlockItem
  BY <1>1, AboveBlock, DirsDiffer DEF Dirs, Roots
<1>2. ASSUME NEW u \in Users, NEW k \in {"r", "w"}, i = TokenItem(u, k)
      PROVE  /\ i \in Above(i) /\ Above(i) \subseteq Dirs
             /\ \A v \in Users, l \in {"r", "w"} : TokenItem(v, l) \in Above(i) => UserDir(v) \in Above(i)
  <2>1. Above(i) = {<<"key_store">>, KeyDir, UserDir(u), i}
    BY <1>2, AboveToken
  <2>2. ASSUME NEW v \in Users, NEW l \in {"r", "w"}, TokenItem(v, l) \in Above(i) PROVE v = u
    BY <1>2, <2>1, <2>2, DirsDiffer DEF Roots, Items
  <2>3. QED
    BY <2>1, <2>2 DEF Dirs, Roots
<1>3. QED
  BY <1>1, <1>2 DEF Items

LEMMA FirstTreeOK == TreeOK(FirstTree)
<1> DEFINE there == DOMAIN Initial
           parts == UNION {PartsOf(i) : i \in there}
           tr == FirstTree
<1>1. /\ tr.dirs = Roots \cup UNION {Above(i) : i \in there}
      /\ tr.files = [p \in parts |-> Initial[Front(p)]]
      /\ tr = [dirs |-> tr.dirs, files |-> tr.files]
  BY DEF FirstTree, Above, Roots
<1>2. there \subseteq Items /\ \A i \in there : Initial[i] \in Contents
  BY StoreFilesAssumption DEF Contents
<1> HIDE DEF tr
<1>3. ASSUME NEW p \in DOMAIN tr.files
      PROVE  tr.files[p] \in Fillings /\ Front(p) \in Items \cap tr.dirs /\ p \in PartsOf(Front(p))
  <2>1. PICK i \in there : p \in PartsOf(i)
    BY <1>1
  <2>2. i \in Items /\ Front(p) = i /\ i \in Above(i)
    BY <1>2, <2>1, PartsFacts, AboveItem
  <2>3. tr.files[p] = Initial[i]
    BY <1>1, <2>2
  <2>4. QED
    BY <1>1, <1>2, <2>1, <2>2, <2>3 DEF Fillings
<1>4. Roots \subseteq tr.dirs /\ tr.dirs \subseteq Dirs
  BY <1>1, <1>2, AboveItem DEF Dirs
<1>5. ASSUME NEW u \in Users, NEW k \in {"r", "w"}, TokenItem(u, k) \in tr.dirs
      PROVE  UserDir(u) \in tr.dirs
  <2>1. PICK i \in there : TokenItem(u, k) \in Above(i)
    BY <1>1, <1>5, DirsDiffer
  <2>2. UserDir(u) \in Above(i)
    BY <1>2, <2>1, AboveItem
  <2>3. QED
    BY <1>1, <2>2
<1>6. tr.files = [p \in DOMAIN tr.files |-> tr.files[p]]
  BY <1>1
<1>7. QED
  BY <1>1, <1>3, <1>4, <1>5, <1>6 DEF TreeOK, tr

LEMMA FirstValues ==
  ASSUME NEW i \in Items
  PROVE  Stored(FirstTree, i) \in Contents \cup {Absent}
<1> DEFINE there == DOMAIN Initial
           parts == UNION {PartsOf(j) : j \in there}
           tr == FirstTree
<1>1. tr.files = [p \in parts |-> Initial[Front(p)]]
  BY DEF FirstTree
<1>2. there \subseteq Items /\ \A j \in there : Initial[j] \in Contents
  BY StoreFilesAssumption DEF Contents
<1>3. TreeOK(tr)
  BY FirstTreeOK
<1> HIDE DEF tr
<1>4. CASE i \in there
  <2>1. \A p \in PartsOf(i) : HasFile(tr, p) /\ tr.files[p] = Initial[i]
    BY <1>1, <1>4, PartsFacts DEF HasFile
  <2>2. Initial[i] \in Contents
    BY <1>2, <1>4
  <2>3. Stored(tr, i) = Initial[i]
    BY <1>3, <2>1, <2>2, StoredFacts
  <2>4. QED
    BY <2>2, <2>3 DEF tr
<1>5. CASE i \notin there
  <2>1. PartsOf(i) \cap parts = {}
    BY <1>2, <1>5, PartsFacts
  <2>2. Parts(tr, i) = {}
    BY <1>1, <2>1 DEF Parts
  <2>3. QED
    BY <1>3, <2>2, StoredFacts DEF tr
<1>6. QED
  BY <1>4, <1>5

LEMMA InitKeeps == Init => IInv
<1> SUFFICES ASSUME Init PROVE IInv
  OBVIOUS
<1>1. /\ requests \in Workloads /\ tree = FirstTree
      /\ th = [t \in Threads |-> Idle] /\ cell = [i \in Items |-> Stored(FirstTree, i)]
  BY DEF Init
<1>2. TreeOK(tree)
  BY <1>1, FirstTreeOK
<1>3. \A t \in Threads : th[t] = Idle /\ ThreadOK(th[t], tree, cell) /\ ~Busy(th[t]) /\ ~Writing(th[t])
  BY <1>1, IdleOK
<1>4. HistoryOK
  <2>1. \A i \in Items : cell[i] = Stored(tree, i) /\ cell[i] \in Contents \cup {Absent}
    BY <1>1, FirstValues
  <2>2. QED
    BY <1>1, <1>3, <2>1 DEF HistoryOK, At2
<1>5. EmptyOnlyByCrash
  <2>1. SUFFICES ASSUME NEW p \in DOMAIN tree.files, tree.files[p] = Empty PROVE FALSE
    BY DEF EmptyOnlyByCrash
  <2>2. Front(p) \in Items /\ p \in PartsOf(Front(p)) /\ HasFile(tree, p)
    BY <1>2 DEF TreeOK, HasFile
  <2>3. Stored(tree, Front(p)) \in Contents \cup {Absent}
    BY <1>1, <2>2, FirstValues
  <2>4. CASE Stored(tree, Front(p)) = Absent
    BY <1>2, <2>2, <2>4, StoredFacts DEF Parts, HasFile
  <2>5. CASE Stored(tree, Front(p)) \in Contents
    BY <1>2, <2>1, <2>2, <2>5, StoredFacts, ContentsDiffer
  <2>6. QED
    BY <2>3, <2>4, <2>5
<1>6. QED
  BY <1>1, <1>2, <1>3, <1>4, <1>5 DEF IInv

\* After a crash nobody is at work, and what was being written is marked.
LEMMA CrashKeeps ==
  ASSUME IInv, Crash
  PROVE  IInv'
<1> DEFINE hit(i) == \E t \in Threads : At2(t, i)
<1>1. /\ th' = [t \in Threads |-> Idle] /\ tree' = tree /\ requests' = requests
      /\ cell' = [i \in Items |-> IF hit(i) THEN "crash" ELSE cell[i]]
  BY DEF Crash, At2
<1>2. /\ \A t \in Threads : th'[t] = Idle /\ ThreadOK(th'[t], tree', cell')
      /\ ~Busy(Idle) /\ ~Writing(Idle) /\ Idle.clash = FALSE
  BY <1>1, IdleOK, IdleFields
<1>3. HistoryOK'
  <2>1. ASSUME NEW i \in Items
        PROVE  /\ cell'[i] \in Contents \cup {Absent} \cup Damaged
               /\ cell'[i] \notin Damaged => cell'[i] = Stored(tree', i)
    <3>1. cell'[i] = IF hit(i) THEN "crash" ELSE cell[i]
      BY <1>1
    <3>2. /\ cell[i] \in Contents \cup {Absent} \cup Damaged
          /\ cell[i] \notin Damaged => hit(i) \/ cell[i] = Stored(tree, i)
      BY DEF IInv, HistoryOK
    <3>3. CASE hit(i)
      BY <3>1, <3>3 DEF Damaged
    <3>4. CASE ~hit(i)
      BY <1>1, <3>1, <3>2, <3>4
    <3>5. QED
      BY <3>3, <3>4
  <2>2. cell' = [i \in Items |-> cell'[i]]
    BY <1>1
  <2>3. QED
    BY <1>2, <2>1, <2>2 DEF HistoryOK, At2
<1>4. EmptyOnlyByCrash'
  <2>1. SUFFICES ASSUME NEW p \in DOMAIN tree.files, tree.files[p] = Empty
                 PROVE  cell'[Front(p)] = "crash"
    BY <1>1 DEF EmptyOnlyByCrash
  <2>2. Front(p) \in Items /\ p \in PartsOf(Front(p))
    BY DEF IInv, TreeOK
  <2>3. CASE cell[Front(p)] = "crash"
    BY <1>1, <2>2, <2>3
  <2>4. ASSUME NEW t \in Threads, At(t, "fill"), Next1(th[t]).path = p, th[t].linked
        PROVE  cell'[Front(p)] = "crash"
    <3>1. ThreadOK(th[t], tree, cell)
      BY DEF IInv
    <3>2. /\ Writing(th[t]) /\ Writes(th[t].req) = {Target(th[t].req)}
          /\ p \in PartsOf(Target(th[t].req)) /\ Target(th[t].req) \in Items
      BY <2>4, <3>1, LinkedFills
    <3>3. Front(p) = Target(th[t].req)
      BY <3>2, PartsFacts
    <3>4. hit(Front(p))
      BY <3>2, <3>3 DEF At2
    <3>5. QED
      BY <1>1, <2>2, <3>4
  <2>5. QED
    BY <2>1, <2>3, <2>4 DEF IInv, EmptyOnlyByCrash
<1>5. TreeOK(tree') /\ requests' \in Workloads /\ th' = [t \in Threads |-> th'[t]]
  BY <1>1 DEF IInv
<1>6. QED
  BY <1>2, <1>3, <1>4, <1>5 DEF IInv

LEMMA StepMoves ==
  ASSUME IInv, NEW t \in Threads, Step(t)
  PROVE  \E nx : Moves(t, nx)
<1>1. CASE Read(t)
  BY <1>1, ReadMoves
<1>2. CASE Admitted(t)
  BY <1>2, AdmittedMoves
<1>3. CASE Makes(t)
  BY <1>3, MakesMoves
<1>4. CASE Open(t)
  BY <1>4, OpenMoves
<1>5. CASE FillIn(t)
  BY <1>5, FillInMoves
<1>6. CASE Opens(t)
  BY <1>6, OpensMoves
<1>7. CASE ClearNext(t)
  BY <1>7, ClearNextMoves
<1>8. QED
  BY <1>1, <1>2, <1>3, <1>4, <1>5, <1>6, <1>7 DEF Step

LEMMA NextKeeps == IInv /\ [Next]_vars => IInv'
<1> SUFFICES ASSUME IInv, [Next]_vars PROVE IInv'
  OBVIOUS
<1>1. ASSUME NEW t \in Threads, Step(t) PROVE IInv'
  BY <1>1, StepMoves, MovesKeep
<1>2. ASSUME NEW t \in Threads, NEW r \in requests, Start(t, r) PROVE IInv'
  BY <1>2, StartMoves, MovesKeep
<1>3. CASE Crash
  BY <1>3, CrashKeeps
<1>4. CASE UNCHANGED vars
  BY <1>4 DEF vars, IInv, HistoryOK, EmptyOnlyByCrash, At2, At
<1>5. QED
  BY <1>1, <1>2, <1>3, <1>4 DEF Next

\* The invariant: a thread is at an instruction of its request, with what it has read
\* and stored so far in the files unless another thread got in its way, each thread
\* that a writer overlaps knows it, and an item that nobody writes or has damaged is
\* what its files say.  It is about the loops of db.c over files that nothing locks.
THEOREM InvariantHolds == Spec => []IInv
  BY InitKeeps, NextKeeps, PTL DEF Spec

\* However the threads of the two services overlap, write_whole_file and
\* remove_directory leave an empty file behind only where the service died between
\* fopen and fwrite.
THEOREM EmptyFilesOnlyByCrash == Spec => []EmptyOnlyByCrash
<1>1. IInv => EmptyOnlyByCrash
  BY DEF IInv
<1>2. QED
  BY <1>1, InvariantHolds, PTL
=============================================================================
