----------------------- MODULE StoreFilesRefinement -----------------------
(***************************************************************************)
(* Proof that the example services keep what AtomicStores promises, for    *)
(* any number of threads and any requests of the two stores.               *)
(***************************************************************************)
EXTENDS StoreFilesProofs

-----------------------------------------------------------------------------
\* The refinement mapping.

pcell == [i \in Items |-> IF cell[i] \in Damaged THEN Torn ELSE cell[i]]
pcall == [t \in Threads |-> th[t].req]
pwriting == {t \in Threads : Writing(th[t])}
pclash == {t \in Threads : th[t].clash}
panswer == [t \in Threads |-> th[t].answer]

-----------------------------------------------------------------------------
\* What a step of t, which comes to nx, makes of the threads.

\* Who notices a writer now: everyone t overlaps, and t itself.
Hit(t, nx, u) == u # t /\ Busy(th[u]) /\ Disturbing(nx, th[u])
HitBy(t, nx) == Busy(nx) /\ \E v \in Threads \ {t} : Disturbing(th[v], nx)

LEMMA Overlapped ==
  ASSUME IInv, NEW u \in Threads, NEW v \in Threads \ {u}, Busy(th[u]), Disturbing(th[v], th[u])
  PROVE  th[u].clash
  BY DEF IInv, HistoryOK, Disturbing

LEMMA OthersSeen ==
  ASSUME IInv, NEW t \in Threads, NEW nx, Moves(t, nx), NEW u \in Threads, u # t
  PROVE  /\ th'[u].req = th[u].req /\ th'[u].answer = th[u].answer
         /\ Busy(th'[u]) <=> Busy(th[u])
         /\ Writing(th'[u]) <=> Writing(th[u])
         /\ th'[u].clash <=> th[u].clash \/ Hit(t, nx, u)
<1> DEFINE y == After(t, nx, u)
<1>1. ASSUME NEW v \in Threads, v # t
      PROVE  LET z == After(t, nx, v) IN
             /\ z.req = th[v].req /\ z.answer = th[v].answer /\ Touches(z) = Touches(th[v])
             /\ (Busy(z) <=> Busy(th[v])) /\ (Writing(z) <=> Writing(th[v]))
  <2>1. IsThread(th[v]) /\ th[v].linked \in BOOLEAN
    BY ThreadFields DEF IInv
  <2>2. After(t, nx, v) = Cut(th[v], tree, tree')
    BY <1>1 DEF After
  <2>3. QED
    BY <2>1, <2>2, CutFacts
<1>2. After(t, nx, t) = nx
  BY DEF After
<1>3. /\ Marked(y, th'[u])
      /\ th'[u].clash <=>
             y.clash \/ (Busy(y) /\ \E v \in Threads \ {u} : Disturbing(After(t, nx, v), y))
      /\ y.clash = th[u].clash
  BY AfterFacts
<1>4. /\ th'[u].req = y.req /\ th'[u].answer = y.answer
      /\ (Busy(th'[u]) <=> Busy(y)) /\ (Writing(th'[u]) <=> Writing(y))
  BY <1>3, MarkedFacts
<1>5. ASSUME NEW v \in Threads \ {u}, v # t, Busy(y), Disturbing(After(t, nx, v), y)
      PROVE  th[u].clash
  <2>1. Busy(th[u]) /\ Disturbing(th[v], th[u])
    BY <1>1, <1>5 DEF Disturbing
  <2>2. QED
    BY <2>1, Overlapped
<1>6. Busy(y) /\ Disturbing(After(t, nx, t), y) <=> Hit(t, nx, u)
  BY <1>1, <1>2 DEF Disturbing, Hit
<1>7. th'[u].clash <=> th[u].clash \/ Hit(t, nx, u)
  BY <1>3, <1>5, <1>6
<1>8. QED
  BY <1>1, <1>4, <1>7

LEMMA OwnSeen ==
  ASSUME IInv, NEW t \in Threads, NEW nx, Moves(t, nx)
  PROVE  /\ th'[t].req = nx.req /\ th'[t].answer = nx.answer
         /\ Busy(th'[t]) <=> Busy(nx)
         /\ Writing(th'[t]) <=> Writing(nx)
         /\ th'[t].clash <=> nx.clash \/ HitBy(t, nx)
<1>1. ASSUME NEW v \in Threads \ {t}
      PROVE  Disturbing(After(t, nx, v), nx) <=> Disturbing(th[v], nx)
  BY AfterFacts DEF Disturbing
<1>2. /\ Marked(nx, th'[t])
      /\ th'[t].clash <=>
             nx.clash \/ (Busy(nx) /\ \E v \in Threads \ {t} : Disturbing(After(t, nx, v), nx))
  BY AfterFacts
<1>3. th'[t].clash <=> nx.clash \/ HitBy(t, nx)
  BY <1>1, <1>2 DEF HitBy
<1>4. QED
  BY <1>2, <1>3, MarkedFacts

\* The same in the variables of AtomicStores.
LEMMA Seen ==
  ASSUME IInv, NEW t \in Threads, NEW nx, Moves(t, nx)
  PROVE  /\ pcall' = [pcall EXCEPT ![t] = nx.req]
         /\ panswer' = [panswer EXCEPT ![t] = nx.answer]
         /\ pwriting' = (pwriting \ {t}) \cup {u \in {t} : Writing(nx)}
         /\ pclash' = (pclash \ {t}) \cup {u \in Threads : Hit(t, nx, u)}
                        \cup {u \in {t} : nx.clash \/ HitBy(t, nx)}
<1>1. \A u \in Threads : th'[u].req = IF u = t THEN nx.req ELSE th[u].req
  BY OthersSeen, OwnSeen
<1>2. \A u \in Threads : th'[u].answer = IF u = t THEN nx.answer ELSE th[u].answer
  BY OthersSeen, OwnSeen
<1>3. \A u \in Threads : Writing(th'[u]) <=> IF u = t THEN Writing(nx) ELSE Writing(th[u])
  BY OthersSeen, OwnSeen
<1>4. \A u \in Threads : th'[u].clash <=> \/ u # t /\ th[u].clash
                                          \/ Hit(t, nx, u)
                                          \/ u = t /\ (nx.clash \/ HitBy(t, nx))
  <2>1. ~Hit(t, nx, t)
    BY DEF Hit
  <2>2. QED
    BY <2>1, OthersSeen, OwnSeen
<1>5. pcall' = [pcall EXCEPT ![t] = nx.req]
  BY <1>1 DEF pcall
<1>6. panswer' = [panswer EXCEPT ![t] = nx.answer]
  BY <1>2 DEF panswer
<1>7. pwriting' = (pwriting \ {t}) \cup {u \in {t} : Writing(nx)}
  BY <1>3 DEF pwriting
<1>8. pclash' = (pclash \ {t}) \cup {u \in Threads : Hit(t, nx, u)}
                    \cup {u \in {t} : nx.clash \/ HitBy(t, nx)}
  BY <1>4, Zenon DEF pclash
<1>9. QED
  BY <1>5, <1>6, <1>7, <1>8

-----------------------------------------------------------------------------
\* What a step of t makes of an item.

\* Who writes i after the step.
LEMMA WritersAfter ==
  ASSUME IInv, NEW t \in Threads, NEW nx, Moves(t, nx), NEW i \in Items
  PROVE  /\ cell' = [j \in Items |-> cell'[j]]
         /\ \/ cell[i] \in Damaged /\ i \notin Repaired(th[t], nx) /\ cell'[i] = cell[i]
            \/ /\ cell[i] \notin Damaged \/ i \in Repaired(th[t], nx)
               /\ ~WritesTo(nx, i) /\ ~\E u \in Threads \ {t} : WritesTo(th[u], i)
               /\ cell'[i] = Stored(tree', i)
            \/ /\ cell[i] \notin Damaged \/ i \in Repaired(th[t], nx)
               /\ \/ WritesTo(nx, i) /\ \E u \in Threads \ {t} : WritesTo(th[u], i)
                  \/ \E u \in Threads \ {t} : \E v \in Threads \ {t, u} :
                        WritesTo(th[u], i) /\ WritesTo(th[v], i)
               /\ cell'[i] \in Damaged
            \/ /\ cell[i] \notin Damaged \/ i \in Repaired(th[t], nx)
               /\ \/ WritesTo(nx, i) /\ ~\E u \in Threads \ {t} : WritesTo(th[u], i)
                  \/ ~WritesTo(nx, i) /\ \E u \in Threads \ {t} : WritesTo(th[u], i)
               /\ cell'[i] = cell[i]
<1> DEFINE N == [u \in Threads |-> After(t, nx, u)]
           rep == Repaired(th[t], nx)
<1>1. Noted(N, rep)
  BY DEF Moves
<1>2. \A u \in Threads : N[u] = After(t, nx, u)
  OBVIOUS
<1>3. ASSUME NEW u \in Threads
      PROVE  WritesTo(N[u], i) <=> IF u = t THEN WritesTo(nx, i) ELSE WritesTo(th[u], i)
  BY <1>2, AfterFacts DEF WritesTo
<1> HIDE DEF N, rep
<1>4. /\ cell' = [j \in Items |-> cell'[j]]
      /\ IF cell[i] \in Damaged /\ i \notin rep THEN cell'[i] = cell[i]
         ELSE IF ~\E u \in Threads : WritesTo(N[u], i) THEN cell'[i] = Stored(tree', i)
         ELSE IF \E u \in Threads : \E v \in Threads \ {u} : WritesTo(N[u], i) /\ WritesTo(N[v], i)
              THEN cell'[i] = "overlap" ELSE cell'[i] = cell[i]
  BY <1>1, NotedItems
<1>5. "overlap" \in Damaged
  BY DEF Damaged
<1>6. CASE cell[i] \in Damaged /\ i \notin rep
  BY <1>4, <1>6 DEF rep
<1>7. CASE (cell[i] \notin Damaged \/ i \in rep) /\ ~\E u \in Threads : WritesTo(N[u], i)
  BY <1>3, <1>4, <1>7 DEF rep
<1>8. CASE /\ cell[i] \notin Damaged \/ i \in rep
           /\ \E u \in Threads : \E v \in Threads \ {u} : WritesTo(N[u], i) /\ WritesTo(N[v], i)
  <2>1. cell'[i] \in Damaged
    BY <1>4, <1>5, <1>8
  <2>2. PICK u \in Threads : \E v \in Threads \ {u} : WritesTo(N[u], i) /\ WritesTo(N[v], i)
    BY <1>8
  <2>3. PICK v \in Threads \ {u} : WritesTo(N[u], i) /\ WritesTo(N[v], i)
    BY <2>2
  <2>4. \/ WritesTo(nx, i) /\ \E w \in Threads \ {t} : WritesTo(th[w], i)
        \/ \E w \in Threads \ {t} : \E z \in Threads \ {t, w} :
                WritesTo(th[w], i) /\ WritesTo(th[z], i)
    <3>1. CASE u = t
      BY <1>3, <2>3, <3>1
    <3>2. CASE v = t
      BY <1>3, <2>3, <3>2
    <3>3. CASE u # t /\ v # t
      BY <1>3, <2>3, <3>3
    <3>4. QED
      BY <3>1, <3>2, <3>3
  <2>5. QED
    BY <1>4, <1>8, <2>1, <2>4 DEF rep
<1>9. CASE /\ cell[i] \notin Damaged \/ i \in rep
           /\ \E u \in Threads : WritesTo(N[u], i)
           /\ ~\E u \in Threads : \E v \in Threads \ {u} : WritesTo(N[u], i) /\ WritesTo(N[v], i)
  <2>1. cell'[i] = cell[i]
    BY <1>4, <1>9
  <2>2. \/ WritesTo(nx, i) /\ ~\E u \in Threads \ {t} : WritesTo(th[u], i)
        \/ ~WritesTo(nx, i) /\ \E u \in Threads \ {t} : WritesTo(th[u], i)
    BY <1>3, <1>9
  <2>3. QED
    BY <1>4, <1>9, <2>1, <2>2 DEF rep
<1>10. QED
  BY <1>6, <1>7, <1>8, <1>9

\* Two writers have damaged what they share.
LEMMA SharedDamaged ==
  ASSUME IInv, NEW i \in Items, NEW u \in Threads, NEW v \in Threads \ {u},
         WritesTo(th[u], i), WritesTo(th[v], i)
  PROVE  cell[i] \in Damaged
  BY DEF IInv, HistoryOK, At2, WritesTo

LEMMA RepairedWritten ==
  ASSUME NEW x, NEW nx, NEW i, i \in Repaired(x, nx)
  PROVE  nx.prog = <<>> /\ ~x.clash /\ WritesTo(x, i) /\ ~WritesTo(nx, i)
  BY DEF Repaired, Written, WritesTo, Writing, Busy

\* An item that t goes on writing, or goes on leaving alone, is as it was.
LEMMA ItemStays ==
  ASSUME IInv, NEW t \in Threads, NEW nx, Moves(t, nx), NEW i \in Items,
         WritesTo(nx, i) <=> WritesTo(th[t], i)
  PROVE  cell'[i] = cell[i]
<1>1. i \notin Repaired(th[t], nx)
  BY RepairedWritten
<1>2. SUFFICES ASSUME cell[i] \notin Damaged PROVE cell'[i] = cell[i]
  BY <1>1, WritersAfter
<1>3. ~\E u \in Threads : \E v \in Threads \ {u} : WritesTo(th[u], i) /\ WritesTo(th[v], i)
  BY <1>2, SharedDamaged
<1>4. CASE ~\E u \in Threads : WritesTo(th[u], i)
  <2>1. i \notin Written(th[t])
    BY <1>4 DEF Written, WritesTo
  <2>2. Stored(tree', i) = Stored(tree, i)
    BY <2>1, FrameFacts DEF Moves, Moved
  <2>3. cell[i] = Stored(tree, i)
    BY <1>2, <1>4 DEF IInv, HistoryOK, At2, WritesTo
  <2>4. QED
    BY <1>1, <1>2, <1>4, <2>2, <2>3, WritersAfter
<1>5. CASE \E u \in Threads : WritesTo(th[u], i)
  BY <1>1, <1>2, <1>3, <1>5, WritersAfter
<1>6. QED
  BY <1>4, <1>5

\* Who starts to write damages what another one writes.
LEMMA ItemPermitted ==
  ASSUME IInv, NEW t \in Threads, NEW nx, Moves(t, nx), NEW i \in Items,
         ~Writing(th[t]), WritesTo(nx, i)
  PROVE  /\ (\E u \in Threads \ {t} : WritesTo(th[u], i)) => cell'[i] \in Damaged
         /\ (~\E u \in Threads \ {t} : WritesTo(th[u], i)) => cell'[i] = cell[i]
<1>1. i \notin Repaired(th[t], nx)
  BY RepairedWritten
<1>2. QED
  BY <1>1, WritersAfter

\* Who is through leaves its value, or what it was kept from replacing.
LEMMA ItemCompleted ==
  ASSUME IInv, NEW t \in Threads, NEW nx, Moves(t, nx), NEW i \in Items,
         WritesTo(th[t], i), nx.prog = <<>>
  PROVE  /\ ~th[t].clash => cell'[i] = Leaves(th[t].req)
         /\ \/ cell'[i] = cell[i]
            \/ ~th[t].clash
            \/ cell[i] \notin Damaged /\ cell'[i] = Leaves(th[t].req)
<1> DEFINE x == th[t]
<1>1. i \in Written(x) /\ ~WritesTo(nx, i)
  BY DEF Written, WritesTo, Writing, Busy
<1>2. Moved(x, nx, tree, tree', cell)
  BY DEF Moves
<1>3. ASSUME NEW u \in Threads \ {t}, WritesTo(th[u], i) PROVE x.clash /\ cell[i] \in Damaged
  <2>1. cell[i] \in Damaged
    BY <1>3, SharedDamaged
  <2>2. Busy(x) /\ Disturbing(th[u], x)
    BY <1>3 DEF WritesTo, Writing, Disturbing, Touches
  <2>3. QED
    BY <2>1, <2>2, Overlapped
<1>4. CASE ~x.clash
  <2>1. i \in Repaired(x, nx) /\ Alone(x, cell, i)
    BY <1>1, <1>4 DEF Repaired, Alone, WritesTo
  <2>2. Stored(tree', i) = Leaves(x.req)
    BY <1>1, <1>2, <1>4, <2>1 DEF Moved, Final
  <2>3. cell'[i] = Stored(tree', i)
    BY <1>1, <1>3, <1>4, <2>1, WritersAfter
  <2>4. QED
    BY <1>4, <2>2, <2>3
<1>5. CASE x.clash
  <2>1. i \notin Repaired(x, nx)
    BY <1>5 DEF Repaired
  <2>2. CASE cell[i] \in Damaged
    BY <1>5, <2>1, <2>2, WritersAfter
  <2>3. CASE cell[i] \notin Damaged
    <3>1. cell'[i] = Stored(tree', i)
      BY <1>1, <1>3, <2>1, <2>3, WritersAfter
    <3>2. Final(x, tree', cell, i)
      BY <1>1, <1>2, <2>3 DEF Moved, Alone, WritesTo
    <3>3. QED
      BY <1>5, <2>3, <3>1, <3>2 DEF Final, Untouched
  <2>4. QED
    BY <2>2, <2>3
<1>6. QED
  BY <1>4, <1>5

LEMMA ItemSeen ==
  ASSUME IInv, NEW i \in Items
  PROVE  /\ pcell[i] = IF cell[i] \in Damaged THEN Torn ELSE cell[i]
         /\ pcell[i] = Torn <=> cell[i] \in Damaged
         /\ cell[i] \notin Damaged => cell[i] \in Contents \cup {Absent}
  BY ContentsDiffer DEF IInv, HistoryOK, pcell

-----------------------------------------------------------------------------
\* The steps of a thread are steps of AtomicStores or change nothing there.

\* A thread that has more to do.
LEMMA Continued ==
  ASSUME IInv, NEW t \in Threads, NEW nx, Moves(t, nx), Busy(th[t]), nx.prog # <<>>
  PROVE  /\ nx.req = th[t].req /\ nx.answer = th[t].answer /\ nx.clash = th[t].clash
         /\ Writing(th[t]) => Writing(nx)
         /\ pcall' = pcall /\ panswer' = panswer
         /\ HitBy(t, nx) => th[t].clash
         /\ \A i : WritesTo(nx, i) <=> Writing(nx) /\ i \in Writes(th[t].req)
<1>1. /\ nx.req = th[t].req /\ nx.answer = th[t].answer /\ nx.clash = th[t].clash
      /\ Writing(th[t]) => Writing(nx)
  BY DEF Moves, Moved, Told
<1>2. pcall' = pcall /\ panswer' = panswer
  <2>1. pcall = [pcall EXCEPT ![t] = th[t].req] /\ panswer = [panswer EXCEPT ![t] = th[t].answer]
    BY DEF pcall, panswer
  <2>2. QED
    BY <1>1, <2>1, Seen
<1>3. HitBy(t, nx) => th[t].clash
  BY <1>1, Overlapped DEF HitBy, Disturbing, Touches
<1>4. QED
  BY <1>1, <1>2, <1>3 DEF WritesTo

LEMMA GoesOnUnseen ==
  ASSUME IInv, NEW t \in Threads, NEW nx, Moves(t, nx), Busy(th[t]), nx.prog # <<>>,
         Writing(nx) => Writing(th[t])
  PROVE  UNCHANGED <<pcell, pcall, pwriting, pclash, panswer>>
<1>1. /\ nx.req = th[t].req /\ nx.clash = th[t].clash /\ (Writing(nx) <=> Writing(th[t]))
      /\ pcall' = pcall /\ panswer' = panswer
      /\ HitBy(t, nx) => th[t].clash
      /\ \A i : WritesTo(nx, i) <=> WritesTo(th[t], i)
  BY Continued DEF WritesTo
<1>2. ASSUME NEW u \in Threads, Hit(t, nx, u) PROVE th[u].clash
  BY <1>1, <1>2, Overlapped DEF Hit, Disturbing
<1>3. pwriting' = pwriting
  BY <1>1, Seen DEF pwriting
<1>4. pclash' = pclash
  <2>1. \A u \in Threads : u \in pclash <=> th[u].clash
    BY Zenon DEF pclash
  <2>2. pclash' = (pclash \ {t}) \cup {u \in Threads : Hit(t, nx, u)}
                    \cup {u \in {t} : nx.clash \/ HitBy(t, nx)}
    BY Seen
  <2>3. \A u \in Threads : Hit(t, nx, u) => u \in pclash
    BY <1>2, <2>1
  <2>4. nx.clash \/ HitBy(t, nx) <=> t \in pclash
    BY <1>1, <2>1
  <2>5. pclash \subseteq Threads
    BY DEF pclash
  <2>6. QED
    BY <2>2, <2>3, <2>4, <2>5
<1>5. pcell' = pcell
  <2>1. \A i \in Items : cell'[i] = cell[i]
    BY <1>1, ItemStays
  <2>2. QED
    BY <2>1 DEF pcell
<1>6. QED
  BY <1>1, <1>3, <1>4, <1>5

\* u replaces what the request of v touches, in the variables of AtomicStores.
LEMMA DisturbsSeen ==
  ASSUME IInv, NEW v \in Threads
  PROVE  /\ Busy(th[v]) <=> pcall[v] # NoRequest
         /\ pcall[v] = th[v].req
         /\ v \in pwriting <=> Writing(th[v])
         /\ v \in pclash <=> th[v].clash
         /\ panswer[v] = th[v].answer
<1>1. Busy(th[v]) <=> th[v].req # NoRequest
  BY ThreadFields, StoreFilesAssumption DEF IInv
<1>2. pcall[v] = th[v].req /\ panswer[v] = th[v].answer
  BY DEF pcall, panswer
<1>3. v \in pwriting <=> Writing(th[v])
  BY DEF pwriting
<1>4. v \in pclash <=> th[v].clash
  BY Zenon DEF pclash
<1>5. QED
  BY <1>1, <1>2, <1>3, <1>4

LEMMA SameRequests ==
  /\ \A r : Promise!Writes(r) = Writes(r) /\ Promise!Reads(r) = Reads(r)
  /\ \A r : Promise!Leaves(r) = Leaves(r)
  /\ \A r, c : Promise!Allowed(r, c) <=> Allowed(r, c)
  /\ Promise!Items = Items
<1>1. /\ Promise!BlockItem = BlockItem /\ Promise!Items = Items
      /\ \A u, k : Promise!TokenItem(u, k) = TokenItem(u, k)
  BY DEF Promise!BlockItem, BlockItem, Promise!Items, Items, Promise!TokenItem, TokenItem
<1>2. \A r : Promise!Writes(r) = Writes(r)
  BY <1>1 DEF Promise!Writes, Writes
<1>3. \A r : Promise!Reads(r) = Reads(r)
  BY <1>1 DEF Promise!Reads, Reads
<1>4. \A r : Promise!Leaves(r) = Leaves(r)
  BY DEF Promise!Leaves, Leaves
<1>5. \A r, c : Promise!Allowed(r, c) <=> Allowed(r, c)
  BY <1>1 DEF Promise!Allowed, Allowed
<1>6. QED
  BY <1>1, <1>2, <1>3, <1>4, <1>5

\* A request arrives.
LEMMA StartCalls ==
  ASSUME IInv, NEW t \in Threads, NEW r \in requests, Start(t, r)
  PROVE  Promise!Call(t, r) /\ r \in UNION Workloads
<1> DEFINE nx == [Idle EXCEPT !.req = r, !.prog = Program(r)]
<1>1. Moves(t, nx) /\ nx.prog # <<>> /\ nx.req = r /\ ~nx.clash /\ nx.answer = "none"
  BY StartMoves
<1>2. ~Busy(th[t]) /\ r \in UNION Workloads
  BY DEF Start, IInv
<1> HIDE DEF nx
<1>3. Busy(nx) /\ ~Writing(nx) /\ ~Writing(th[t]) /\ ~th[t].clash
  BY <1>1, <1>2, ThreadFields DEF Moves, Told, Busy, Writing, IInv
<1>4. /\ pcall' = [pcall EXCEPT ![t] = r] /\ panswer' = [panswer EXCEPT ![t] = "none"]
      /\ pwriting' = pwriting /\ pcell' = pcell
  <2>1. \A i \in Items : cell'[i] = cell[i]
    BY <1>1, <1>3, ItemStays DEF WritesTo
  <2>2. pcell' = pcell
    BY <2>1 DEF pcell
  <2>3. t \notin pwriting
    BY <1>3, DisturbsSeen
  <2>4. pwriting' = pwriting
    <3>1. pwriting' = (pwriting \ {t}) \cup {u \in {t} : Writing(nx)}
      BY <1>1, Seen
    <3>2. QED
      BY <1>3, <2>3, <3>1
  <2>5. QED
    BY <1>1, <2>2, <2>4, Seen
<1>5. pclash' = pclash \cup {u \in {t} : HitBy(t, nx)}
  <2>1. \A u \in Threads : ~Hit(t, nx, u)
    BY <1>3 DEF Hit, Disturbing
  <2>2. t \notin pclash
    BY <1>3, DisturbsSeen
  <2>3. QED
    BY <1>1, <2>1, <2>2, Seen
<1>6. HitBy(t, nx) <=> \E v \in pwriting : v # t /\ Writes(pcall'[v]) \cap
                            (Reads(pcall'[t]) \cup Writes(pcall'[t])) # {}
  <2>1. pcall'[t] = r /\ \A v \in Threads : v # t => pcall'[v] = th[v].req
    BY <1>4 DEF pcall
  <2>2. HitBy(t, nx) <=> \E v \in Threads \ {t} :
                Writing(th[v]) /\ Writes(th[v].req) \cap (Reads(r) \cup Writes(r)) # {}
    BY <1>1, <1>3 DEF HitBy, Disturbing, Touches
  <2>3. QED
    BY <2>1, <2>2 DEF pwriting
<1>7. pclash' = pclash \cup {u \in {t} : \E v \in pwriting :
            v # u /\ Promise!Writes(pcall'[v]) \cap
                        (Promise!Reads(pcall'[u]) \cup Promise!Writes(pcall'[u])) # {}}
  BY <1>5, <1>6, SameRequests
<1>8. pcall[t] = NoRequest
  BY <1>2, DisturbsSeen
<1>9. QED
  BY <1>2, <1>4, <1>7, <1>8 DEF Promise!Call, Promise!Disturbs, pcell, pcall, pwriting, pclash, panswer

\* What a request may do, by the items and by their values in AtomicStores.
LEMMA AllowedSeen ==
  ASSUME IInv, NEW r \in AllRequests
  PROVE  /\ Unsure(r, cell) <=> \E i \in Reads(r) : pcell[i] = Torn
         /\ ~Unsure(r, cell) => (Allowed(r, cell) <=> Allowed(r, pcell))
<1>1. Reads(r) \subseteq Items
  BY RequestKinds
<1>2. Unsure(r, cell) <=> \E i \in Reads(r) : pcell[i] = Torn
  BY <1>1, ItemSeen DEF Unsure
<1>3. ASSUME ~Unsure(r, cell) PROVE Allowed(r, cell) <=> Allowed(r, pcell)
  <2>1. \A i \in Reads(r) : pcell[i] = cell[i]
    BY <1>1, <1>3, ItemSeen DEF Unsure
  <2>2. CASE r.do \in {"set_block", "rem_block"}
    <3>1. pcell[BlockItem] = cell[BlockItem]
      BY <2>1, <2>2 DEF Reads
    <3>2. QED
      BY <2>2, <3>1 DEF Allowed
  <2>3. CASE r.do = "set_token"
    <3>1. r.owner # r.user => pcell[TokenItem(r.owner, r.kind)] = cell[TokenItem(r.owner, r.kind)]
      BY <2>1, <2>3 DEF Reads
    <3>2. QED
      BY <2>3, <3>1 DEF Allowed
  <2>4. CASE r.do = "del_token"
    <3>1. pcell[TokenItem(r.owner, "w")] = cell[TokenItem(r.owner, "w")]
      BY <2>1, <2>4 DEF Reads
    <3>2. QED
      BY <2>4, <3>1 DEF Allowed
  <2>5. CASE r.do \in {"insert_block", "get_block", "get_token"}
    BY <2>5 DEF Allowed
  <2>6. QED
    BY <2>2, <2>3, <2>4, <2>5, RequestFacts
<1>4. QED
  BY <1>2, <1>3

\* A thread that has been admitted starts to write.
LEMMA WriterIsPermitted ==
  ASSUME IInv, NEW t \in Threads, NEW nx, Moves(t, nx), Busy(th[t]), nx.prog # <<>>,
         ~Writing(th[t]), Writing(nx)
  PROVE  Promise!Permit(t)
<1> DEFINE r == th[t].req
<1>1. /\ nx.req = r /\ nx.clash = th[t].clash /\ pcall' = pcall /\ panswer' = panswer
      /\ HitBy(t, nx) => th[t].clash
      /\ \A i : WritesTo(nx, i) <=> i \in Writes(r)
  BY Continued
<1>2. Writes(r) # {} /\ r \in AllRequests
  BY <1>1, ThreadFields DEF Writing, IInv
<1>3. /\ pcall[t] = r /\ pcall[t] # NoRequest /\ t \notin pwriting /\ (t \in pclash <=> th[t].clash)
  BY DisturbsSeen
<1>4. \/ t \in pclash \/ Allowed(r, pcell)
      \/ \E i \in Reads(r) : pcell[i] = Torn
  <2>1. th[t].clash \/ Permitted(r, cell)
    BY DEF Moves, Told
  <2>2. QED
    BY <1>2, <1>3, <2>1, AllowedSeen DEF Permitted
<1>5. pwriting' = pwriting \cup {t}
  <2>1. pwriting' = (pwriting \ {t}) \cup {u \in {t} : Writing(nx)}
    BY Seen
  <2>2. QED
    BY <2>1
<1>6. pclash' = pclash \cup {u \in {v \in Threads : pcall[v] # NoRequest} :
                    t # u /\ Writes(pcall[t]) \cap (Reads(pcall[u]) \cup Writes(pcall[u])) # {}}
                \cup {u \in {t} : \E v \in pwriting :
                    v # t /\ Writes(pcall[v]) \cap (Reads(pcall[t]) \cup Writes(pcall[t])) # {}}
  <2>1. pclash' = (pclash \ {t}) \cup {u \in Threads : Hit(t, nx, u)}
                    \cup {u \in {t} : nx.clash \/ HitBy(t, nx)}
    BY Seen
  <2>2. nx.clash \/ HitBy(t, nx) <=> t \in pclash
    BY <1>1, <1>3
  <2>3. ASSUME NEW u \in Threads
        PROVE  Hit(t, nx, u) <=> /\ pcall[u] # NoRequest /\ t # u
                                 /\ Writes(pcall[t]) \cap (Reads(pcall[u]) \cup Writes(pcall[u])) # {}
    BY <1>1, <1>3, DisturbsSeen DEF Hit, Disturbing, Touches
  <2>4. ASSUME NEW v \in pwriting, v # t,
               Writes(pcall[v]) \cap (Reads(pcall[t]) \cup Writes(pcall[t])) # {}
        PROVE  t \in pclash
    <3>1. v \in Threads /\ Disturbing(th[v], th[t])
      BY <1>3, <2>4, DisturbsSeen DEF Disturbing, Touches, pwriting
    <3>2. QED
      BY <1>3, <2>4, <3>1, Overlapped
  <2>5. pclash \subseteq Threads
    BY DEF pclash
  <2>6. QED
    BY <2>1, <2>2, <2>3, <2>4, <2>5
<1>7. pcell' = [i \in Items |-> IF \E u \in pwriting : i \in Writes(pcall[u]) \cap Writes(pcall[t])
                                THEN Torn ELSE pcell[i]]
  <2>1. ASSUME NEW i \in Items
        PROVE  (IF cell'[i] \in Damaged THEN Torn ELSE cell'[i]) =
                    IF \E u \in pwriting : i \in Writes(pcall[u]) \cap Writes(pcall[t])
                    THEN Torn ELSE pcell[i]
    <3>1. (\E u \in pwriting : i \in Writes(pcall[u])) <=> \E u \in Threads \ {t} : WritesTo(th[u], i)
      BY <1>3, DisturbsSeen DEF WritesTo, pwriting
    <3>2. pcell[i] = IF cell[i] \in Damaged THEN Torn ELSE cell[i]
      BY ItemSeen
    <3>3. CASE i \in Writes(r)
      <4>1. WritesTo(nx, i)
        BY <1>1, <3>3
      <4>2. QED
        BY <1>3, <3>1, <3>2, <3>3, <4>1, ItemPermitted
    <3>4. CASE i \notin Writes(r)
      <4>1. cell'[i] = cell[i]
        BY <1>1, <3>4, ItemStays DEF WritesTo
      <4>2. QED
        BY <1>3, <3>2, <3>4, <4>1
    <3>5. QED
      BY <3>3, <3>4
  <2>2. QED
    BY <2>1 DEF pcell
<1>8. /\ Promise!Writes(pcall[t]) # {}
      /\ \/ t \in pclash \/ Promise!Allowed(pcall[t], pcell)
         \/ \E i \in Promise!Reads(pcall[t]) : pcell[i] = Torn
  BY <1>2, <1>3, <1>4, SameRequests
<1>9. pclash' = pclash \cup {u \in {v \in Threads : pcall[v] # NoRequest} :
                    t # u /\ Promise!Writes(pcall[t]) \cap
                                (Promise!Reads(pcall[u]) \cup Promise!Writes(pcall[u])) # {}}
                \cup {u \in {t} : \E v \in pwriting :
                    v # t /\ Promise!Writes(pcall[v]) \cap
                                (Promise!Reads(pcall[t]) \cup Promise!Writes(pcall[t])) # {}}
  BY <1>6, SameRequests
<1>10. pcell' = [i \in Promise!Items |->
            IF \E u \in pwriting : i \in Promise!Writes(pcall[u]) \cap Promise!Writes(pcall[t])
            THEN Torn ELSE pcell[i]]
  BY <1>7, SameRequests
<1>11. t \in {v \in Threads : pcall[v] # NoRequest} \ pwriting
  BY <1>3
<1>12. QED
  BY <1>1, <1>5, <1>8, <1>9, <1>10, <1>11
  DEF Promise!Permit, Promise!Busy, Promise!Disturbs, pcell, pcall, pwriting, pclash, panswer

\* A thread that is through, by what it has done.
LEMMA Ended ==
  ASSUME IInv, NEW t \in Threads, NEW nx, Moves(t, nx), nx.prog = <<>>
  PROVE  /\ Busy(th[t]) /\ ~Writing(nx)
         /\ pcall' = [pcall EXCEPT ![t] = NoRequest]
         /\ panswer' = [panswer EXCEPT ![t] = IF t \in pclash THEN "unknown" ELSE nx.answer]
         /\ pwriting' = pwriting \ {t} /\ pclash' = pclash \ {t}
         /\ pcall[t] = th[t].req /\ pcall[t] # NoRequest /\ th[t].req \in AllRequests
<1>1. Busy(th[t]) /\ (th[t].clash => nx.answer = "unknown") /\ ~Busy(nx) /\ ~Writing(nx)
  BY DEF Moves, Told, Busy, Writing
<1>2. nx.req = NoRequest /\ ~nx.clash
  BY <1>1, ThreadFields DEF Moves
<1>3. /\ pcall[t] = th[t].req /\ pcall[t] # NoRequest /\ (t \in pclash <=> th[t].clash)
      /\ th[t].req \in AllRequests
  BY <1>1, DisturbsSeen, ThreadFields DEF IInv
<1>4. pwriting' = pwriting \ {t}
  <2>1. pwriting' = (pwriting \ {t}) \cup {u \in {t} : Writing(nx)}
    BY Seen
  <2>2. QED
    BY <1>1, <2>1
<1>5. pclash' = pclash \ {t}
  <2>1. pclash' = (pclash \ {t}) \cup {u \in Threads : Hit(t, nx, u)}
                    \cup {u \in {t} : nx.clash \/ HitBy(t, nx)}
    BY Seen
  <2>2. ~HitBy(t, nx) /\ \A u \in Threads : ~Hit(t, nx, u)
    BY <1>1 DEF HitBy, Hit, Disturbing
  <2>3. QED
    BY <1>2, <2>1, <2>2
<1>6. pcall' = [pcall EXCEPT ![t] = NoRequest]
  <2>1. pcall' = [pcall EXCEPT ![t] = nx.req]
    BY Seen
  <2>2. QED
    BY <1>2, <2>1
<1>7. panswer' = [panswer EXCEPT ![t] = IF t \in pclash THEN "unknown" ELSE nx.answer]
  <2>1. panswer' = [panswer EXCEPT ![t] = nx.answer]
    BY Seen
  <2>2. nx.answer = IF t \in pclash THEN "unknown" ELSE nx.answer
    BY <1>1, <1>3
  <2>3. QED
    BY <2>1, <2>2
<1>8. QED
  BY <1>1, <1>3, <1>4, <1>5, <1>6, <1>7

\* Its answer is a where it was not disturbed.
LEMMA EndedWith ==
  ASSUME IInv, NEW t \in Threads, NEW nx, Moves(t, nx), nx.prog = <<>>, NEW a,
         ~th[t].clash => nx.answer = a
  PROVE  Promise!Answers(t, a)
<1>1. (IF t \in pclash THEN "unknown" ELSE nx.answer) = IF t \in pclash THEN "unknown" ELSE a
  BY DisturbsSeen
<1>2. panswer' = [panswer EXCEPT ![t] = IF t \in pclash THEN "unknown" ELSE a]
  BY <1>1, Ended
<1>3. /\ pcall' = [pcall EXCEPT ![t] = NoRequest]
      /\ pwriting' = pwriting \ {t} /\ pclash' = pclash \ {t}
  BY Ended
<1>4. QED
  BY <1>2, <1>3 DEF Promise!Answers, pcall, pwriting, pclash, panswer

\* Before it writes it leaves the items alone.
LEMMA EndedItems ==
  ASSUME IInv, NEW t \in Threads, NEW nx, Moves(t, nx), nx.prog = <<>>, ~Writing(th[t])
  PROVE  pcell' = pcell
<1>1. \A i \in Items : ~WritesTo(nx, i) /\ ~WritesTo(th[t], i)
  BY DEF WritesTo, Writing, Busy
<1>2. \A i \in Items : cell'[i] = cell[i]
  BY <1>1, ItemStays
<1>3. QED
  BY <1>2 DEF pcell

LEMMA AnswersRefusal ==
  ASSUME IInv, NEW t \in Threads, NEW nx, Moves(t, nx), nx.prog = <<>>, ~Writing(th[t]),
         Writes(th[t].req) # {}
  PROVE  Promise!Refuse(t)
<1> DEFINE r == th[t].req
<1>1. ~th[t].clash => nx.answer = "fail" /\ (Unsure(r, cell) \/ ~Allowed(r, cell))
  BY DEF Moves, Told, Replies
<1>2. Promise!Answers(t, "fail") /\ pcall[t] = r /\ pcall[t] # NoRequest /\ r \in AllRequests
  BY <1>1, Ended, EndedWith
<1>3. t \notin pwriting /\ (t \in pclash <=> th[t].clash)
  BY DisturbsSeen
<1>4. \/ t \in pclash \/ ~Allowed(r, pcell)
      \/ \E i \in Reads(r) : pcell[i] = Torn
  BY <1>1, <1>2, <1>3, AllowedSeen
<1>5. /\ t \in {v \in Threads : pcall[v] # NoRequest} \ pwriting
      /\ Promise!Writes(pcall[t]) # {}
      /\ \/ t \in pclash \/ ~Promise!Allowed(pcall[t], pcell)
         \/ \E i \in Promise!Reads(pcall[t]) : pcell[i] = Torn
  BY <1>2, <1>3, <1>4, SameRequests
<1>6. pcell' = pcell
  BY EndedItems
<1>7. QED
  BY <1>2, <1>5, <1>6 DEF Promise!Refuse, Promise!Busy, pcell, pcall, pwriting, pclash

LEMMA AnswersGet ==
  ASSUME IInv, NEW t \in Threads, NEW nx, Moves(t, nx), nx.prog = <<>>, Writes(th[t].req) = {}
  PROVE  Promise!Get(t)
<1> DEFINE r == th[t].req
           truth(i) == IF pcell[i] = Absent THEN "fail" ELSE pcell[i]
           any == {"fail", "torn"} \cup Values \cup Users
           said(a) == [panswer EXCEPT ![t] = IF t \in pclash THEN "unknown" ELSE a]
<1>1. ~Writing(th[t])
  BY DEF Writing
<1>2. /\ pcall[t] = r /\ pcall[t] # NoRequest /\ r \in AllRequests
      /\ pcall' = [pcall EXCEPT ![t] = NoRequest] /\ panswer' = said(nx.answer)
      /\ pwriting' = pwriting \ {t} /\ pclash' = pclash \ {t}
      /\ t \in pclash <=> th[t].clash
  BY Ended, DisturbsSeen
<1>3. Reads(r) \subseteq Items /\ Reads(r) # {}
  <2>1. r.do \in {"get_block", "get_token"}
    BY <1>2, RequestFacts DEF Writes
  <2>2. QED
    BY <1>2, <2>1, RequestKinds DEF Reads
<1>4. \E i \in Reads(r) : \/ pcell[i] # Torn /\ panswer' = said(truth(i))
                          \/ pcell[i] = Torn /\ \E a \in any : panswer' = said(a)
  <2>1. CASE th[t].clash
    <3>1. PICK i \in Reads(r) : TRUE
      BY <1>3
    <3>2. \A a : said(nx.answer) = said(a)
      BY <1>2, <2>1
    <3>3. panswer' = said(truth(i)) /\ panswer' = said("fail") /\ "fail" \in any
      BY <1>2, <3>2
    <3>4. QED
      BY <3>1, <3>3
  <2>2. CASE ~th[t].clash
    <3>1. Reply(r, cell, nx.answer)
      BY <1>1, <2>2 DEF Moves, Told, Replies
    <3>2. PICK i \in Reads(r) :
              \/ cell[i] \in Damaged /\ nx.answer \in any
              \/ cell[i] \notin Damaged /\ nx.answer = IF cell[i] = Absent THEN "fail" ELSE cell[i]
      BY <3>1 DEF Reply, Contents
    <3>3. /\ pcell[i] = Torn <=> cell[i] \in Damaged
          /\ cell[i] \notin Damaged => pcell[i] = cell[i]
      BY <1>3, ItemSeen
    <3>4. QED
      BY <1>2, <3>2, <3>3
  <2>3. QED
    BY <2>1, <2>2
<1>5. /\ t \in {v \in Threads : pcall[v] # NoRequest} /\ Promise!Writes(pcall[t]) = {}
      /\ \E i \in Promise!Reads(pcall[t]) :
            \/ pcell[i] # Torn /\ panswer' = said(truth(i))
            \/ pcell[i] = Torn /\ \E a \in any : panswer' = said(a)
  BY <1>2, <1>4, SameRequests
<1>6. pcell' = pcell
  BY <1>1, EndedItems
<1>7. QED
  BY <1>2, <1>5, <1>6
  DEF Promise!Get, Promise!Answers, Promise!Busy, pcell, pcall, pwriting, pclash, panswer

\* A writer that is through.
LEMMA AnswersDone ==
  ASSUME IInv, NEW t \in Threads, NEW nx, Moves(t, nx), nx.prog = <<>>, Writing(th[t])
  PROVE  Promise!Complete(t)
<1> DEFINE r == th[t].req
<1>1. ~th[t].clash => nx.answer = "ok"
  BY DEF Moves, Told
<1>2. Promise!Answers(t, "ok") /\ pcall[t] = r /\ ~Writing(nx)
  BY <1>1, Ended, EndedWith
<1>3. t \in pwriting /\ (t \in pclash <=> th[t].clash)
  BY DisturbsSeen
<1>4. ASSUME NEW i \in Items
      PROVE  IF i \in Writes(r) /\ t \notin pclash THEN pcell'[i] = Leaves(r)
             ELSE \/ pcell'[i] = pcell[i]
                  \/ i \in Writes(r) /\ pcell[i] # Torn /\ pcell'[i] = Leaves(r)
  <2>1. pcell'[i] = IF cell'[i] \in Damaged THEN Torn ELSE cell'[i]
    BY DEF pcell
  <2>2. pcell[i] = IF cell[i] \in Damaged THEN Torn ELSE cell[i]
    BY ItemSeen
  <2>3. pcell[i] = Torn <=> cell[i] \in Damaged
    BY ItemSeen
  <2>4. CASE i \in Writes(r)
    <3>1. Leaves(r) \notin Damaged
      BY <1>2, <2>4, Ended, RequestKinds, ContentsDiffer DEF Fillings
    <3>2. WritesTo(th[t], i)
      BY <2>4 DEF WritesTo
    <3>3. /\ ~th[t].clash => cell'[i] = Leaves(r)
          /\ \/ cell'[i] = cell[i]
             \/ ~th[t].clash
             \/ cell[i] \notin Damaged /\ cell'[i] = Leaves(r)
      BY <3>2, ItemCompleted
    <3>4. CASE ~th[t].clash
      BY <1>3, <2>1, <2>4, <3>1, <3>3, <3>4
    <3>5. CASE th[t].clash
      BY <1>3, <2>1, <2>2, <2>3, <2>4, <3>1, <3>3, <3>5
    <3>6. QED
      BY <3>4, <3>5
  <2>5. CASE i \notin Writes(r)
    <3>1. cell'[i] = cell[i]
      BY <1>2, <2>5, ItemStays DEF WritesTo
    <3>2. QED
      BY <2>1, <2>2, <2>5, <3>1
  <2>6. QED
    BY <2>4, <2>5
<1>5. \A i \in Promise!Items :
            IF i \in Promise!Writes(pcall[t]) /\ t \notin pclash
            THEN pcell'[i] = Promise!Leaves(pcall[t])
            ELSE \/ pcell'[i] = pcell[i]
                 \/ /\ i \in Promise!Writes(pcall[t]) /\ pcell[i] # Torn
                    /\ pcell'[i] = Promise!Leaves(pcall[t])
  BY <1>2, <1>4, SameRequests
<1>6. QED
  BY <1>2, <1>3, <1>5 DEF Promise!Complete, pcell, pcall, pwriting, pclash

LEMMA StepSeen ==
  ASSUME IInv, NEW t \in Threads, Step(t)
  PROVE  Promise!Next \/ UNCHANGED <<pcell, pcall, pwriting, pclash, panswer>>
<1>1. PICK nx : Moves(t, nx)
  BY StepMoves
<1>2. Busy(th[t])
  BY DEF Step, Read, Admitted, Makes, Open, FillIn, Opens, ClearNext, At
<1>3. CASE nx.prog # <<>> /\ (Writing(nx) => Writing(th[t]))
  BY <1>1, <1>2, <1>3, GoesOnUnseen
<1>4. CASE nx.prog # <<>> /\ ~Writing(th[t]) /\ Writing(nx)
  BY <1>1, <1>2, <1>4, WriterIsPermitted DEF Promise!Next
<1>5. CASE nx.prog = <<>> /\ Writing(th[t])
  BY <1>1, <1>5, AnswersDone DEF Promise!Next
<1>6. CASE nx.prog = <<>> /\ ~Writing(th[t]) /\ Writes(th[t].req) # {}
  BY <1>1, <1>6, AnswersRefusal DEF Promise!Next
<1>7. CASE nx.prog = <<>> /\ Writes(th[t].req) = {}
  BY <1>1, <1>7, AnswersGet DEF Promise!Next
<1>8. QED
  BY <1>3, <1>4, <1>5, <1>6, <1>7

-----------------------------------------------------------------------------
\* A crash, the first state, and the theorem.

LEMMA CrashSeen ==
  ASSUME IInv, Crash
  PROVE  Promise!Crash
<1>1. \A u \in Threads : th'[u] = Idle
  BY DEF Crash
<1>2. pcall' = [u \in Threads |-> NoRequest] /\ panswer' = [u \in Threads |-> "none"]
  BY <1>1, IdleFields DEF pcall, panswer
<1>3. pwriting' = {} /\ pclash' = {}
  BY <1>1, IdleFields, IdleOK DEF pwriting, pclash
<1>4. pcell' = [i \in Items |-> IF \E u \in pwriting : i \in Writes(pcall[u])
                                THEN Torn ELSE pcell[i]]
  <2>1. ASSUME NEW i \in Items
        PROVE  (IF cell'[i] \in Damaged THEN Torn ELSE cell'[i]) =
                    IF \E u \in pwriting : i \in Writes(pcall[u]) THEN Torn ELSE pcell[i]
    <3>1. cell'[i] = IF \E u \in Threads : WritesTo(th[u], i) THEN "crash" ELSE cell[i]
      BY DEF Crash, WritesTo
    <3>2. (\E u \in pwriting : i \in Writes(pcall[u])) <=> \E u \in Threads : WritesTo(th[u], i)
      BY DisturbsSeen DEF WritesTo, pwriting
    <3>3. pcell[i] = IF cell[i] \in Damaged THEN Torn ELSE cell[i]
      BY ItemSeen
    <3>4. "crash" \in Damaged
      BY DEF Damaged
    <3>5. QED
      BY <3>1, <3>2, <3>3, <3>4
  <2>2. QED
    BY <2>1 DEF pcell
<1>5. pcell' = [i \in Promise!Items |->
            IF \E u \in pwriting : i \in Promise!Writes(pcall[u]) THEN Torn ELSE pcell[i]]
  BY <1>4, SameRequests
<1>6. QED
  BY <1>2, <1>3, <1>5 DEF Promise!Crash, pcell, pcall, pwriting, pclash, panswer

LEMMA NextSeen == IInv /\ [Next]_vars => [Promise!Next]_(Promise!storeVars)
<1> SUFFICES ASSUME IInv, [Next]_vars
             PROVE  Promise!Next \/ UNCHANGED <<pcell, pcall, pwriting, pclash, panswer>>
  BY DEF Promise!storeVars, pcell, pcall, pwriting, pclash, panswer
<1>1. ASSUME NEW t \in Threads, Step(t)
      PROVE  Promise!Next \/ UNCHANGED <<pcell, pcall, pwriting, pclash, panswer>>
  BY <1>1, StepSeen
<1>2. ASSUME NEW t \in Threads, NEW r \in requests, Start(t, r) PROVE Promise!Next
  BY <1>2, StartCalls DEF Promise!Next
<1>3. CASE Crash
  BY <1>3, CrashSeen DEF Promise!Next
<1>4. CASE UNCHANGED vars
  BY <1>4 DEF vars, pcell, pcall, pwriting, pclash, panswer, Writing, Busy, Next1
<1>5. QED
  BY <1>1, <1>2, <1>3, <1>4 DEF Next

LEMMA InitSeen == Init => Promise!Init
<1> SUFFICES ASSUME Init PROVE Promise!Init
  OBVIOUS
<1>1. /\ \A u \in Threads : th[u] = Idle
      /\ cell = [i \in Items |-> Stored(FirstTree, i)]
  BY DEF Init
<1>2. pcall = [u \in Threads |-> NoRequest] /\ panswer = [u \in Threads |-> "none"]
  BY <1>1, IdleFields DEF pcall, panswer
<1>3. pwriting = {} /\ pclash = {}
  BY <1>1, IdleFields, IdleOK DEF pwriting, pclash
<1>4. pcell \in [Promise!Items -> Values \cup Users \cup {Absent}]
  <2>1. ASSUME NEW i \in Items
        PROVE  (IF cell[i] \in Damaged THEN Torn ELSE cell[i]) \in Values \cup Users \cup {Absent}
    <3>1. cell[i] \in Contents \cup {Absent}
      BY <1>1, FirstValues
    <3>2. QED
      BY <3>1, ContentsDiffer DEF Contents, Fillings
  <2>2. QED
    BY <2>1, SameRequests DEF pcell
<1>5. QED
  BY <1>2, <1>3, <1>4 DEF Promise!Init, pcell, pcall, pwriting, pclash, panswer

\* A request of the example services that no writer of what it touches overlaps works
\* as one atomic step, with the right answer, however many file operations db.c
\* makes of it and whatever the other threads do; an item is damaged only by two
\* writers at once or by a crash, until the next complete write.
THEOREM ImplementsAtomicStores == Spec => AtomicUnlessDisturbed
  BY InitSeen, InvariantHolds, NextSeen, PTL DEF Spec, AtomicUnlessDisturbed, Promise!Spec
=============================================================================
