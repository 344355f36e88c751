----------------------- MODULE MidHermesUpdateProofs -----------------------
(***************************************************************************)
(* Proofs about what reaches the data store: no session overwrites contents*)
(* it has not read, and no two generations of keys are mixed in a block.   *)
(***************************************************************************)
EXTENDS MidHermesProofs

-----------------------------------------------------------------------------
\* The inductive invariant, part 1: contents.

\* Every stored MAC is the MAC of the contents it is stored with.
MacsKept == \A b \in Blocks : ds[b] # None => ds[b].mac.data = ds[b].data

\* A session works on the contents it has decrypted; the MAC it shows to the
\* data store is theirs, and an update's is made with the token it will save.
ContentsKept(s) ==
    /\ pc[s] \in {"update", "iterate", "rotate", "rem_block"} \cup Listing =>
          bl[s].data = bl[s].seen
    /\ pc[s] = "set_block" /\ bl[s].old_mac # None =>
          /\ bl[s].old_mac.data = bl[s].seen
          /\ req[s].op = "rotate" => bl[s].data = bl[s].seen
          /\ req[s].op = "update" => bl[s].old_mac.key = bl[s].wtoken.key
    /\ pc[s] = "set_block" => req[s].op \in {"create", "update", "rotate"}
    /\ pc[s] = "rotate" => req[s].op = "rotate"
    /\ pc[s] = "rem_block" => req[s].op = "delete"

ContentsInv == MacsKept /\ \A s \in Sessions : ContentsKept(s)

-----------------------------------------------------------------------------
\* The inductive invariant, part 2: generations of keys.

\* Session s has drawn a pair of keys that no other party knows yet.
Pending(s) ==
    /\ req[s].op \in {"create", "rotate"}
    /\ pc[s] \in Loading \cup Listing \cup {"iterate", "rotate", "set_block"}

\* Who holds write key k: a session, or the key store.
HeldBy(s, k) ==
    \/ bl[s].wtoken # None /\ bl[s].wtoken.key = k
    \/ \E j \in 1..Len(rights[s]) :
          rights[s][j].wtoken # None /\ rights[s][j].wtoken.key = k
StoredAt(b, u, k) == wtok[b][u] # None /\ wtok[b][u].key = k
Stored(k) == \E b \in Blocks, u \in Users : StoredAt(b, u, k)

\* Only keys that have been drawn are held ...
KeysDrawn ==
    /\ \A k \in Nat : Stored(k) => k < nextKey
    /\ \A s \in Sessions, k \in Nat : HeldBy(s, k) => k < nextKey

\* ... and a pending pair is held by the session that drew it, if by anyone.
PendingFresh(r) ==
    Pending(r) =>
        /\ req[r].key + 1 < nextKey
        /\ ~Stored(req[r].key + 1)
        /\ \A s \in Sessions \ {r} :
              /\ ~HeldBy(s, req[r].key + 1)
              /\ Pending(s) => req[s].key # req[r].key

KeysInv == KeysDrawn /\ \A r \in Sessions : PendingFresh(r)

\* A create or rotate saves its own pair; an update that would mix two
\* generations is refused by the data store now, and stays so.
PairInv(s) ==
    /\ pc[s] = "set_block" /\ req[s].op \in {"create", "rotate"} =>
          bl[s].rtoken.key = req[s].key /\ bl[s].wtoken.key = req[s].key + 1
    /\ pc[s] \in {"update", "set_block"} /\ req[s].op = "update" /\ bl[s].wtoken # None =>
          LET b == req[s].block IN
          \/ bl[s].wtoken.key = bl[s].rtoken.key + 1
          \/ ds[b] = None \/ reborn[b]
          \/ ds[b].mac.key # bl[s].wtoken.key

GenerationInv == SameGeneration /\ \A s \in Sessions : PairInv(s)

-----------------------------------------------------------------------------
\* ContentsInv is an invariant.

LEMMA InitContents == Init => ContentsInv
  BY DEF Init, DataStoreInit, ContentsInv, MacsKept, ContentsKept, Listing

\* A step of s leaves the other sessions' work alone.
LEMMA OthersContents ==
    ASSUME TypeInv, ContentsInv, NEW s \in Sessions, Frame(s), MacsKept', ContentsKept(s)'
    PROVE  ContentsInv'
<1> SUFFICES ASSUME NEW r \in Sessions, r # s
             PROVE  ContentsKept(r)'
  BY DEF ContentsInv
<1>1. pc'[r] = pc[r] /\ req'[r] = req[r] /\ bl'[r] = bl[r]
  BY DEF Frame
<1> QED
  BY <1>1 DEF ContentsInv, ContentsKept

\* A call that returns has nothing left to write.
LEMMA ReturnContents ==
    ASSUME TypeInv, NEW s \in Sessions, Return(s)
    PROVE  ContentsKept(s)'
<1>1. pc'[s] = "idle"
  BY DEF Return, TypeInv, TypeOK
<1> QED
  BY <1>1 DEF ContentsKept, Listing

LEMMA CallContents ==
    ASSUME TypeInv, ContentsInv, NEW s \in Sessions, Call(s)
    PROVE  ContentsInv'
<1>f. Frame(s)
  BY CallFrame DEF TypeInv
<1>1. CASE CreateBlock(s)
  <2>1. UNCHANGED ds /\ pc'[s] = "set_block"
    BY <1>1 DEF CreateBlock, Goto, TypeInv, TypeOK
  <2>2. req'[s].op = "create" /\ bl'[s].old_mac = None
    BY <1>1 DEF CreateBlock, NewBlock, TypeInv, TypeOK
  <2>3. ContentsKept(s)'
    BY <2>1, <2>2 DEF ContentsKept, Listing
  <2>4. MacsKept'
    BY <2>1 DEF ContentsInv, MacsKept
  <2> QED
    BY <1>f, <2>3, <2>4, OthersContents
<1>2. CASE ~CreateBlock(s)
  <2>1. UNCHANGED ds /\ pc'[s] = "get_rtoken"
    BY <1>2 DEF Call, Load, Goto, ReadBlock, UpdateBlock, DeleteBlock, RotateBlock,
       GrantReadAccess, GrantUpdateAccess, DenyReadAccess, DenyUpdateAccess, TypeInv, TypeOK
  <2>2. ContentsKept(s)'
    BY <2>1 DEF ContentsKept, Listing
  <2>3. MacsKept'
    BY <2>1 DEF ContentsInv, MacsKept
  <2> QED
    BY <1>f, <2>2, <2>3, OthersContents
<1> QED
  BY <1>1, <1>2

LEMMA LoadContents ==
    ASSUME TypeInv, ContentsInv, NEW s \in Sessions, Step(s),
           LoadRtoken(s) \/ LoadWtoken(s) \/ GetBlock(s) \/ Update(s) \/ Rotate(s)
    PROVE  ContentsInv'
<1>f. Frame(s)
  BY StepFrame DEF TypeInv
<1>m. MacsKept'
  BY DEF ContentsInv, MacsKept, LoadRtoken, LoadWtoken, GetBlock, Update, Rotate
<1>r. CASE Return(s)
  BY <1>f, <1>m, <1>r, ReturnContents, OthersContents
<1>1. CASE ~Return(s) /\ (LoadRtoken(s) \/ LoadWtoken(s))
  <2>1. pc'[s] \in {"get_wtoken", "get_block"}
    BY <1>1 DEF LoadRtoken, LoadWtoken, Goto, TypeInv, TypeOK
  <2>2. ContentsKept(s)'
    BY <2>1 DEF ContentsKept, Listing
  <2> QED
    BY <1>f, <1>m, <2>2, OthersContents
<1>2. CASE ~Return(s) /\ GetBlock(s)
  <2>1. /\ pc[s] = "get_block" /\ req[s].op # "read"
        /\ bl' = [bl EXCEPT ![s].data = ds[req[s].block].data,
                            ![s].seen = ds[req[s].block].data]
        /\ pc' = [pc EXCEPT ![s] = AfterLoad[req[s].op]]
    BY <1>2 DEF GetBlock, Goto
  <2>2. req[s].op \in ApiCalls \ {"create", "read"}
    BY <2>1 DEF TypeInv, Shape, RequestShape, Loading
  <2>3. AfterLoad[req[s].op] \in {"update", "iterate"} \cup Sharing
    BY <2>2 DEF AfterLoad, ApiCalls, Sharing
  <2>4. bl'[s].data = bl'[s].seen /\ pc'[s] \in {"update", "iterate"} \cup Sharing
    BY <2>1, <2>3 DEF TypeInv, TypeOK, BlockObject
  <2>5. ContentsKept(s)'
    BY <2>4 DEF ContentsKept, Listing, Sharing
  <2> QED
    BY <1>f, <1>m, <2>5, OthersContents
<1>3. CASE ~Return(s) /\ Update(s)
  <2>1. /\ pc[s] = "update" /\ UNCHANGED req
        /\ bl' = [bl EXCEPT ![s].data = req[s].data, ![s].old_mac = MacOf(bl[s])]
        /\ pc' = [pc EXCEPT ![s] = "set_block"]
    BY <1>3 DEF Update, Goto
  <2>2. /\ pc'[s] = "set_block" /\ req'[s] = req[s] /\ bl'[s].old_mac = MacOf(bl[s])
        /\ bl'[s].seen = bl[s].seen /\ bl'[s].wtoken = bl[s].wtoken
    BY <2>1 DEF TypeInv, TypeOK, BlockObject
  <2>3. req[s].op = "update" /\ bl[s].data = bl[s].seen
    BY <2>1 DEF TypeInv, Shape, RequestShape, ContentsInv, ContentsKept
  <2>4. ContentsKept(s)'
    BY <2>2, <2>3 DEF ContentsKept, MacOf, Listing
  <2> QED
    BY <1>f, <1>m, <2>4, OthersContents
<1>4. CASE ~Return(s) /\ Rotate(s)
  <2>1. /\ pc[s] = "rotate" /\ pc'[s] = "set_block" /\ req'[s] = req[s]
        /\ bl'[s].old_mac = MacOf(bl[s])
        /\ bl'[s].seen = bl[s].seen /\ bl'[s].data = bl[s].data
    BY <1>4 DEF Rotate, Goto, TypeInv, TypeOK, BlockObject
  <2>2. req[s].op = "rotate" /\ bl[s].data = bl[s].seen
    BY <2>1 DEF ContentsInv, ContentsKept
  <2>3. ContentsKept(s)'
    BY <2>1, <2>2 DEF ContentsKept, MacOf, Listing
  <2> QED
    BY <1>f, <1>m, <2>3, OthersContents
<1> QED
  BY <1>r, <1>1, <1>2, <1>3, <1>4

LEMMA ListContents ==
    ASSUME TypeInv, ContentsInv, NEW s \in Sessions, Step(s),
           Iterate(s) \/ NodeRtoken(s) \/ NodeWtoken(s) \/ IteratorNext(s)
    PROVE  ContentsInv'
<1>f. Frame(s)
  BY StepFrame DEF TypeInv
<1>m. MacsKept'
  BY DEF ContentsInv, MacsKept, Iterate, NodeRtoken, NodeWtoken, IteratorNext
<1>r. CASE Return(s)
  BY <1>f, <1>m, <1>r, ReturnContents, OthersContents
<1>1. CASE ~Return(s)
  <2>1. /\ pc[s] \in {"iterate"} \cup Listing
        /\ UNCHANGED <<req, bl>>
    BY <1>1 DEF Iterate, NodeRtoken, NodeWtoken, IteratorNext, Listing
  <2>2. req[s].op \in {"rotate", "delete"} /\ bl[s].data = bl[s].seen
    BY <2>1 DEF TypeInv, Shape, RequestShape, ContentsInv, ContentsKept
  <2>3. /\ pc'[s] \in {"aborted", "rotate", "rem_block"} \cup Listing
        /\ pc'[s] = "rotate" => req[s].op = "rotate"
        /\ pc'[s] = "rem_block" => req[s].op # "rotate"
    <3>1. CASE Iterate(s)
      BY <1>1, <3>1 DEF Iterate, Visit, Goto, Listing, TypeInv, TypeOK
    <3>2. CASE NodeRtoken(s)
      BY <3>2 DEF NodeRtoken, Goto, Listing, TypeInv, TypeOK
    <3>3. CASE NodeWtoken(s)
      BY <1>1, <3>3 DEF NodeWtoken, Goto, Listing, TypeInv, TypeOK
    <3>4. CASE IteratorNext(s)
      BY <3>4 DEF IteratorNext, Visit, Goto, Listing, TypeInv, TypeOK
    <3> QED
      BY <3>1, <3>2, <3>3, <3>4
  <2>4. ContentsKept(s)'
    BY <2>1, <2>2, <2>3 DEF ContentsKept, Listing
  <2> QED
    BY <1>f, <1>m, <2>4, OthersContents
<1> QED
  BY <1>r, <1>1

\* The labels from which nothing is written to the data store any more.
Written == {"idle", "own_rtoken", "own_wtoken", "save_rtoken", "save_wtoken", "del_own",
            "del_rtoken", "del_wtoken"} \cup Sharing

LEMMA WrittenContents ==
    ASSUME NEW s \in Sessions, pc'[s] \in Written
    PROVE  ContentsKept(s)'
  BY DEF ContentsKept, Written, Listing, Sharing

\* Where the steps that store or remove something go on.
LEMMA StoringLabels ==
    ASSUME TypeInv, NEW s \in Sessions,
           \/ SetBlockCall(s) \/ SaveOwnRtoken(s) \/ SaveOwnWtoken(s)
           \/ SaveNodeRtoken(s) \/ SaveNodeWtoken(s)
           \/ RemBlockCall(s) \/ DelOwnRtoken(s) \/ DelNodeRtoken(s) \/ DelNodeWtoken(s)
           \/ GrantRead(s) \/ GrantUpdate(s) \/ DenyWtoken(s) \/ DenyRtoken(s)
    PROVE  pc'[s] \in Written
<1> USE DEF TypeInv, TypeOK, Goto, Return, Written, Sharing
<1>1. CASE SetBlockCall(s) \/ SaveOwnRtoken(s) \/ SaveOwnWtoken(s)
  BY <1>1 DEF SetBlockCall, SaveOwnRtoken, SaveOwnWtoken, RtokenRefused, WtokenRefused,
     ForEach
<1>2. CASE SaveNodeRtoken(s) \/ SaveNodeWtoken(s)
  BY <1>2 DEF SaveNodeRtoken, SaveNodeWtoken, RtokenRefused, WtokenRefused, ForEach
<1>3. CASE RemBlockCall(s) \/ DelOwnRtoken(s) \/ DelNodeRtoken(s) \/ DelNodeWtoken(s)
  BY <1>3 DEF RemBlockCall, DelOwnRtoken, DelNodeRtoken, DelNodeWtoken, ForEach
<1>4. CASE GrantRead(s) \/ GrantUpdate(s) \/ DenyWtoken(s) \/ DenyRtoken(s)
  BY <1>4 DEF GrantRead, GrantUpdate, DenyWtoken, DenyRtoken
<1> QED
  BY <1>1, <1>2, <1>3, <1>4

LEMMA StoringContents ==
    ASSUME TypeInv, ContentsInv, NEW s \in Sessions, Step(s),
           \/ SetBlockCall(s) \/ SaveOwnRtoken(s) \/ SaveOwnWtoken(s)
           \/ SaveNodeRtoken(s) \/ SaveNodeWtoken(s)
           \/ RemBlockCall(s) \/ DelOwnRtoken(s) \/ DelNodeRtoken(s) \/ DelNodeWtoken(s)
           \/ GrantRead(s) \/ GrantUpdate(s) \/ DenyWtoken(s) \/ DenyRtoken(s)
    PROVE  ContentsInv'
<1>f. Frame(s)
  BY StepFrame DEF TypeInv
<1>k. ContentsKept(s)'
  BY StoringLabels, WrittenContents
<1>m. MacsKept'
  <2>1. CASE SetBlockCall(s)
    <3>1. ds' = ds \/ ds' = [ds EXCEPT ![req[s].block] = Sealed(bl[s])]
      BY <2>1 DEF SetBlockCall, SetBlock
    <3>2. Sealed(bl[s]).mac.data = Sealed(bl[s]).data
      BY DEF Sealed, MacOf
    <3> QED
      BY <3>1, <3>2 DEF ContentsInv, MacsKept, TypeInv, TypeOK, DataStoreTypeOK
  <2>2. CASE RemBlockCall(s)
    <3>1. ds' = ds \/ ds' = [ds EXCEPT ![req[s].block] = None]
      BY <2>2 DEF RemBlockCall, RemBlock
    <3> QED
      BY <3>1 DEF ContentsInv, MacsKept, TypeInv, TypeOK, DataStoreTypeOK
  <2>3. CASE UNCHANGED ds
    BY <2>3 DEF ContentsInv, MacsKept
  <2> QED
    BY <2>1, <2>2, <2>3 DEF SaveOwnRtoken, SaveOwnWtoken, SaveNodeRtoken, SaveNodeWtoken,
       DelOwnRtoken, DelNodeRtoken, DelNodeWtoken, GrantRead, GrantUpdate, DenyWtoken,
       DenyRtoken
<1> QED
  BY <1>f, <1>k, <1>m, OthersContents

LEMMA NextContents == TypeInv /\ ContentsInv /\ [Next]_vars => ContentsInv'
<1>1. ASSUME TypeInv, ContentsInv, UNCHANGED vars
      PROVE  ContentsInv'
  BY <1>1 DEF vars, ContentsInv, MacsKept, ContentsKept
<1>2. ASSUME TypeInv, ContentsInv, NEW s \in Sessions, Step(s)
      PROVE  ContentsInv'
  BY <1>2, LoadContents, ListContents, StoringContents DEF Step
<1>3. ASSUME TypeInv, ContentsInv, NEW s \in Sessions, Restart(s)
      PROVE  ContentsInv'
  <2>1. Return(s) /\ UNCHANGED ds
    BY <1>3 DEF Restart
  <2>2. Frame(s)
    BY <1>3, <2>1 DEF Return, Frame, TypeInv, TypeOK
  <2>3. MacsKept'
    BY <1>3, <2>1 DEF ContentsInv, MacsKept
  <2> QED
    BY <1>3, <2>1, <2>2, <2>3, ReturnContents, OthersContents
<1>4. ASSUME TypeInv, ContentsInv, NEW s \in Sessions, KeyStoreDown(s)
      PROVE  ContentsInv'
  BY <1>4 DEF KeyStoreDown, ContentsInv, MacsKept, ContentsKept
<1> QED
  BY <1>1, <1>2, <1>3, <1>4, CallContents DEF Next

LEMMA ContentsInvariant == Spec => [](TypeInv /\ ContentsInv)
<1>1. Init => TypeInv /\ ContentsInv
  BY InitType, InitContents
<1>2. TypeInv /\ ContentsInv /\ [Next]_vars => (TypeInv /\ ContentsInv)'
  BY NextType, NextContents
<1> QED
  BY <1>1, <1>2, PTL DEF Spec

-----------------------------------------------------------------------------
\* No update is lost.

\* Only two steps write to the data store.
LEMMA WhoWrites ==
    ASSUME NEW s \in Sessions, Call(s) \/ Step(s) \/ Restart(s) \/ KeyStoreDown(s)
    PROVE  UNCHANGED <<ds, reborn>> \/ SetBlockCall(s) \/ RemBlockCall(s)
<1>1. CASE Call(s)
  BY <1>1 DEF Call, CreateBlock, Load, ReadBlock, UpdateBlock, DeleteBlock, RotateBlock,
     GrantReadAccess, GrantUpdateAccess, DenyReadAccess, DenyUpdateAccess, historyVars
<1>2. CASE Step(s)
  BY <1>2 DEF Step, LoadRtoken, LoadWtoken, GetBlock, Update, Rotate, Iterate, NodeRtoken,
     NodeWtoken, IteratorNext, SaveOwnRtoken, SaveOwnWtoken, SaveNodeRtoken,
     SaveNodeWtoken, DelOwnRtoken, DelNodeRtoken, DelNodeWtoken, GrantRead, GrantUpdate,
     DenyWtoken, DenyRtoken, historyVars
<1>3. CASE Restart(s) \/ KeyStoreDown(s)
  BY <1>3 DEF Restart, KeyStoreDown, historyVars
<1> QED
  BY <1>1, <1>2, <1>3

\* What NoLostUpdate says of one block and one session.
Replaces(s, b) ==
    /\ req[s].block = b /\ pc'[s] # pc[s]
    /\ bl[s].seen = ds[b].data
    /\ req[s].op = "rotate" => ds'[b].data = ds[b].data

\* The data store compares MACs before it replaces or removes a block: the
\* session that gets through has read the contents it replaces.
LEMMA WriterHasRead ==
    ASSUME TypeInv, ContentsInv, NEW s \in Sessions, NEW b \in Blocks,
           SetBlockCall(s) \/ RemBlockCall(s), ds[b] # None, ds'[b] # ds[b]
    PROVE  Replaces(s, b)
<1>m. ds[b].mac \in Mac /\ ds[b].mac.data = ds[b].data
  BY DEF TypeInv, TypeOK, DataStoreTypeOK, StoredBlock, ContentsInv, MacsKept
<1>1. CASE SetBlockCall(s)
  <2>1. /\ pc[s] = "set_block" /\ SetBlockAllowed(req[s].block, bl[s].old_mac)
        /\ ds' = [ds EXCEPT ![req[s].block] = Sealed(bl[s])]
        /\ pc' = [pc EXCEPT ![s] = "own_rtoken"]
    BY <1>1 DEF SetBlockCall, SetBlock, Goto
  <2>2. req[s].block = b
    BY <2>1 DEF TypeInv, TypeOK, DataStoreTypeOK
  <2>3. bl[s].old_mac = ds[b].mac /\ bl[s].old_mac # None
    BY <1>m, <2>1, <2>2, NoneAssumption DEF SetBlockAllowed
  <2>4. /\ bl[s].seen = ds[b].data
        /\ req[s].op = "rotate" => bl[s].data = bl[s].seen
    BY <1>m, <2>1, <2>3 DEF ContentsInv, ContentsKept
  <2>5. ds'[b].data = bl[s].data
    BY <2>1, <2>2 DEF Sealed, TypeInv, TypeOK, DataStoreTypeOK
  <2>6. pc'[s] = "own_rtoken"
    BY <2>1 DEF TypeInv, TypeOK
  <2> QED
    BY <2>1, <2>2, <2>4, <2>5, <2>6 DEF Replaces
<1>2. CASE RemBlockCall(s)
  <2>1. /\ pc[s] = "rem_block" /\ RemBlockAllowed(req[s].block, MacOf(bl[s]))
        /\ ds' = [ds EXCEPT ![req[s].block] = None]
        /\ pc' = [pc EXCEPT ![s] = "del_own"]
    BY <1>2 DEF RemBlockCall, RemBlock, Goto
  <2>2. req[s].block = b
    BY <2>1 DEF TypeInv, TypeOK, DataStoreTypeOK
  <2>3. MacOf(bl[s]) = ds[b].mac
    BY <2>1, <2>2 DEF RemBlockAllowed
  <2>4. bl[s].seen = ds[b].data /\ req[s].op = "delete"
    BY <1>m, <2>1, <2>3 DEF ContentsInv, ContentsKept, MacOf
  <2>5. pc'[s] = "del_own"
    BY <2>1 DEF TypeInv, TypeOK
  <2> QED
    BY <2>1, <2>2, <2>4, <2>5 DEF Replaces
<1> QED
  BY <1>1, <1>2

LEMMA StepReplaces ==
    ASSUME TypeInv, ContentsInv, [Next]_vars, NEW b \in Blocks, ds[b] # None, ds'[b] # ds[b]
    PROVE  \E s \in Sessions : Replaces(s, b)
<1>1. PICK s \in Sessions : Call(s) \/ Step(s) \/ Restart(s) \/ KeyStoreDown(s)
  BY DEF Next, vars
<1>2. SetBlockCall(s) \/ RemBlockCall(s)
  BY <1>1, WhoWrites
<1> QED
  BY <1>2, WriterHasRead

\* Whatever the sessions do and wherever they stop, an update, rotate or
\* delete replaces only contents its caller had decrypted, and rotate keeps
\* them: mid_hermes_ll_block_save and mid_hermes_ll_block_delete never lose a
\* change made after the load.
THEOREM UpdatesNotLost == Spec => NoLostUpdate
<1>1. TypeInv /\ ContentsInv /\ [Next]_vars =>
        [\A b \in Blocks : ds[b] # None /\ ds'[b] # ds[b] =>
           \E s \in Sessions :
              /\ req[s].block = b /\ pc'[s] # pc[s]
              /\ bl[s].seen = ds[b].data
              /\ req[s].op = "rotate" => ds'[b].data = ds[b].data]_vars
  BY StepReplaces DEF Replaces
<1> QED
  BY <1>1, ContentsInvariant, PTL DEF Spec, NoLostUpdate

-----------------------------------------------------------------------------
\* KeysInv is an invariant.

LEMMA InitKeys == Init => KeysInv
<1> SUFFICES ASSUME Init PROVE KeysInv
  OBVIOUS
<1>1. \A k : ~Stored(k)
  BY DEF Init, KeyStoreInit, Stored, StoredAt
<1>2. \A s \in Sessions : \A k : ~HeldBy(s, k)
  BY DEF Init, NoBlock, HeldBy
<1>3. \A s \in Sessions : ~Pending(s)
  BY DEF Init, NoRequest, Pending, Loading, Listing
<1> QED
  BY <1>1, <1>2, <1>3 DEF KeysInv, KeysDrawn, PendingFresh

\* A step of s that draws no keys: it learns a write key from the key store or
\* takes its own pending one, and stores one it holds once its block is saved.
Learns(s) ==
    /\ Frame(s)
    /\ nextKey' = nextKey
    /\ Pending(s)' => Pending(s) /\ req'[s].key = req[s].key
    /\ \A k \in Nat : HeldBy(s, k)' =>
          HeldBy(s, k) \/ Stored(k) \/ (Pending(s) /\ k = req[s].key + 1)
    /\ \A k \in Nat : Stored(k)' => Stored(k) \/ (HeldBy(s, k) /\ ~Pending(s))

LEMMA LearnsKeys ==
    ASSUME TypeInv, KeysInv, NEW s \in Sessions, Learns(s)
    PROVE  KeysInv'
<1>t. nextKey \in Nat /\ \A r \in Sessions : req[r].key \in Nat /\ req[r].key + 1 \in Nat
  BY DEF TypeInv, TypeOK, Request
<1>f. \A r \in Sessions \ {s} :
        /\ Pending(r)' <=> Pending(r)
        /\ req'[r].key = req[r].key
        /\ \A k : HeldBy(r, k)' <=> HeldBy(r, k)
  BY DEF Learns, Frame, Pending, HeldBy
<1>1. KeysDrawn'
  <2>1. ASSUME NEW k \in Nat, Stored(k)'
        PROVE  k < nextKey'
    BY <2>1 DEF Learns, KeysInv, KeysDrawn
  <2>2. ASSUME NEW r \in Sessions, NEW k \in Nat, HeldBy(r, k)'
        PROVE  k < nextKey'
    <3>1. CASE r # s
      BY <1>f, <2>2, <3>1 DEF Learns, KeysInv, KeysDrawn
    <3>2. CASE r = s
      BY <1>t, <2>2, <3>2 DEF Learns, KeysInv, KeysDrawn, PendingFresh
    <3> QED
      BY <3>1, <3>2
  <2> QED
    BY <2>1, <2>2 DEF KeysDrawn
<1>2. ASSUME NEW r \in Sessions, Pending(r)'
      PROVE  PendingFresh(r)'
  <2>k. PICK k \in Nat : k = req[r].key + 1
    BY <1>t
  <2>0. Pending(r) /\ req'[r].key = req[r].key
    BY <1>f, <1>2 DEF Learns
  <2>1. k \in Nat /\ k < nextKey /\ ~Stored(k)
        /\ \A q \in Sessions \ {r} : ~HeldBy(q, k) /\ (Pending(q) => req[q].key # req[r].key)
    BY <1>t, <2>0, <2>k DEF KeysInv, PendingFresh
  <2>2. ~Stored(k)'
    <3>1. CASE r = s
      BY <2>0, <2>1, <3>1 DEF Learns
    <3>2. CASE r # s
      BY <2>1, <3>2 DEF Learns
    <3> QED
      BY <3>1, <3>2
  <2>3. ASSUME NEW q \in Sessions \ {r}
        PROVE  ~HeldBy(q, k)' /\ (Pending(q)' => req'[q].key # req[r].key)
    <3>1. CASE q # s
      BY <1>f, <2>1, <2>3, <3>1
    <3>2. CASE q = s
      <4>1. ASSUME HeldBy(q, k)' PROVE FALSE
        <5>1. Pending(s) /\ k = req[s].key + 1
          BY <2>1, <2>3, <3>2, <4>1 DEF Learns
        <5> QED
          BY <1>t, <2>1, <2>3, <2>k, <3>2, <5>1
      <4>2. Pending(q)' => req'[q].key # req[r].key
        BY <2>1, <2>3, <3>2 DEF Learns
      <4> QED
        BY <4>1, <4>2
    <3> QED
      BY <3>1, <3>2
  <2>4. nextKey' = nextKey
    BY DEF Learns
  <2> QED
    BY <2>0, <2>1, <2>2, <2>3, <2>4, <2>k DEF PendingFresh
<1>3. \A r \in Sessions : PendingFresh(r)'
  BY <1>2 DEF PendingFresh
<1> QED
  BY <1>1, <1>3 DEF KeysInv

\* A step of s that draws the next pair of keys.
Draws(s) ==
    /\ Frame(s)
    /\ nextKey' = nextKey + 2
    /\ req'[s].key = nextKey
    /\ \A k \in Nat : HeldBy(s, k)' => HeldBy(s, k) \/ k = nextKey + 1
    /\ \A k \in Nat : Stored(k)' => Stored(k)

LEMMA DrawsKeys ==
    ASSUME TypeInv, KeysInv, NEW s \in Sessions, Draws(s)
    PROVE  KeysInv'
<1>t. nextKey \in Nat /\ \A r \in Sessions : req[r].key \in Nat /\ req[r].key + 1 \in Nat
  BY DEF TypeInv, TypeOK, Request
<1>f. \A r \in Sessions \ {s} :
        /\ Pending(r)' <=> Pending(r)
        /\ req'[r].key = req[r].key
        /\ \A k : HeldBy(r, k)' <=> HeldBy(r, k)
  BY DEF Draws, Frame, Pending, HeldBy
<1>1. KeysDrawn'
  <2>1. ASSUME NEW k \in Nat, Stored(k)'
        PROVE  k < nextKey'
    BY <1>t, <2>1 DEF Draws, KeysInv, KeysDrawn
  <2>2. ASSUME NEW r \in Sessions, NEW k \in Nat, HeldBy(r, k)'
        PROVE  k < nextKey'
    <3>1. HeldBy(r, k) \/ k = nextKey + 1
      BY <1>f, <2>2 DEF Draws
    <3> QED
      BY <1>t, <3>1 DEF Draws, KeysInv, KeysDrawn
  <2> QED
    BY <2>1, <2>2 DEF KeysDrawn
<1>2. PendingFresh(s)'
  <2>k. PICK k \in Nat : k = nextKey + 1
    BY <1>t
  <2>1. k \in Nat /\ ~Stored(k) /\ \A q \in Sessions : ~HeldBy(q, k)
    BY <1>t, <2>k DEF KeysInv, KeysDrawn
  <2>2. \A q \in Sessions \ {s} : Pending(q) => req[q].key # nextKey
    BY <1>t DEF KeysInv, PendingFresh
  <2>3. \A q \in Sessions \ {s} :
          ~HeldBy(q, k)' /\ (Pending(q)' => req'[q].key # nextKey)
    BY <1>f, <2>1, <2>2
  <2>4. ~Stored(k)' /\ req'[s].key = nextKey /\ k < nextKey'
    BY <1>t, <2>1, <2>k DEF Draws
  <2> QED
    BY <2>3, <2>4, <2>k DEF PendingFresh
<1>3. ASSUME NEW r \in Sessions \ {s}, Pending(r)'
      PROVE  PendingFresh(r)'
  <2>k. PICK k \in Nat : k = req[r].key + 1
    BY <1>t
  <2>0. Pending(r) /\ req'[r].key = req[r].key
    BY <1>f, <1>3
  <2>1. k \in Nat /\ k < nextKey /\ ~Stored(k)
        /\ \A q \in Sessions \ {r} : ~HeldBy(q, k) /\ (Pending(q) => req[q].key # req[r].key)
    BY <1>t, <2>0, <2>k DEF KeysInv, PendingFresh
  <2>2. ~Stored(k)' /\ k < nextKey'
    BY <1>t, <2>1 DEF Draws
  <2>3. ASSUME NEW q \in Sessions \ {r}
        PROVE  ~HeldBy(q, k)' /\ (Pending(q)' => req'[q].key # req[r].key)
    <3>1. CASE q # s
      BY <1>f, <2>1, <2>3, <3>1
    <3>2. CASE q = s
      <4>1. k # nextKey + 1 /\ req[r].key # nextKey
        BY <1>t, <2>1, <2>k
      <4> QED
        BY <2>1, <2>3, <3>2, <4>1 DEF Draws
    <3> QED
      BY <3>1, <3>2
  <2> QED
    BY <2>0, <2>2, <2>3, <2>k DEF PendingFresh
<1>4. \A r \in Sessions : PendingFresh(r)'
  BY <1>2, <1>3 DEF PendingFresh
<1> QED
  BY <1>1, <1>4 DEF KeysInv

\* A call that starts draws a pair or none.
LEMMA CallKeys ==
    ASSUME TypeInv, KeysInv, NEW s \in Sessions, Call(s)
    PROVE  KeysInv'
<1>f. Frame(s)
  BY CallFrame DEF TypeInv
<1>k. UNCHANGED <<wtok, rights>>
  BY DEF Call, CreateBlock, Load, ReadBlock, UpdateBlock, DeleteBlock, RotateBlock,
     GrantReadAccess, GrantUpdateAccess, DenyReadAccess, DenyUpdateAccess, ksVars
<1>s. \A k : Stored(k)' <=> Stored(k)
  BY <1>k DEF Stored, StoredAt
<1>1. CASE CreateBlock(s)
  <2>1. /\ nextKey' = nextKey + 2 /\ req'[s].key = nextKey
        /\ bl'[s].wtoken = TokenGenerate(nextKey + 1, UserOf[s])
    BY <1>1 DEF CreateBlock, NewBlock, TypeInv, TypeOK
  <2>2. \A k : HeldBy(s, k)' => HeldBy(s, k) \/ k = nextKey + 1
    BY <1>k, <2>1 DEF HeldBy, TokenGenerate
  <2> QED
    BY <1>f, <1>s, <2>1, <2>2, DrawsKeys DEF Draws
<1>2. CASE RotateBlock(s)
  <2>1. /\ nextKey' = nextKey + 2 /\ req'[s].key = nextKey /\ UNCHANGED bl
    BY <1>2 DEF RotateBlock, Load, TypeInv, TypeOK
  <2>2. \A k : HeldBy(s, k)' => HeldBy(s, k)
    BY <1>k, <2>1 DEF HeldBy
  <2> QED
    BY <1>f, <1>s, <2>1, <2>2, DrawsKeys DEF Draws
<1>3. CASE ~CreateBlock(s) /\ ~RotateBlock(s)
  <2>1. /\ nextKey' = nextKey /\ UNCHANGED bl
        /\ req'[s].op \in ApiCalls \ {"create", "rotate"}
    <3>1. CASE ReadBlock(s) \/ UpdateBlock(s) \/ DeleteBlock(s)
      BY <3>1 DEF ReadBlock, UpdateBlock, DeleteBlock, Load, ApiCalls, TypeInv, TypeOK
    <3>2. CASE GrantReadAccess(s) \/ GrantUpdateAccess(s)
      BY <3>2 DEF GrantReadAccess, GrantUpdateAccess, Load, ApiCalls, TypeInv, TypeOK
    <3>3. CASE DenyReadAccess(s) \/ DenyUpdateAccess(s)
      BY <3>3 DEF DenyReadAccess, DenyUpdateAccess, Load, ApiCalls, TypeInv, TypeOK
    <3> QED
      BY <1>3, <3>1, <3>2, <3>3 DEF Call
  <2>2. \A k : HeldBy(s, k)' => HeldBy(s, k)
    BY <1>k, <2>1 DEF HeldBy
  <2>3. ~Pending(s)'
    BY <2>1 DEF Pending
  <2> QED
    BY <1>f, <1>s, <2>1, <2>2, <2>3, LearnsKeys DEF Learns
<1> QED
  BY <1>1, <1>2, <1>3

\* A call that returns forgets the keys it holds.
LEMMA ReturnHolds ==
    ASSUME TypeInv, NEW s \in Sessions, Return(s)
    PROVE  ~Pending(s)' /\ \A k : ~HeldBy(s, k)'
  BY DEF Return, TypeInv, TypeOK, Pending, HeldBy, NoRequest, NoBlock, Loading, Listing

LEMMA ReturnLearns ==
    ASSUME TypeInv, NEW s \in Sessions, Frame(s), Return(s), nextKey' = nextKey,
           \A k \in Nat : Stored(k)' => Stored(k) \/ (HeldBy(s, k) /\ ~Pending(s))
    PROVE  Learns(s)
  BY ReturnHolds DEF Learns

\* What an answer of the key store teaches.
LEMMA WtokenStored ==
    ASSUME TypeInv, NEW s \in Sessions, NEW b \in Blocks, NEW u \in Users, NEW k,
           Wtoken(s, b, u) # None, Wtoken(s, b, u).key = k
    PROVE  Stored(k)
  BY DEF Wtoken, Stored, StoredAt

LEMMA LoadLearns ==
    ASSUME TypeInv, NEW s \in Sessions, Step(s),
           LoadRtoken(s) \/ LoadWtoken(s) \/ GetBlock(s) \/ Update(s)
    PROVE  Learns(s)
<1>f. Frame(s)
  BY StepFrame DEF TypeInv
<1>k. UNCHANGED <<wtok, nextKey>>
  BY DEF LoadRtoken, LoadWtoken, GetBlock, Update, ksVars
<1>s. \A k : Stored(k)' <=> Stored(k)
  BY <1>k DEF Stored, StoredAt
<1>u. UserOf[s] \in Users
  BY SessionsAssumption, RegisteredAssumption
<1>r. CASE Return(s)
  BY <1>f, <1>k, <1>s, <1>r, ReturnLearns
<1>g. ASSUME UNCHANGED <<req, rights>>,
             pc[s] \in Loading \/ (pc[s] = "update" /\ req[s].op = "update"),
             bl'[s].wtoken = bl[s].wtoken \/ bl'[s].wtoken = Wtoken(s, req[s].block, UserOf[s])
      PROVE  Learns(s)
  <2>1. req[s].block \in Blocks
    BY <1>g DEF TypeInv, Shape, RequestShape, Loading
  <2>2. \A k : HeldBy(s, k)' => HeldBy(s, k) \/ Stored(k)
    BY <1>g, <1>u, <2>1, WtokenStored DEF HeldBy
  <2>3. Pending(s)' => Pending(s) /\ req'[s].key = req[s].key
    BY <1>g DEF Pending
  <2> QED
    BY <1>f, <1>k, <1>s, <2>2, <2>3 DEF Learns
<1>1. CASE LoadRtoken(s)
  BY <1>g, <1>1 DEF LoadRtoken, Loading, TypeInv, TypeOK, BlockObject
<1>2. CASE ~Return(s) /\ LoadWtoken(s)
  BY <1>g, <1>2 DEF LoadWtoken, Loading, TypeInv, TypeOK, BlockObject
<1>3. CASE ~Return(s) /\ GetBlock(s)
  BY <1>g, <1>3 DEF GetBlock, Loading, TypeInv, TypeOK, BlockObject
<1>4. CASE ~Return(s) /\ Update(s)
  <2>1. pc[s] = "update" => req[s].op = "update"
    BY DEF TypeInv, Shape, RequestShape
  <2> QED
    BY <1>g, <1>4, <2>1 DEF Update, TypeInv, TypeOK, BlockObject
<1> QED
  BY <1>r, <1>1, <1>2, <1>3, <1>4

\* Rotation hands out the pending write key only.
LEMMA RewrapKeys ==
    ASSUME NEW list \in Seq(Node), NEW k \in Nat, NEW u \in Users,
           NEW j \in 1..Len(list), Rewrap(list, k, u)[j].wtoken # None
    PROVE  Rewrap(list, k, u)[j].wtoken.key = k + 1
<1>1. list[j] \in Node
  OBVIOUS
<1>2. Rewrap(list, k, u)[j].wtoken =
        IF list[j].wtoken = None THEN None
        ELSE TokenForUser(TokenGenerate(k + 1, u), u, list[j].user)
  BY <1>1 DEF Rewrap, Node
<1>3. Rewrap(list, k, u)[j].wtoken = TokenForUser(TokenGenerate(k + 1, u), u, list[j].user)
  BY <1>2
<1> QED
  BY <1>3 DEF TokenForUser, TokenGenerate

LEMMA RotateLearns ==
    ASSUME TypeInv, ContentsInv, NEW s \in Sessions, Step(s), Rotate(s)
    PROVE  Learns(s)
<1>f. Frame(s)
  BY StepFrame DEF TypeInv
<1> DEFINE k == req[s].key
           u == UserOf[s]
<1>1. /\ pc[s] = "rotate" /\ req[s].op = "rotate"
      /\ UNCHANGED <<req, wtok, nextKey>>
      /\ bl'[s].wtoken = TokenGenerate(k + 1, u)
      /\ rights'[s] = Rewrap(rights[s], k, u)
  BY DEF Rotate, ksVars, TypeInv, TypeOK, BlockObject, ContentsInv, ContentsKept
<1>2. rights[s] \in Seq(Node) /\ k \in Nat /\ u \in Users
  BY SessionsAssumption, RegisteredAssumption DEF TypeInv, TypeOK, Request
<1>3. Len(Rewrap(rights[s], k, u)) = Len(rights[s])
  BY <1>2, RewrapType
<1>4. \A j \in 1..Len(rights'[s]) :
        rights'[s][j].wtoken # None => rights'[s][j].wtoken.key = k + 1
  BY <1>1, <1>2, <1>3, RewrapKeys
<1>5. Pending(s)
  BY <1>1 DEF Pending
<1>6. \A i \in Nat : HeldBy(s, i)' => i = k + 1
  BY <1>1, <1>4 DEF HeldBy, TokenGenerate
<1>7. \A i \in Nat : Stored(i)' <=> Stored(i)
  BY <1>1 DEF Stored, StoredAt
<1> QED
  BY <1>f, <1>1, <1>5, <1>6, <1>7 DEF Learns

LEMMA ListLearns ==
    ASSUME TypeInv, NEW s \in Sessions, Step(s),
           Iterate(s) \/ NodeRtoken(s) \/ NodeWtoken(s) \/ IteratorNext(s)
    PROVE  Learns(s)
<1>f. Frame(s)
  BY StepFrame DEF TypeInv
<1>k. UNCHANGED <<wtok, nextKey>>
  BY DEF Iterate, NodeRtoken, NodeWtoken, IteratorNext, ksVars
<1>s. \A k : Stored(k)' <=> Stored(k)
  BY <1>k DEF Stored, StoredAt
<1>b. /\ pc[s] \in Listing \cup {"iterate"} /\ req[s].block \in Blocks
      /\ pc[s] # "iterate" => it[s].user \in Users
  BY DEF TypeInv, Shape, RequestShape, ListShape, Listing, Iterate, NodeRtoken, NodeWtoken,
     IteratorNext
<1>r. CASE Return(s)
  BY <1>f, <1>k, <1>s, <1>r, ReturnLearns
<1>g. ASSUME UNCHANGED <<req, bl>>, rights[s] \in Seq(Node),
             \A k : HeldBy(s, k)' => HeldBy(s, k) \/ Stored(k)
      PROVE  Learns(s)
  <2>1. Pending(s)' => Pending(s) /\ req'[s].key = req[s].key
    BY <1>b, <1>g DEF Pending
  <2> QED
    BY <1>f, <1>g, <1>k, <1>s, <2>1 DEF Learns
<1>t. rights[s] \in Seq(Node)
  BY DEF TypeInv, TypeOK
<1>1. CASE UNCHANGED <<req, bl, rights>>
  BY <1>g, <1>t, <1>1 DEF HeldBy
<1>2. CASE UNCHANGED <<req, bl>> /\ rights' = [rights EXCEPT ![s] = <<>>]
  <2>1. rights'[s] = <<>>
    BY <1>2 DEF TypeInv, TypeOK
  <2>2. \A k : HeldBy(s, k)' => HeldBy(s, k)
    BY <1>2, <2>1 DEF HeldBy
  <2> QED
    BY <1>g, <1>t, <1>2, <2>2
<1>3. CASE ~Return(s) /\ NodeWtoken(s) /\ NodeLoaded(s)
  <2> DEFINE n == [user |-> it[s].user, rtoken |-> it[s].rtoken,
                   wtoken |-> Wtoken(s, req[s].block, it[s].user)]
  <2>1. /\ pc[s] = "node_wtoken" /\ UNCHANGED <<req, bl>>
        /\ rights'[s] = Append(rights[s], n)
    BY <1>3 DEF NodeWtoken, TypeInv, TypeOK
  <2>2. it[s].user \in Users
    BY <1>b, <2>1
  <2>3. \A k : n.wtoken # None /\ n.wtoken.key = k => Stored(k)
    BY <1>b, <2>2, WtokenStored
  <2>4. n \in Node
    <3>1. Wtoken(s, req[s].block, it[s].user) \in MaybeToken
      BY <1>b, <2>2 DEF TypeInv, TypeOK, KeyStoreTypeOK, Wtoken, MaybeToken
    <3> QED
      BY <2>2, <3>1 DEF Node, TypeInv, TypeOK, Iterator
  <2> HIDE DEF n
  <2>5. /\ Len(rights'[s]) = Len(rights[s]) + 1
        /\ \A j \in 1..Len(rights[s]) : rights'[s][j] = rights[s][j]
        /\ rights'[s][Len(rights[s]) + 1] = n
    BY <1>t, <2>1, <2>4, AppendProperties
  <2>6. \A j \in 1..Len(rights'[s]) : j \in 1..Len(rights[s]) \/ rights'[s][j] = n
    <3>1. Len(rights[s]) \in Nat
      BY <1>t
    <3> QED
      BY <2>5, <3>1
  <2>7. \A k : HeldBy(s, k)' => HeldBy(s, k) \/ Stored(k)
    BY <2>1, <2>3, <2>5, <2>6 DEF HeldBy
  <2> QED
    BY <1>g, <1>t, <2>1, <2>7
<1> QED
  BY <1>r, <1>1, <1>2, <1>3 DEF Iterate, NodeRtoken, NodeWtoken, IteratorNext, Visit

\* What storing or removing a token does to the keys in the key store ...
StoresHeld(s) ==
    \/ UNCHANGED wtok
    \/ \E b \in Blocks, u \in Users :
          \/ wtok' = [wtok EXCEPT ![b][u] = None]
          \/ \E t \in Token : HeldBy(s, t.key) /\ wtok' = [wtok EXCEPT ![b][u] = t]

LEMMA StoresHeldKeys ==
    ASSUME TypeInv, NEW s \in Sessions, StoresHeld(s)
    PROVE  \A k : Stored(k)' => Stored(k) \/ HeldBy(s, k)
<1> SUFFICES ASSUME NEW k, NEW c \in Blocks, NEW v \in Users, StoredAt(c, v, k)'
             PROVE  Stored(k) \/ HeldBy(s, k)
  BY DEF Stored
<1>1. wtok'[c][v] = wtok[c][v] \/ \E t \in Token : HeldBy(s, t.key) /\ wtok'[c][v] = t
  <2>1. CASE UNCHANGED wtok
    BY <2>1
  <2>2. ASSUME NEW b \in Blocks, NEW u \in Users, wtok' = [wtok EXCEPT ![b][u] = None]
        PROVE  wtok'[c][v] = wtok[c][v]
    BY <2>2 DEF StoredAt, TypeInv, TypeOK, KeyStoreTypeOK
  <2>3. ASSUME NEW b \in Blocks, NEW u \in Users, NEW t \in Token, HeldBy(s, t.key),
               wtok' = [wtok EXCEPT ![b][u] = t]
        PROVE  wtok'[c][v] = wtok[c][v] \/ (HeldBy(s, t.key) /\ wtok'[c][v] = t)
    <3>1. wtok'[c][v] = wtok[c][v] \/ wtok'[c][v] = t
      BY <2>3 DEF TypeInv, TypeOK, KeyStoreTypeOK
    <3> QED
      BY <2>3, <3>1
  <2> QED
    BY <2>1, <2>2, <2>3 DEF StoresHeld
<1>2. CASE wtok'[c][v] = wtok[c][v]
  BY <1>2 DEF Stored, StoredAt
<1>3. ASSUME NEW t \in Token, HeldBy(s, t.key), wtok'[c][v] = t
      PROVE  HeldBy(s, k)
  <2>1. t.key = k
    BY <1>3 DEF StoredAt
  <2> QED
    BY <1>3, <2>1
<1> QED
  BY <1>1, <1>2, <1>3

\* ... and what going through the rights list does to the keys of a session.
LEMMA ForEachHolds ==
    ASSUME TypeInv, NEW s \in Sessions, NEW l \in {"save_rtoken", "del_rtoken"},
           \/ ForEach(s, rights[s], l)
           \/ rights[s] # <<>> /\ ForEach(s, Tail(rights[s]), l)
    PROVE  ~Pending(s)' /\ \A k : HeldBy(s, k)' => HeldBy(s, k)
<1>1. CASE Return(s)
  BY <1>1, ReturnHolds
<1>2. ASSUME ~Return(s), NEW list, ForEach(s, list, l)
      PROVE  /\ rights'[s] = list /\ bl'[s] = bl[s] /\ ~Pending(s)'
  <2>1. rights'[s] = list /\ bl'[s] = bl[s] /\ pc'[s] = l
    BY <1>2 DEF ForEach, Goto, TypeInv, TypeOK
  <2> QED
    BY <2>1 DEF Pending, Loading, Listing
<1>3. CASE ~Return(s) /\ ForEach(s, rights[s], l)
  BY <1>2, <1>3 DEF HeldBy
<1>4. CASE ~Return(s) /\ rights[s] # <<>> /\ ForEach(s, Tail(rights[s]), l)
  <2>1. /\ rights'[s] = Tail(rights[s]) /\ bl'[s] = bl[s] /\ ~Pending(s)'
    BY <1>2, <1>4
  <2>2. rights[s] \in Seq(Node)
    BY DEF TypeInv, TypeOK
  <2>3. /\ Len(rights[s]) \in Nat /\ Len(Tail(rights[s])) = Len(rights[s]) - 1
        /\ \A j \in 1..Len(Tail(rights[s])) : Tail(rights[s])[j] = rights[s][j + 1]
    BY <1>4, <2>2, HeadTailProperties
  <2>4. ASSUME NEW j \in 1..Len(rights'[s])
        PROVE  \E i \in 1..Len(rights[s]) : rights'[s][j] = rights[s][i]
    <3>1. j + 1 \in 1..Len(rights[s]) /\ rights'[s][j] = rights[s][j + 1]
      BY <2>1, <2>3
    <3> QED
      BY <3>1
  <2>5. ASSUME NEW k, HeldBy(s, k)'
        PROVE  HeldBy(s, k)
    <3>1. CASE bl'[s].wtoken # None /\ bl'[s].wtoken.key = k
      BY <2>1, <3>1 DEF HeldBy
    <3>2. ASSUME NEW j \in 1..Len(rights'[s]), rights'[s][j].wtoken # None,
                 rights'[s][j].wtoken.key = k
          PROVE  HeldBy(s, k)
      <4>1. PICK i \in 1..Len(rights[s]) : rights'[s][j] = rights[s][i]
        BY <2>4
      <4> QED
        BY <3>2, <4>1 DEF HeldBy
    <3> QED
      BY <2>5, <3>1, <3>2 DEF HeldBy
  <2> QED
    BY <2>1, <2>5
<1> QED
  BY <1>1, <1>3, <1>4

LEMMA StoringLearns ==
    ASSUME TypeInv, NEW s \in Sessions, Step(s),
           \/ SetBlockCall(s) \/ SaveOwnRtoken(s) \/ SaveOwnWtoken(s)
           \/ SaveNodeRtoken(s) \/ SaveNodeWtoken(s)
           \/ RemBlockCall(s) \/ DelOwnRtoken(s) \/ DelNodeRtoken(s) \/ DelNodeWtoken(s)
           \/ GrantRead(s) \/ GrantUpdate(s) \/ DenyWtoken(s) \/ DenyRtoken(s)
    PROVE  Learns(s)
<1>f. Frame(s)
  BY StepFrame DEF TypeInv
<1>u. UserOf[s] \in Users
  BY SessionsAssumption, RegisteredAssumption
<1>n. nextKey' = nextKey
  BY DEF SetBlockCall, SaveOwnRtoken, SaveOwnWtoken, SaveNodeRtoken, SaveNodeWtoken,
     RemBlockCall, DelOwnRtoken, DelNodeRtoken, DelNodeWtoken, GrantRead, GrantUpdate,
     DenyWtoken, DenyRtoken
<1>h. ~Pending(s)'
  <2>1. pc'[s] \in Written
    BY StoringLabels
  <2> QED
    BY <2>1 DEF Pending, Written, Loading, Listing, Sharing
<1>b. req[s].block \in Blocks /\ (pc[s] \in Sharing => req[s].for \in Users)
  BY DEF TypeInv, Shape, RequestShape, Sharing, SetBlockCall, SaveOwnRtoken, SaveOwnWtoken,
     SaveNodeRtoken, SaveNodeWtoken, RemBlockCall, DelOwnRtoken, DelNodeRtoken,
     DelNodeWtoken, GrantRead, GrantUpdate, DenyWtoken, DenyRtoken
<1>l. ASSUME pc[s] \in {"save_rtoken", "save_wtoken", "del_rtoken", "del_wtoken"}
      PROVE  /\ rights[s] # <<>> /\ Head(rights[s]) \in Node
             /\ 1 \in 1..Len(rights[s]) /\ Head(rights[s]) = rights[s][1]
             /\ pc[s] = "save_wtoken" =>
                   Head(rights[s]).wtoken \in Token /\ HeldBy(s, Head(rights[s]).wtoken.key)
  <2>1. /\ rights[s] # <<>> /\ rights[s] \in Seq(Node)
        /\ pc[s] = "save_wtoken" => Head(rights[s]).wtoken # None
    BY <1>l DEF TypeInv, TypeOK, Shape, ListShape
  <2>2. /\ Head(rights[s]) \in Node /\ 1 \in 1..Len(rights[s])
        /\ Head(rights[s]) = rights[s][1]
    BY <2>1, HeadTailProperties
  <2> QED
    BY <2>1, <2>2 DEF Node, MaybeToken, HeldBy
<1>g. ASSUME StoresHeld(s), ~Pending(s) \/ UNCHANGED wtok,
             \A k : HeldBy(s, k)' => HeldBy(s, k)
      PROVE  Learns(s)
  <2>1. \A k : Stored(k)' => Stored(k) \/ (HeldBy(s, k) /\ ~Pending(s))
    <3>1. CASE ~Pending(s)
      BY <1>g, <3>1, StoresHeldKeys
    <3>2. CASE UNCHANGED wtok
      BY <3>2 DEF Stored, StoredAt
    <3> QED
      BY <1>g, <3>1, <3>2
  <2> QED
    BY <1>f, <1>g, <1>h, <1>n, <2>1 DEF Learns
<1>p. pc[s] # "set_block" => ~Pending(s)
  BY DEF Pending, Loading, Listing, SetBlockCall, SaveOwnRtoken, SaveOwnWtoken,
     SaveNodeRtoken, SaveNodeWtoken, RemBlockCall, DelOwnRtoken, DelNodeRtoken,
     DelNodeWtoken, GrantRead, GrantUpdate, DenyWtoken, DenyRtoken
<1>1. CASE SetBlockCall(s)
  <2>1. UNCHANGED wtok
    BY <1>1 DEF SetBlockCall, ksVars
  <2>2. Return(s) \/ (UNCHANGED rights /\ bl' = [bl EXCEPT ![s].old_mac = None])
    BY <1>1 DEF SetBlockCall
  <2>3. \A k : HeldBy(s, k)' => HeldBy(s, k)
    <3>1. CASE Return(s)
      BY <3>1, ReturnHolds
    <3>2. CASE ~Return(s)
      <4>1. UNCHANGED rights /\ bl'[s].wtoken = bl[s].wtoken
        BY <2>2, <3>2 DEF TypeInv, TypeOK, BlockObject
      <4> QED
        BY <4>1 DEF HeldBy
    <3> QED
      BY <3>1, <3>2
  <2> QED
    BY <1>g, <2>1, <2>3 DEF StoresHeld
<1>2. CASE SaveOwnRtoken(s)
  <2>1. pc[s] = "own_rtoken" /\ UNCHANGED wtok
    BY <1>2 DEF SaveOwnRtoken, RtokenSaved, RtokenRefused, SetRtoken, ksVars
  <2>2. Return(s) \/ UNCHANGED <<bl, rights>>
    BY <1>2 DEF SaveOwnRtoken, RtokenRefused
  <2>3. \A k : HeldBy(s, k)' => HeldBy(s, k)
    BY <2>2, ReturnHolds DEF HeldBy
  <2> QED
    BY <1>g, <2>1, <2>3 DEF StoresHeld
<1>3. CASE SaveOwnWtoken(s)
  <2>1. pc[s] = "own_wtoken" /\ bl[s].wtoken \in Token
    BY <1>3 DEF SaveOwnWtoken, TypeInv, Shape, BlockShape, Writing
  <2>2. HeldBy(s, bl[s].wtoken.key)
    BY <2>1, NoneLemma DEF HeldBy
  <2>3. StoresHeld(s)
    BY <1>b, <1>u, <1>3, <2>1, <2>2 DEF SaveOwnWtoken, WtokenSaved, WtokenRefused, SetWtoken,
       StoresHeld, ksVars
  <2>4. Return(s) \/ ForEach(s, rights[s], "save_rtoken")
    BY <1>3 DEF SaveOwnWtoken, WtokenRefused
  <2> QED
    BY <1>g, <1>p, <2>1, <2>3, <2>4, ReturnHolds, ForEachHolds
<1>4. CASE SaveNodeRtoken(s)
  <2>1. pc[s] = "save_rtoken" /\ UNCHANGED wtok
    BY <1>4 DEF SaveNodeRtoken, RtokenSaved, RtokenRefused, SetRtoken, ksVars
  <2>2. Return(s) \/ UNCHANGED <<bl, rights>> \/ ForEach(s, Tail(rights[s]), "save_rtoken")
    BY <1>4 DEF SaveNodeRtoken, RtokenRefused
  <2>3. UNCHANGED <<bl, rights>> => \A k : HeldBy(s, k)' => HeldBy(s, k)
    BY DEF HeldBy
  <2>4. StoresHeld(s)
    BY <2>1 DEF StoresHeld
  <2> QED
    BY <1>g, <1>l, <2>1, <2>2, <2>3, <2>4, ReturnHolds, ForEachHolds
<1>5. CASE SaveNodeWtoken(s)
  <2>1. pc[s] = "save_wtoken"
    BY <1>5 DEF SaveNodeWtoken
  <2>2. Head(rights[s]).user \in Users
    BY <1>l, <2>1 DEF Node
  <2>3. StoresHeld(s)
    BY <1>b, <1>l, <1>5, <2>1, <2>2 DEF SaveNodeWtoken, WtokenSaved, WtokenRefused, SetWtoken,
       StoresHeld, ksVars
  <2>4. Return(s) \/ ForEach(s, Tail(rights[s]), "save_rtoken")
    BY <1>5 DEF SaveNodeWtoken, WtokenRefused
  <2> QED
    BY <1>g, <1>l, <1>p, <2>1, <2>3, <2>4, ReturnHolds, ForEachHolds
<1>6. CASE RemBlockCall(s)
  <2>1. UNCHANGED wtok
    BY <1>6 DEF RemBlockCall, ksVars
  <2>2. Return(s) \/ UNCHANGED <<bl, rights>>
    BY <1>6 DEF RemBlockCall
  <2>3. \A k : HeldBy(s, k)' => HeldBy(s, k)
    BY <2>2, ReturnHolds DEF HeldBy
  <2> QED
    BY <1>g, <2>1, <2>3 DEF StoresHeld
<1>7. CASE DelOwnRtoken(s) \/ DelNodeRtoken(s) \/ DelNodeWtoken(s)
  <2>1. pc[s] \in {"del_own", "del_rtoken", "del_wtoken"}
    BY <1>7 DEF DelOwnRtoken, DelNodeRtoken, DelNodeWtoken
  <2>2. pc[s] \in {"del_rtoken", "del_wtoken"} => Head(rights[s]).user \in Users
    BY <1>l DEF Node
  <2>3. StoresHeld(s)
    BY <1>b, <1>u, <1>7, <2>2 DEF DelOwnRtoken, DelNodeRtoken, DelNodeWtoken, DelRtoken,
       DelWtoken, StoresHeld, ksVars
  <2>4. \/ Return(s) \/ UNCHANGED <<bl, rights>> \/ ForEach(s, rights[s], "del_rtoken")
        \/ rights[s] # <<>> /\ ForEach(s, Tail(rights[s]), "del_rtoken")
    BY <1>l, <1>7 DEF DelOwnRtoken, DelNodeRtoken, DelNodeWtoken
  <2>5. UNCHANGED <<bl, rights>> => \A k : HeldBy(s, k)' => HeldBy(s, k)
    BY DEF HeldBy
  <2> QED
    BY <1>g, <1>p, <2>1, <2>3, <2>4, <2>5, ReturnHolds, ForEachHolds
<1>8. CASE GrantRead(s) \/ GrantUpdate(s) \/ DenyWtoken(s) \/ DenyRtoken(s)
  <2>1. pc[s] \in Sharing
    BY <1>8 DEF GrantRead, GrantUpdate, DenyWtoken, DenyRtoken, Sharing
  <2>2. StoresHeld(s)
    <3>1. CASE GrantRead(s)
      BY <3>1 DEF GrantRead, SetRtoken, StoresHeld, ksVars
    <3>2. CASE GrantUpdate(s)
      <4> DEFINE t == TokenForUser(bl[s].wtoken, UserOf[s], req[s].for)
      <4>1. UNCHANGED wtok \/ (bl[s].wtoken # None /\ SetWtoken(req[s].block, req[s].for, t))
        BY <3>2 DEF GrantUpdate, ksVars
      <4>2. ASSUME bl[s].wtoken # None PROVE t \in Token /\ HeldBy(s, t.key)
        <5>1. bl[s].wtoken \in Token
          BY <4>2 DEF TypeInv, TypeOK, BlockObject, MaybeToken
        <5>2. t \in Token
          BY <1>b, <1>u, <2>1, <5>1, TokenTypes
        <5>3. t.key = bl[s].wtoken.key
          BY DEF TokenForUser
        <5> QED
          BY <4>2, <5>2, <5>3 DEF HeldBy
      <4> HIDE DEF t
      <4> QED
        BY <1>b, <2>1, <4>1, <4>2 DEF SetWtoken, StoresHeld
    <3>3. CASE DenyWtoken(s) \/ DenyRtoken(s)
      BY <1>b, <2>1, <3>3 DEF DenyWtoken, DenyRtoken, DelRtoken, DelWtoken, StoresHeld, ksVars
    <3> QED
      BY <1>8, <3>1, <3>2, <3>3
  <2>3. Return(s) \/ UNCHANGED <<bl, rights>>
    BY <1>8 DEF GrantRead, GrantUpdate, DenyWtoken, DenyRtoken
  <2>4. \A k : HeldBy(s, k)' => HeldBy(s, k)
    BY <2>3, ReturnHolds DEF HeldBy
  <2>5. pc[s] # "set_block"
    BY <2>1 DEF Sharing
  <2> QED
    BY <1>g, <1>p, <2>2, <2>4, <2>5
<1> QED
  BY <1>1, <1>2, <1>3, <1>4, <1>5, <1>6, <1>7, <1>8

LEMMA NextKeys == TypeInv /\ ContentsInv /\ KeysInv /\ [Next]_vars => KeysInv'
<1>1. ASSUME KeysInv, UNCHANGED <<pc, req, bl, rights, wtok, nextKey>>
      PROVE  KeysInv'
  <2>1. /\ \A k : Stored(k)' <=> Stored(k)
        /\ \A s \in Sessions : (Pending(s)' <=> Pending(s)) /\ \A k : HeldBy(s, k)' <=> HeldBy(s, k)
    BY <1>1 DEF Stored, StoredAt, Pending, HeldBy
  <2>2. KeysDrawn'
    BY <1>1, <2>1 DEF KeysInv, KeysDrawn
  <2>3. ASSUME NEW r \in Sessions PROVE PendingFresh(r)'
    <3>1. PendingFresh(r) /\ req' = req /\ nextKey' = nextKey
      BY <1>1 DEF KeysInv
    <3>k. PICK k : k = req[r].key + 1
      OBVIOUS
    <3> QED
      BY <2>1, <3>1, <3>k DEF PendingFresh
  <2> QED
    BY <2>2, <2>3 DEF KeysInv
<1>2. ASSUME TypeInv, ContentsInv, KeysInv, NEW s \in Sessions, Step(s)
      PROVE  KeysInv'
  <2>1. Learns(s)
    BY <1>2, LoadLearns, RotateLearns, ListLearns, StoringLearns DEF Step
  <2> QED
    BY <1>2, <2>1, LearnsKeys
<1>3. ASSUME TypeInv, KeysInv, NEW s \in Sessions, Restart(s)
      PROVE  KeysInv'
  <2>1. Return(s) /\ UNCHANGED <<wtok, nextKey>>
    BY <1>3 DEF Restart, ksVars
  <2>2. Frame(s)
    BY <1>3, <2>1 DEF Return, Frame, TypeInv, TypeOK
  <2>3. \A k : Stored(k)' => Stored(k)
    BY <2>1 DEF Stored, StoredAt
  <2> QED
    BY <1>3, <2>1, <2>2, <2>3, ReturnLearns, LearnsKeys
<1>4. ASSUME KeysInv, NEW s \in Sessions, KeyStoreDown(s)
      PROVE  KeysInv'
  BY <1>1, <1>4 DEF KeyStoreDown, ksVars
<1>5. ASSUME KeysInv, UNCHANGED vars
      PROVE  KeysInv'
  BY <1>1, <1>5 DEF vars
<1> QED
  BY <1>2, <1>3, <1>4, <1>5, CallKeys DEF Next

-----------------------------------------------------------------------------
\* GenerationInv is an invariant.

LEMMA InitGeneration == Init => GenerationInv
  BY DEF Init, DataStoreInit, GenerationInv, SameGeneration, PairInv

\* Nothing changes for the others while the data store does not.
LEMMA SameStore ==
    ASSUME TypeInv, GenerationInv, NEW s \in Sessions, Frame(s), UNCHANGED <<ds, reborn>>,
           PairInv(s)'
    PROVE  GenerationInv'
<1>1. SameGeneration'
  BY DEF GenerationInv, SameGeneration
<1>2. ASSUME NEW r \in Sessions, r # s
      PROVE  PairInv(r)'
  <2>1. pc'[r] = pc[r] /\ req'[r] = req[r] /\ bl'[r] = bl[r]
    BY <1>2 DEF Frame
  <2> QED
    BY <2>1 DEF GenerationInv, PairInv
<1> QED
  BY <1>1, <1>2 DEF GenerationInv

\* Only a session about to update or to write has a pair to match.
LEMMA NoPair ==
    ASSUME NEW s \in Sessions, pc'[s] \notin {"update", "set_block"}
    PROVE  PairInv(s)'
  BY DEF PairInv

LEMMA CallGeneration ==
    ASSUME TypeInv, GenerationInv, NEW s \in Sessions, Call(s)
    PROVE  GenerationInv'
<1>f. Frame(s)
  BY CallFrame DEF TypeInv
<1>d. UNCHANGED <<ds, reborn>>
  BY DEF Call, CreateBlock, Load, ReadBlock, UpdateBlock, DeleteBlock, RotateBlock,
     GrantReadAccess, GrantUpdateAccess, DenyReadAccess, DenyUpdateAccess, historyVars
<1>1. CASE CreateBlock(s)
  <2>1. /\ req'[s].op = "create" /\ req'[s].key = nextKey
        /\ bl'[s].rtoken = TokenGenerate(nextKey, UserOf[s])
        /\ bl'[s].wtoken = TokenGenerate(nextKey + 1, UserOf[s])
    BY <1>1 DEF CreateBlock, NewBlock, TypeInv, TypeOK
  <2>2. PairInv(s)'
    BY <2>1 DEF PairInv, TokenGenerate
  <2> QED
    BY <1>f, <1>d, <2>2, SameStore
<1>2. CASE ~CreateBlock(s)
  <2>1. pc'[s] = "get_rtoken"
    BY <1>2 DEF Call, Load, Goto, ReadBlock, UpdateBlock, DeleteBlock, RotateBlock,
       GrantReadAccess, GrantUpdateAccess, DenyReadAccess, DenyUpdateAccess, TypeInv, TypeOK
  <2> QED
    BY <1>f, <1>d, <2>1, NoPair, SameStore
<1> QED
  BY <1>1, <1>2

LEMMA LoadGeneration ==
    ASSUME TypeInv, GenerationInv, NEW s \in Sessions, Step(s),
           LoadRtoken(s) \/ LoadWtoken(s) \/ GetBlock(s) \/ Update(s) \/ Rotate(s)
    PROVE  GenerationInv'
<1>f. Frame(s)
  BY StepFrame DEF TypeInv
<1>d. UNCHANGED <<ds, reborn>>
  BY DEF LoadRtoken, LoadWtoken, GetBlock, Update, Rotate, historyVars
<1>r. CASE Return(s)
  <2>1. pc'[s] = "idle"
    BY <1>r DEF Return, TypeInv, TypeOK
  <2> QED
    BY <1>f, <1>d, <2>1, NoPair, SameStore
<1>1. CASE ~Return(s) /\ (LoadRtoken(s) \/ LoadWtoken(s))
  <2>1. pc'[s] \in {"get_wtoken", "get_block"}
    BY <1>1 DEF LoadRtoken, LoadWtoken, Goto, TypeInv, TypeOK
  <2> QED
    BY <1>f, <1>d, <2>1, NoPair, SameStore
\* The read token opens the block that is there now: its write key matches
\* unless the token is of another generation.
<1>2. CASE ~Return(s) /\ GetBlock(s)
  <2> DEFINE b == req[s].block
  <2>1. /\ pc[s] = "get_block" /\ InitAccepts(bl[s], b, UserOf[s]) /\ req' = req
        /\ bl' = [bl EXCEPT ![s].data = ds[b].data, ![s].seen = ds[b].data]
        /\ pc' = [pc EXCEPT ![s] = AfterLoad[req[s].op]]
        /\ req[s].op # "read"
    BY <1>2 DEF GetBlock, Goto
  <2>2. b \in Blocks /\ req[s].op \in ApiCalls \ {"create", "read"}
    BY <2>1 DEF TypeInv, Shape, RequestShape, Loading
  <2>3. pc'[s] # "set_block"
    <3>1. AfterLoad[req[s].op] # "set_block"
      BY <2>2 DEF AfterLoad, ApiCalls
    <3> QED
      BY <2>1, <3>1 DEF TypeInv, TypeOK
  <2>4. bl'[s].rtoken = bl[s].rtoken /\ bl'[s].wtoken = bl[s].wtoken
    BY <2>1 DEF TypeInv, TypeOK, BlockObject
  <2>5. ds[b] # None /\ bl[s].rtoken.key = ds[b].key
    BY <2>1 DEF InitAccepts, Decrypts
  <2>6. reborn[b] \/ ds[b].mac.key = bl[s].rtoken.key + 1
    BY <2>2, <2>5 DEF GenerationInv, SameGeneration
  <2>7. PairInv(s)'
    BY <1>d, <2>1, <2>3, <2>4, <2>6 DEF PairInv
  <2> QED
    BY <1>f, <1>d, <2>7, SameStore
<1>3. CASE ~Return(s) /\ Update(s)
  <2>1. /\ pc[s] = "update" /\ UNCHANGED req
        /\ bl' = [bl EXCEPT ![s].data = req[s].data, ![s].old_mac = MacOf(bl[s])]
    BY <1>3 DEF Update
  <2>2. /\ req'[s] = req[s] /\ bl'[s].rtoken = bl[s].rtoken /\ bl'[s].wtoken = bl[s].wtoken
        /\ req[s].op = "update"
    BY <2>1 DEF TypeInv, TypeOK, BlockObject, Shape, RequestShape
  <2>3. PairInv(s)'
    BY <1>d, <2>1, <2>2 DEF GenerationInv, PairInv
  <2> QED
    BY <1>f, <1>d, <2>3, SameStore
<1>4. CASE ~Return(s) /\ Rotate(s)
  <2>1. /\ pc[s] = "rotate" /\ req'[s] = req[s] /\ pc'[s] = "set_block"
        /\ bl'[s].rtoken = TokenGenerate(req[s].key, UserOf[s])
        /\ bl'[s].wtoken = TokenGenerate(req[s].key + 1, UserOf[s])
    BY <1>4 DEF Rotate, Goto, TypeInv, TypeOK, BlockObject
  <2> QED
    BY <1>f, <1>d, <2>1, SameStore DEF PairInv, TokenGenerate
<1> QED
  BY <1>r, <1>1, <1>2, <1>3, <1>4

LEMMA ListGeneration ==
    ASSUME TypeInv, GenerationInv, NEW s \in Sessions, Step(s),
           Iterate(s) \/ NodeRtoken(s) \/ NodeWtoken(s) \/ IteratorNext(s)
    PROVE  GenerationInv'
<1>1. Frame(s)
  BY StepFrame DEF TypeInv
<1>2. UNCHANGED <<ds, reborn>>
  BY DEF Iterate, NodeRtoken, NodeWtoken, IteratorNext, historyVars
<1>3. pc'[s] \notin {"update", "set_block"}
  <2>1. CASE Iterate(s)
    BY <2>1 DEF Iterate, Visit, Goto, Return, TypeInv, TypeOK
  <2>2. CASE NodeRtoken(s) \/ NodeWtoken(s)
    BY <2>2 DEF NodeRtoken, NodeWtoken, Goto, Return, TypeInv, TypeOK
  <2>3. CASE IteratorNext(s)
    BY <2>3 DEF IteratorNext, Visit, Goto, TypeInv, TypeOK
  <2> QED
    BY <2>1, <2>2, <2>3
<1> QED
  BY <1>1, <1>2, <1>3, NoPair, SameStore

\* The write of a block: the MAC comparison lets an update through only under
\* the write key the block is stored with, and a new pair is nobody else's.
LEMMA WriteGeneration ==
    ASSUME TypeInv, ContentsInv, KeysInv, GenerationInv, NEW s \in Sessions, Step(s),
           SetBlockCall(s), ~Return(s)
    PROVE  GenerationInv'
<1> DEFINE b == req[s].block
           o == bl[s]
<1>f. Frame(s)
  BY StepFrame DEF TypeInv
<1>1. /\ pc[s] = "set_block" /\ SetBlockAllowed(b, o.old_mac)
      /\ ds' = [ds EXCEPT ![b] = Sealed(o)]
      /\ reborn' = [reborn EXCEPT ![b] = req[s].op = "update" /\ (@ \/ ds[b] = None)]
      /\ pc' = [pc EXCEPT ![s] = "own_rtoken"]
  BY DEF SetBlockCall, SetBlock, Goto
<1>2. /\ b \in Blocks /\ req[s].op \in {"create", "update", "rotate"}
      /\ o.wtoken \in Token /\ o.wtoken # None
  BY <1>1, NoneLemma DEF TypeInv, Shape, RequestShape, BlockShape, Writing,
     ContentsInv, ContentsKept
<1>3. /\ ds'[b].key = o.rtoken.key /\ ds'[b].mac.key = o.wtoken.key
      /\ reborn'[b] <=> req[s].op = "update" /\ (reborn[b] \/ ds[b] = None)
      /\ \A c \in Blocks \ {b} : ds'[c] = ds[c] /\ reborn'[c] = reborn[c]
  BY <1>1, <1>2 DEF Sealed, MacOf, TypeInv, TypeOK, DataStoreTypeOK
\* An update that finds a block leaves its write key as it is.
<1>4. ASSUME req[s].op = "update", ds[b] # None
      PROVE  ds[b].mac.key = o.wtoken.key
  <2>1. o.old_mac = ds[b].mac
    BY <1>1, <1>4 DEF SetBlockAllowed
  <2>2. ds[b].mac # None
    BY <1>2, <1>4, NoneAssumption DEF TypeInv, TypeOK, DataStoreTypeOK, StoredBlock
  <2>3. o.old_mac.key = o.wtoken.key
    BY <1>1, <1>4, <2>1, <2>2 DEF ContentsInv, ContentsKept
  <2> QED
    BY <2>1, <2>3
\* A create or rotate writes under a key that no other session holds.
<1>5. ASSUME req[s].op # "update"
      PROVE  /\ o.wtoken.key = o.rtoken.key + 1
             /\ \A r \in Sessions \ {s} : bl[r].wtoken # None => bl[r].wtoken.key # o.wtoken.key
  <2>1. o.rtoken.key = req[s].key /\ o.wtoken.key = req[s].key + 1
    BY <1>1, <1>2, <1>5 DEF GenerationInv, PairInv
  <2>2. Pending(s)
    BY <1>1, <1>2, <1>5 DEF Pending
  <2>3. \A r \in Sessions \ {s} : ~HeldBy(r, req[s].key + 1)
    BY <2>2 DEF KeysInv, PendingFresh
  <2> QED
    BY <2>1, <2>3 DEF HeldBy
<1>6. ~reborn'[b] => o.wtoken.key = o.rtoken.key + 1
  <2>1. CASE req[s].op = "update"
    BY <1>1, <1>2, <1>3, <1>4, <2>1 DEF GenerationInv, PairInv
  <2>2. CASE req[s].op # "update"
    BY <1>5, <2>2
  <2> QED
    BY <2>1, <2>2
<1>7. SameGeneration'
  <2> SUFFICES ASSUME NEW c \in Blocks, ds'[c] # None, ~reborn'[c]
               PROVE  ds'[c].mac.key = ds'[c].key + 1
    BY DEF SameGeneration
  <2>1. CASE c = b
    BY <1>3, <1>6, <2>1
  <2>2. CASE c # b
    BY <1>3, <2>2 DEF GenerationInv, SameGeneration
  <2> QED
    BY <2>1, <2>2
<1>8. ASSUME NEW r \in Sessions, r # s
      PROVE  PairInv(r)'
  <2>1. pc'[r] = pc[r] /\ req'[r] = req[r] /\ bl'[r] = bl[r]
    BY <1>f, <1>8 DEF Frame
  <2>2. ASSUME pc[r] \in {"update", "set_block"}, req[r].op = "update", bl[r].wtoken # None,
               bl[r].wtoken.key # bl[r].rtoken.key + 1,
               ~reborn'[req[r].block], ds'[req[r].block] # None
        PROVE  ds'[req[r].block].mac.key # bl[r].wtoken.key
    <3>0. req[r].block \in Blocks
      BY <2>2 DEF TypeInv, Shape, RequestShape
    <3>1. ds[req[r].block] = None \/ reborn[req[r].block]
             \/ ds[req[r].block].mac.key # bl[r].wtoken.key
      BY <2>2 DEF GenerationInv, PairInv
    <3>2. CASE req[r].block # b
      BY <1>3, <2>2, <3>0, <3>1, <3>2
    <3>3. CASE req[r].block = b /\ req[s].op = "update"
      BY <1>3, <1>4, <2>2, <3>1, <3>3
    <3>4. CASE req[r].block = b /\ req[s].op # "update"
      BY <1>3, <1>5, <1>8, <2>2, <3>4
    <3> QED
      BY <3>2, <3>3, <3>4
  <2> QED
    BY <2>1, <2>2 DEF PairInv, GenerationInv
<1>9. PairInv(s)'
  <2>1. pc'[s] = "own_rtoken"
    BY <1>1 DEF TypeInv, TypeOK
  <2> QED
    BY <2>1, NoPair
<1> QED
  BY <1>7, <1>8, <1>9 DEF GenerationInv

LEMMA StoringGeneration ==
    ASSUME TypeInv, ContentsInv, KeysInv, GenerationInv, NEW s \in Sessions, Step(s),
           \/ SetBlockCall(s) \/ SaveOwnRtoken(s) \/ SaveOwnWtoken(s)
           \/ SaveNodeRtoken(s) \/ SaveNodeWtoken(s)
           \/ RemBlockCall(s) \/ DelOwnRtoken(s) \/ DelNodeRtoken(s) \/ DelNodeWtoken(s)
           \/ GrantRead(s) \/ GrantUpdate(s) \/ DenyWtoken(s) \/ DenyRtoken(s)
    PROVE  GenerationInv'
<1>f. Frame(s)
  BY StepFrame DEF TypeInv
<1>l. PairInv(s)'
  <2>1. pc'[s] \in Written
    BY StoringLabels
  <2> QED
    BY <2>1, NoPair DEF Written, Sharing
<1>1. CASE UNCHANGED <<ds, reborn>>
  BY <1>f, <1>l, <1>1, SameStore
<1>2. CASE SetBlockCall(s)
  <2>1. CASE Return(s)
    <3>1. bl'[s] = NoBlock /\ pc'[s] = "idle"
      BY <2>1 DEF Return, TypeInv, TypeOK
    <3>2. UNCHANGED <<ds, reborn>>
      BY <1>2, <3>1 DEF SetBlockCall, Goto, historyVars, TypeInv, TypeOK
    <3> QED
      BY <1>1, <3>2
  <2> QED
    BY <1>2, <2>1, WriteGeneration
<1>3. CASE RemBlockCall(s)
  <2>1. UNCHANGED reborn /\ (ds' = ds \/ ds' = [ds EXCEPT ![req[s].block] = None])
    BY <1>3 DEF RemBlockCall, RemBlock, historyVars
  <2>2. \A c \in Blocks : ds'[c] = None \/ ds'[c] = ds[c]
    BY <2>1 DEF TypeInv, TypeOK, DataStoreTypeOK
  <2>3. SameGeneration'
    BY <2>1, <2>2 DEF GenerationInv, SameGeneration
  <2>4. ASSUME NEW r \in Sessions, r # s
        PROVE  PairInv(r)'
    <3>1. pc'[r] = pc[r] /\ req'[r] = req[r] /\ bl'[r] = bl[r]
      BY <1>f, <2>4 DEF Frame
    <3>2. pc[r] \in {"update", "set_block"} => req[r].block \in Blocks
      BY DEF TypeInv, Shape, RequestShape
    <3> QED
      BY <2>1, <2>2, <3>1, <3>2 DEF GenerationInv, PairInv
  <2> QED
    BY <1>l, <2>3, <2>4 DEF GenerationInv
<1> QED
  BY <1>1, <1>2, <1>3, WhoWrites

LEMMA NextGeneration ==
    TypeInv /\ ContentsInv /\ KeysInv /\ GenerationInv /\ [Next]_vars => GenerationInv'
<1>1. ASSUME GenerationInv, UNCHANGED <<pc, req, bl, ds, reborn>>
      PROVE  GenerationInv'
  BY <1>1 DEF GenerationInv, SameGeneration, PairInv
<1>2. ASSUME TypeInv, ContentsInv, KeysInv, GenerationInv, NEW s \in Sessions, Step(s)
      PROVE  GenerationInv'
  BY <1>2, LoadGeneration, ListGeneration, StoringGeneration DEF Step
<1>3. ASSUME TypeInv, GenerationInv, NEW s \in Sessions, Restart(s)
      PROVE  GenerationInv'
  <2>1. Return(s) /\ UNCHANGED <<ds, reborn>>
    BY <1>3 DEF Restart, historyVars
  <2>2. Frame(s) /\ pc'[s] = "idle"
    BY <1>3, <2>1 DEF Return, Frame, TypeInv, TypeOK
  <2> QED
    BY <1>3, <2>1, <2>2, NoPair, SameStore
<1>4. ASSUME GenerationInv, NEW s \in Sessions, KeyStoreDown(s)
      PROVE  GenerationInv'
  BY <1>1, <1>4 DEF KeyStoreDown, historyVars
<1>5. ASSUME GenerationInv, UNCHANGED vars
      PROVE  GenerationInv'
  BY <1>1, <1>5 DEF vars
<1> QED
  BY <1>2, <1>3, <1>4, <1>5, CallGeneration DEF Next

\* The keys a block is stored under were drawn together: the MAC check of
\* db_set_block, with tokens saved only after the block, keeps clients that
\* hold tokens of two rotations from mixing them, however many rotate, update
\* and fail at the same time.
THEOREM GenerationsNotMixed == Spec => []SameGeneration
<1> DEFINE Inv == TypeInv /\ ContentsInv /\ KeysInv /\ GenerationInv
<1>1. Init => Inv
  BY InitType, InitContents, InitKeys, InitGeneration
<1>2. Inv /\ [Next]_vars => Inv'
  BY NextType, NextContents, NextKeys, NextGeneration
<1>3. Inv => SameGeneration
  BY DEF GenerationInv
<1> HIDE DEF Inv
<1> QED
  BY <1>1, <1>2, <1>3, PTL DEF Spec
=============================================================================
