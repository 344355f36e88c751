-------------------------- MODULE MidHermesProofs --------------------------
(***************************************************************************)
(* Proofs about MidHermes for any number of users, sessions, blocks and    *)
(* keys, any workload and any faults.                                      *)
(***************************************************************************)
EXTENDS MidHermes, SequenceTheorems, TLAPS

-----------------------------------------------------------------------------
\* The inductive invariant, part 1: what a session holds at each label.

Loading == {"get_rtoken", "get_wtoken", "get_block"}
Listing == {"node_rtoken", "node_wtoken", "next"}
Writing == {"rotate", "set_block", "own_rtoken", "own_wtoken", "save_rtoken",
            "save_wtoken"}
Removing == {"rem_block", "del_own", "del_rtoken", "del_wtoken"}
Sharing == {"grant_read", "grant_update", "deny_wtoken", "deny_rtoken"}

\* The arguments of the call in progress.
RequestShape(s) ==
    /\ pc[s] \notin {"idle", "aborted"} =>
          req[s].block \in Blocks /\ req[s].op \in ApiCalls
    /\ pc[s] \in Loading => req[s].op # "create"
    /\ pc[s] = "update" => req[s].op = "update"
    /\ pc[s] \in Listing \cup {"iterate"} => req[s].op \in {"rotate", "delete"}
    /\ pc[s] \in Sharing =>
          req[s].op \in {"grant_read", "grant_update", "deny_read", "deny_update"}
    /\ req[s].op = "update" => req[s].data \in Contents
    /\ req[s].op \in {"grant_read", "grant_update", "deny_read", "deny_update"} =>
          req[s].for \in Users

\* The block object.
BlockShape(s) ==
    /\ pc[s] \notin {"idle", "aborted", "get_rtoken", "get_wtoken"} =>
          bl[s].rtoken \in Token
    /\ pc[s] \in Listing \cup Writing \cup Removing => bl[s].wtoken \in Token
    /\ pc[s] \notin {"idle", "aborted"} \cup Loading => bl[s].data \in Contents

\* The iterator and the rights list.
ListShape(s) ==
    /\ pc[s] \in Listing => it[s].user \in Users
    /\ pc[s] \in {"save_rtoken", "save_wtoken", "del_rtoken", "del_wtoken"} =>
          rights[s] # <<>>
    /\ pc[s] \in {"save_wtoken", "del_wtoken"} => Head(rights[s]).wtoken # None
    /\ \A j \in 1..Len(rights[s]) : rights[s][j].rtoken # None

Shape == \A s \in Sessions : RequestShape(s) /\ BlockShape(s) /\ ListShape(s)

TypeInv == TypeOK /\ Shape

LEMMA NoneLemma ==
    /\ None \notin Token
    /\ None \notin Contents
    /\ None \notin Users
  BY NoneAssumption

LEMMA TokenTypes ==
    /\ \A k \in Nat, u \in Users : TokenGenerate(k, u) \in Token
    /\ \A t \in Token, u, v \in Users : TokenForUser(t, u, v) \in Token
  BY DEF TokenGenerate, TokenForUser, Token

\* Rotation keeps the length of the rights list, and every user of it has a
\* read token afterwards.
LEMMA RewrapType ==
    ASSUME NEW list \in Seq(Node), NEW k \in Nat, NEW u \in Users
    PROVE  /\ Rewrap(list, k, u) \in Seq(Node)
           /\ Len(Rewrap(list, k, u)) = Len(list)
           /\ \A j \in 1..Len(list) : 
                 /\ Rewrap(list, k, u)[j].user = list[j].user
                 /\ Rewrap(list, k, u)[j].rtoken \in Token
<1> DEFINE F(j) == [list[j] EXCEPT
                     !.rtoken = TokenForUser(TokenGenerate(k, u), u, list[j].user),
                     !.wtoken = IF list[j].wtoken = None THEN None
                                ELSE TokenForUser(TokenGenerate(k + 1, u), u, list[j].user)]
<1>1. ASSUME NEW j \in 1..Len(list)
      PROVE  /\ F(j) \in Node
             /\ F(j).user = list[j].user
             /\ F(j).rtoken \in Token
  <2>1. list[j] \in Node
    OBVIOUS
  <2>2. /\ TokenForUser(TokenGenerate(k, u), u, list[j].user) \in Token
        /\ TokenForUser(TokenGenerate(k + 1, u), u, list[j].user) \in Token
    BY <2>1, TokenTypes DEF Node
  <2> QED
    BY <2>1, <2>2 DEF Node, MaybeToken
<1>2. Rewrap(list, k, u) = [j \in 1..Len(list) |-> F(j)]
  BY DEF Rewrap
<1> HIDE DEF F
<1>3. Rewrap(list, k, u) \in [1..Len(list) -> Node]
  BY <1>1, <1>2
<1>4. Len(list) \in Nat
  OBVIOUS
<1>5. Rewrap(list, k, u) \in Seq(Node) /\ Len(Rewrap(list, k, u)) = Len(list)
  BY <1>3, <1>4
<1> QED
  BY <1>1, <1>2, <1>5

LEMMA InitType == Init => TypeInv
<1> SUFFICES ASSUME Init PROVE TypeInv
  OBVIOUS
<1>1. TypeOK
  <2>1. NoRequest \in Request
    BY DEF NoRequest, Request
  <2>2. NoBlock \in BlockObject
    BY DEF NoBlock, BlockObject, MaybeToken, MaybeMac
  <2>3. NoIterator \in Iterator
    BY DEF NoIterator, Iterator, MaybeToken
  <2>4. KeyStoreTypeOK /\ DataStoreTypeOK
    BY DEF Init, KeyStoreInit, DataStoreInit, KeyStoreTypeOK, DataStoreTypeOK, MaybeToken
  <2> QED
    BY <2>1, <2>2, <2>3, <2>4 DEF Init, TypeOK, Labels
<1>2. Shape
  BY SessionsAssumption DEF Init, Shape, RequestShape, BlockShape, ListShape, NoRequest,
     ApiCalls, Loading, Listing, Writing, Removing, Sharing
<1> QED
  BY <1>1, <1>2 DEF TypeInv

\* The typing of the session variables, and of the others.
SessionType ==
    /\ pc \in [Sessions -> Labels]
    /\ req \in [Sessions -> Request]
    /\ bl \in [Sessions -> BlockObject]
    /\ rights \in [Sessions -> Seq(Node)]
    /\ it \in [Sessions -> Iterator]
OtherType ==
    /\ ksUp \in [Sessions -> BOOLEAN]
    /\ nextKey \in Nat
    /\ readers \in [Blocks -> SUBSET Users]
    /\ writers \in [Blocks -> SUBSET Users]
    /\ reborn \in [Blocks -> BOOLEAN]

\* A call that returns leaves its session well formed.
LEMMA ReturnType ==
    ASSUME TypeInv, NEW s \in Sessions, Return(s)
    PROVE  SessionType' /\ Shape'
<1>1. SessionType'
  <2>1. NoRequest \in Request
    BY DEF NoRequest, Request
  <2>2. NoBlock \in BlockObject
    BY DEF NoBlock, BlockObject, MaybeToken, MaybeMac
  <2>3. NoIterator \in Iterator
    BY DEF NoIterator, Iterator, MaybeToken
  <2> QED
    BY <2>1, <2>2, <2>3 DEF TypeInv, TypeOK, SessionType, Return, Labels
<1>2. Shape'
  <2> SUFFICES ASSUME NEW r \in Sessions
               PROVE  RequestShape(r)' /\ BlockShape(r)' /\ ListShape(r)'
    BY DEF Shape
  <2>1. CASE r = s
    BY <2>1, SessionsAssumption DEF TypeInv, TypeOK, Return, RequestShape, BlockShape,
       ListShape, NoRequest, ApiCalls, Loading, Listing, Writing, Removing, Sharing
  <2>2. CASE r # s
    <3>1. /\ pc'[r] = pc[r] /\ req'[r] = req[r] /\ bl'[r] = bl[r]
          /\ rights'[r] = rights[r] /\ it'[r] = it[r]
      BY <2>2 DEF Return, TypeInv, TypeOK
    <3> QED
      BY <3>1 DEF TypeInv, Shape, RequestShape, BlockShape, ListShape
  <2> QED
    BY <2>1, <2>2
<1> QED
  BY <1>1, <1>2

\* The other sessions are not touched by a step of s.
Frame(s) ==
    \A r \in Sessions \ {s} :
        /\ pc'[r] = pc[r] /\ req'[r] = req[r] /\ bl'[r] = bl[r]
        /\ rights'[r] = rights[r] /\ it'[r] = it[r]

LEMMA FrameShape ==
    ASSUME TypeInv, NEW s \in Sessions, Frame(s),
           RequestShape(s)', BlockShape(s)', ListShape(s)'
    PROVE  Shape'
<1> SUFFICES ASSUME NEW r \in Sessions, r # s
             PROVE  RequestShape(r)' /\ BlockShape(r)' /\ ListShape(r)'
  BY DEF Shape
<1>1. /\ pc'[r] = pc[r] /\ req'[r] = req[r] /\ bl'[r] = bl[r]
      /\ rights'[r] = rights[r] /\ it'[r] = it[r]
  BY DEF Frame
<1> QED
  BY <1>1 DEF TypeInv, Shape, RequestShape, BlockShape, ListShape

\* What is left to show of a step of s, when its call goes on ...
LEMMA GoesOnType ==
    ASSUME TypeInv, NEW s \in Sessions, Frame(s),
           KeyStoreTypeOK', DataStoreTypeOK', SessionType', OtherType',
           RequestShape(s)', BlockShape(s)', ListShape(s)'
    PROVE  TypeInv'
<1>1. Shape'
  BY FrameShape
<1>2. TypeOK'
  BY DEF TypeOK, SessionType, OtherType
<1> QED
  BY <1>1, <1>2 DEF TypeInv

\* ... and when it returns.
LEMMA ReturnsType ==
    ASSUME TypeInv, NEW s \in Sessions, Return(s),
           KeyStoreTypeOK', DataStoreTypeOK', OtherType'
    PROVE  TypeInv'
<1>1. SessionType' /\ Shape'
  BY ReturnType
<1>2. TypeOK'
  BY <1>1 DEF TypeOK, SessionType, OtherType
<1> QED
  BY <1>1, <1>2 DEF TypeInv

LEMMA CallFrame ==
    ASSUME TypeOK, NEW s \in Sessions, Call(s)
    PROVE  Frame(s)
  BY DEF TypeOK, Call, Frame, Goto, Load, CreateBlock, ReadBlock, UpdateBlock, DeleteBlock,
     RotateBlock, GrantReadAccess, GrantUpdateAccess, DenyReadAccess, DenyUpdateAccess

LEMMA StepFrame ==
    ASSUME TypeOK, NEW s \in Sessions, Step(s)
    PROVE  Frame(s)
<1> USE DEF TypeOK, Frame, Goto, Return
<1>1. CASE LoadRtoken(s) \/ LoadWtoken(s) \/ GetBlock(s) \/ Update(s) \/ Rotate(s)
  BY <1>1 DEF LoadRtoken, LoadWtoken, GetBlock, Update, Rotate
<1>2. CASE Iterate(s) \/ NodeRtoken(s) \/ NodeWtoken(s) \/ IteratorNext(s)
  BY <1>2 DEF Iterate, NodeRtoken, NodeWtoken, IteratorNext, Visit
<1>3. CASE SetBlockCall(s) \/ SaveOwnRtoken(s) \/ SaveOwnWtoken(s)
  BY <1>3 DEF SetBlockCall, SaveOwnRtoken, SaveOwnWtoken, RtokenRefused, WtokenRefused,
     ForEach
<1>4. CASE SaveNodeRtoken(s) \/ SaveNodeWtoken(s)
  BY <1>4 DEF SaveNodeRtoken, SaveNodeWtoken, RtokenRefused, WtokenRefused, ForEach
<1>5. CASE RemBlockCall(s) \/ DelOwnRtoken(s) \/ DelNodeRtoken(s) \/ DelNodeWtoken(s)
  BY <1>5 DEF RemBlockCall, DelOwnRtoken, DelNodeRtoken, DelNodeWtoken, ForEach
<1>6. CASE GrantRead(s) \/ GrantUpdate(s) \/ DenyWtoken(s) \/ DenyRtoken(s)
  BY <1>6 DEF GrantRead, GrantUpdate, DenyWtoken, DenyRtoken
<1> QED
  BY <1>1, <1>2, <1>3, <1>4, <1>5, <1>6 DEF Step

\* Every change of the key store is one of its operations on proper arguments.
KeyStoreStep ==
    \/ UNCHANGED ksVars
    \/ \E b \in Blocks, u \in Users :
          \/ \E t \in Token : SetRtoken(b, u, t) \/ SetWtoken(b, u, t)
          \/ DelRtoken(b, u)
          \/ DelWtoken(b, u)

LEMMA KeyStoreStepType ==
    KeyStoreTypeOK /\ KeyStoreStep => KeyStoreTypeOK'
<1> SUFFICES ASSUME KeyStoreTypeOK, KeyStoreStep PROVE KeyStoreTypeOK'
  OBVIOUS
<1> USE DEF KeyStoreTypeOK, MaybeToken
<1>1. CASE UNCHANGED ksVars
  BY <1>1 DEF ksVars
<1>2. ASSUME NEW b \in Blocks, NEW u \in Users, NEW t \in Token,
             SetRtoken(b, u, t) \/ SetWtoken(b, u, t)
      PROVE  KeyStoreTypeOK'
  <2>1. CASE SetRtoken(b, u, t)
    BY <2>1 DEF SetRtoken
  <2>2. CASE SetWtoken(b, u, t)
    BY <2>2 DEF SetWtoken
  <2> QED
    BY <1>2, <2>1, <2>2
<1>3. ASSUME NEW b \in Blocks, NEW u \in Users, DelRtoken(b, u) \/ DelWtoken(b, u)
      PROVE  KeyStoreTypeOK'
  <2>1. CASE DelRtoken(b, u)
    <3>1. dirs[b] \ {u} \in SUBSET Users
      OBVIOUS
    <3> QED
      BY <2>1, <3>1 DEF DelRtoken
  <2>2. CASE DelWtoken(b, u)
    BY <2>2 DEF DelWtoken
  <2> QED
    BY <1>3, <2>1, <2>2
<1> QED
  BY <1>1, <1>2, <1>3 DEF KeyStoreStep

-----------------------------------------------------------------------------
\* Every action preserves TypeInv.

LEMMA CallType ==
    ASSUME TypeInv, NEW s \in Sessions, Call(s)
    PROVE  TypeInv'
<1>f. Frame(s)
  BY CallFrame DEF TypeInv
<1>1. CASE CreateBlock(s)
  <2>1. UserOf[s] \in Users
    BY SessionsAssumption, RegisteredAssumption
  <2>2. PICK b \in Blocks, c \in Contents :
            /\ req' = [req EXCEPT ![s] =
                     [op |-> "create", block |-> b, for |-> None, data |-> c,
                      key |-> nextKey]]
            /\ bl' = [bl EXCEPT ![s] =
                     [rtoken |-> TokenGenerate(nextKey, UserOf[s]),
                      wtoken |-> TokenGenerate(nextKey + 1, UserOf[s]),
                      data |-> c, old_mac |-> None, seen |-> None]]
    BY <1>1 DEF CreateBlock, NewBlock
  <2>3. /\ TokenGenerate(nextKey, UserOf[s]) \in Token
        /\ TokenGenerate(nextKey + 1, UserOf[s]) \in Token
    BY <2>1, TokenTypes DEF TypeInv, TypeOK
  <2>4. SessionType'
    BY <1>1, <2>2, <2>3 DEF TypeInv, TypeOK, SessionType, CreateBlock, NewBlock, Goto, Labels, Request,
       BlockObject, ApiCalls, MaybeToken, MaybeMac
  <2>5. KeyStoreTypeOK' /\ DataStoreTypeOK' /\ OtherType'
    BY <1>1 DEF TypeInv, TypeOK, OtherType, CreateBlock, ksVars, historyVars,
       KeyStoreTypeOK, DataStoreTypeOK
  <2>6. RequestShape(s)' /\ BlockShape(s)' /\ ListShape(s)'
    BY <1>1, <2>2, <2>3 DEF TypeInv, TypeOK, Shape, CreateBlock, NewBlock, Goto, RequestShape, BlockShape,
       ListShape, ApiCalls, Loading, Listing, Writing, Removing, Sharing
  <2> QED
    BY <1>f, <2>4, <2>5, <2>6, GoesOnType
<1>2. ASSUME NEW op \in ApiCalls \ {"create"}, NEW b \in Blocks,
             NEW u \in Users \cup {None}, NEW c \in Contents \cup {None}, NEW k \in Nat,
             op = "update" => c \in Contents,
             op \in {"grant_read", "grant_update", "deny_read", "deny_update"} => u \in Users,
             nextKey' \in Nat, Load(s, op, b, u, c, k)
      PROVE  TypeInv'
  <2>1. SessionType'
    BY <1>2 DEF TypeInv, TypeOK, SessionType, Load, Goto, Labels, Request
  <2>2. KeyStoreTypeOK' /\ DataStoreTypeOK' /\ OtherType'
    BY <1>2 DEF TypeInv, TypeOK, OtherType, Load, ksVars, historyVars,
       KeyStoreTypeOK, DataStoreTypeOK
  <2>3. RequestShape(s)' /\ BlockShape(s)' /\ ListShape(s)'
    BY <1>2 DEF TypeInv, TypeOK, Shape, Load, Goto, RequestShape, BlockShape,
       ListShape, Loading, Listing, Writing, Removing, Sharing
  <2> QED
    BY <1>f, <2>1, <2>2, <2>3, GoesOnType
<1>3. CASE ReadBlock(s) \/ DeleteBlock(s)
  BY <1>2, <1>3 DEF ReadBlock, DeleteBlock, ApiCalls, TypeInv, TypeOK
<1>4. CASE UpdateBlock(s)
  BY <1>2, <1>4 DEF UpdateBlock, ApiCalls, TypeInv, TypeOK
<1>5. CASE RotateBlock(s)
  <2>1. PICK b \in Blocks : Load(s, "rotate", b, None, None, nextKey)
    BY <1>5 DEF RotateBlock
  <2>2. nextKey \in Nat /\ nextKey' \in Nat
    BY <1>5 DEF RotateBlock, TypeInv, TypeOK
  <2>3. "rotate" \in ApiCalls \ {"create"}
    BY DEF ApiCalls
  <2> QED
    BY <1>2, <2>1, <2>2, <2>3
<1>6. CASE GrantReadAccess(s) \/ GrantUpdateAccess(s)
  BY <1>2, <1>6 DEF GrantReadAccess, GrantUpdateAccess, ApiCalls, TypeInv, TypeOK
<1>7. CASE DenyReadAccess(s) \/ DenyUpdateAccess(s)
  BY <1>2, <1>7 DEF DenyReadAccess, DenyUpdateAccess, ApiCalls, TypeInv, TypeOK
<1> QED
  BY <1>1, <1>3, <1>4, <1>5, <1>6, <1>7 DEF Call

LEMMA LoadType ==
    ASSUME TypeInv, NEW s \in Sessions, Step(s),
           LoadRtoken(s) \/ LoadWtoken(s) \/ GetBlock(s)
    PROVE  TypeInv'
<1>f. Frame(s)
  BY StepFrame DEF TypeInv
<1>o. KeyStoreTypeOK' /\ DataStoreTypeOK' /\ OtherType'
  BY DEF TypeInv, TypeOK, OtherType, LoadRtoken, LoadWtoken, GetBlock, ksVars, historyVars,
     KeyStoreTypeOK, DataStoreTypeOK
<1>u. UserOf[s] \in Users
  BY SessionsAssumption, RegisteredAssumption
<1>1. CASE LoadRtoken(s)
  <2>1. req[s].block \in Blocks
    BY <1>1 DEF TypeInv, Shape, RequestShape, LoadRtoken
  <2>2. Rtoken(s, req[s].block, UserOf[s]) \in MaybeToken
    BY <1>u, <2>1 DEF TypeInv, TypeOK, KeyStoreTypeOK, Rtoken, MaybeToken
  <2>3. SessionType'
    BY <1>1, <2>2 DEF TypeInv, TypeOK, SessionType, LoadRtoken, Goto, Labels, BlockObject
  <2>4. RequestShape(s)' /\ BlockShape(s)' /\ ListShape(s)'
    BY <1>1 DEF TypeInv, TypeOK, Shape, LoadRtoken, Goto, RequestShape, BlockShape,
       ListShape, Loading, Listing, Writing, Removing, Sharing
  <2> QED
    BY <1>f, <1>o, <2>3, <2>4, GoesOnType
<1>2. CASE LoadWtoken(s)
  <2>1. req[s].block \in Blocks
    BY <1>2 DEF TypeInv, Shape, RequestShape, LoadWtoken
  <2>2. Wtoken(s, req[s].block, UserOf[s]) \in MaybeToken
    BY <1>u, <2>1 DEF TypeInv, TypeOK, KeyStoreTypeOK, Wtoken, MaybeToken
  <2>3. CASE Return(s)
    BY <1>o, <2>3, ReturnsType
  <2>4. CASE ~Return(s)
    <3>1. /\ bl[s].rtoken # None
          /\ bl' = [bl EXCEPT ![s].wtoken = Wtoken(s, req[s].block, UserOf[s])]
          /\ pc' = [pc EXCEPT ![s] = "get_block"]
          /\ UNCHANGED <<req, rights, it>>
      BY <1>2, <2>4 DEF LoadWtoken, Goto
    <3>2. bl[s].rtoken \in Token /\ pc[s] = "get_wtoken"
      BY <1>2, <3>1 DEF LoadWtoken, TypeInv, TypeOK, BlockObject, MaybeToken
    <3>3. SessionType'
      BY <2>2, <3>1 DEF TypeInv, TypeOK, SessionType, Labels, BlockObject
    <3>4. /\ pc'[s] = "get_block" /\ req'[s] = req[s] /\ rights'[s] = rights[s]
          /\ bl'[s].rtoken = bl[s].rtoken
      BY <3>1 DEF TypeInv, TypeOK, BlockObject
    <3>5. RequestShape(s)' /\ BlockShape(s)' /\ ListShape(s)'
      BY <3>2, <3>4 DEF TypeInv, Shape, RequestShape, BlockShape,
         ListShape, Loading, Listing, Writing, Removing, Sharing
    <3> QED
      BY <1>f, <1>o, <3>3, <3>5, GoesOnType
  <2> QED
    BY <2>3, <2>4
<1>3. CASE GetBlock(s)
  <2>1. CASE Return(s)
    BY <1>o, <2>1, ReturnsType
  <2>2. CASE ~Return(s)
    <3> DEFINE b == req[s].block
    <3>1. /\ InitAccepts(bl[s], b, UserOf[s])
          /\ req[s].op # "read"
          /\ bl' = [bl EXCEPT ![s].data = ds[b].data, ![s].seen = ds[b].data]
          /\ pc' = [pc EXCEPT ![s] = AfterLoad[req[s].op]]
          /\ UNCHANGED <<req, rights, it>>
      BY <1>3, <2>2 DEF GetBlock, Goto
    <3>2. /\ pc[s] = "get_block" /\ b \in Blocks
          /\ req[s].op \in ApiCalls \ {"create", "read"}
      BY <1>3, <3>1 DEF GetBlock, TypeInv, Shape, RequestShape, Loading
    <3>3. ds[b].data \in Contents
      BY <3>1, <3>2 DEF TypeInv, TypeOK, DataStoreTypeOK, StoredBlock, InitAccepts
    <3>4. /\ AfterLoad[req[s].op] \in Labels
          /\ AfterLoad[req[s].op] \in {"update", "iterate"} \cup Sharing
          /\ AfterLoad[req[s].op] = "update" => req[s].op = "update"
          /\ AfterLoad[req[s].op] = "iterate" => req[s].op \in {"rotate", "delete"}
          /\ AfterLoad[req[s].op] \in Sharing =>
                req[s].op \in {"grant_read", "grant_update", "deny_read", "deny_update"}
      BY <3>2 DEF AfterLoad, ApiCalls, Labels, Sharing
    <3>5. SessionType'
      BY <3>1, <3>3, <3>4 DEF TypeInv, TypeOK, SessionType, BlockObject
    <3>6. /\ pc'[s] = AfterLoad[req[s].op] /\ req'[s] = req[s] /\ rights'[s] = rights[s]
          /\ bl'[s].rtoken = bl[s].rtoken /\ bl'[s].data = ds[b].data
      BY <3>1 DEF TypeInv, TypeOK, BlockObject
    <3>7. RequestShape(s)' /\ BlockShape(s)' /\ ListShape(s)'
      BY <3>2, <3>3, <3>4, <3>6 DEF TypeInv, Shape, RequestShape, BlockShape,
         ListShape, Loading, Listing, Writing, Removing, Sharing
    <3> QED
      BY <1>f, <1>o, <3>5, <3>7, GoesOnType
  <2> QED
    BY <2>1, <2>2
<1> QED
  BY <1>1, <1>2, <1>3

LEMMA LocalType ==
    ASSUME TypeInv, NEW s \in Sessions, Step(s), Update(s) \/ Rotate(s)
    PROVE  TypeInv'
<1>f. Frame(s)
  BY StepFrame DEF TypeInv
<1>o. KeyStoreTypeOK' /\ DataStoreTypeOK' /\ OtherType'
  BY DEF TypeInv, TypeOK, OtherType, Update, Rotate, ksVars, historyVars,
     KeyStoreTypeOK, DataStoreTypeOK
<1>1. CASE Update(s)
  <2>1. CASE Return(s)
    BY <1>o, <2>1, ReturnsType
  <2>2. CASE ~Return(s)
    <3>1. /\ bl[s].wtoken # None
          /\ bl' = [bl EXCEPT ![s].data = req[s].data, ![s].old_mac = MacOf(bl[s])]
          /\ pc' = [pc EXCEPT ![s] = "set_block"]
          /\ UNCHANGED <<req, rights, it>>
      BY <1>1, <2>2 DEF Update, Goto
    <3>2. /\ pc[s] = "update" /\ req[s].data \in Contents
          /\ bl[s].rtoken \in Token /\ bl[s].data \in Contents
      BY <1>1 DEF Update, TypeInv, Shape, RequestShape, BlockShape, Loading
    <3>3. bl[s].wtoken \in Token
      BY <3>1 DEF TypeInv, TypeOK, BlockObject, MaybeToken
    <3>4. MacOf(bl[s]) \in MaybeMac
      BY <3>2, <3>3 DEF MacOf, MaybeMac, Mac, Token
    <3>5. SessionType'
      <4>1. [bl[s] EXCEPT !.data = req[s].data, !.old_mac = MacOf(bl[s])] \in BlockObject
        BY <3>2, <3>4 DEF TypeInv, TypeOK, BlockObject
      <4>2. bl' \in [Sessions -> BlockObject]
        BY <3>1, <4>1 DEF TypeInv, TypeOK
      <4> QED
        BY <3>1, <4>2 DEF TypeInv, TypeOK, SessionType, Labels
    <3>6. /\ pc'[s] = "set_block" /\ req'[s] = req[s] /\ rights'[s] = rights[s]
          /\ bl'[s].rtoken = bl[s].rtoken /\ bl'[s].wtoken = bl[s].wtoken
          /\ bl'[s].data = req[s].data
      BY <3>1 DEF TypeInv, TypeOK, BlockObject
    <3>7. RequestShape(s)' /\ BlockShape(s)' /\ ListShape(s)'
      BY <3>2, <3>3, <3>6 DEF TypeInv, Shape, RequestShape, BlockShape,
         ListShape, Loading, Listing, Writing, Removing, Sharing
    <3> QED
      BY <1>f, <1>o, <3>5, <3>7, GoesOnType
  <2> QED
    BY <2>1, <2>2
<1>2. CASE Rotate(s)
  <2> DEFINE k == req[s].key
             u == UserOf[s]
             list == rights[s]
  <2>1. u \in Users /\ k \in Nat /\ k + 1 \in Nat /\ list \in Seq(Node)
    BY SessionsAssumption, RegisteredAssumption DEF TypeInv, TypeOK, Request
  <2>2. TokenGenerate(k, u) \in Token /\ TokenGenerate(k + 1, u) \in Token
    BY <2>1, TokenTypes
  <2>3. /\ pc[s] = "rotate"
        /\ bl[s].wtoken \in Token /\ bl[s].data \in Contents
    BY <1>2 DEF Rotate, TypeInv, Shape, BlockShape, Writing, Loading
  <2>4. MacOf(bl[s]) \in MaybeMac
    BY <2>3 DEF MacOf, MaybeMac, Mac, Token
  <2>5. /\ Rewrap(list, k, u) \in Seq(Node)
        /\ Len(Rewrap(list, k, u)) = Len(list)
        /\ \A j \in 1..Len(list) : Rewrap(list, k, u)[j].rtoken \in Token
    BY <2>1, <2>2, RewrapType
  <2>6. SessionType'
    <3>1. [bl[s] EXCEPT !.rtoken = TokenGenerate(k, u), !.wtoken = TokenGenerate(k + 1, u),
                        !.old_mac = MacOf(bl[s])] \in BlockObject
      BY <2>2, <2>4 DEF TypeInv, TypeOK, BlockObject, MaybeToken
    <3>2. bl' \in [Sessions -> BlockObject]
      BY <1>2, <3>1 DEF TypeInv, TypeOK, Rotate
    <3>3. rights' \in [Sessions -> Seq(Node)]
      BY <1>2, <2>5 DEF TypeInv, TypeOK, Rotate
    <3> QED
      BY <1>2, <3>2, <3>3 DEF TypeInv, TypeOK, SessionType, Rotate, Goto, Labels
  <2>7. /\ pc'[s] = "set_block" /\ req'[s] = req[s] /\ rights'[s] = Rewrap(list, k, u)
        /\ bl'[s].rtoken = TokenGenerate(k, u) /\ bl'[s].wtoken = TokenGenerate(k + 1, u)
        /\ bl'[s].data = bl[s].data
    BY <1>2 DEF Rotate, Goto, TypeInv, TypeOK, BlockObject
  <2>8. RequestShape(s)' /\ BlockShape(s)'
    BY <2>2, <2>3, <2>7 DEF TypeInv, Shape, RequestShape, BlockShape,
       Loading, Listing, Writing, Removing, Sharing
  <2>9. ListShape(s)'
    BY <2>5, <2>7, NoneLemma DEF ListShape, Listing
  <2> QED
    BY <1>f, <1>o, <2>6, <2>8, <2>9, GoesOnType
<1> QED
  BY <1>1, <1>2

\* The iterator only ever stands on users that have a directory.
LEMMA IndexedUsers ==
    ASSUME TypeOK, NEW s \in Sessions, NEW b \in Blocks, NEW i
    PROVE  Indexed(s, b, i) \subseteq dirs[b] /\ dirs[b] \subseteq Users
  BY DEF TypeOK, KeyStoreTypeOK, Indexed, IndexedRights

LEMMA ListType ==
    ASSUME TypeInv, NEW s \in Sessions, Step(s),
           Iterate(s) \/ NodeRtoken(s) \/ NodeWtoken(s) \/ IteratorNext(s)
    PROVE  TypeInv'
<1>f. Frame(s)
  BY StepFrame DEF TypeInv
<1>o. KeyStoreTypeOK' /\ DataStoreTypeOK' /\ OtherType'
  BY DEF TypeInv, TypeOK, OtherType, Iterate, NodeRtoken, NodeWtoken, IteratorNext,
     ksVars, historyVars, KeyStoreTypeOK, DataStoreTypeOK
<1>b. /\ pc[s] \in Listing \cup {"iterate"} /\ req[s].block \in Blocks
      /\ req[s].op \in {"rotate", "delete"}
      /\ bl[s].rtoken \in Token /\ bl[s].data \in Contents
      /\ pc[s] # "iterate" => bl[s].wtoken \in Token /\ it[s].user \in Users
      /\ \A j \in 1..Len(rights[s]) : rights[s][j].rtoken # None
  BY DEF TypeInv, Shape, RequestShape, BlockShape, ListShape, Loading, Listing, Iterate,
     NodeRtoken, NodeWtoken, IteratorNext
<1>1. ASSUME NEW i \in Nat, NEW u \in Indexed(s, req[s].block, i), Visit(s, i, u),
             bl[s].wtoken # None, UNCHANGED <<req, bl, rights>>
      PROVE  TypeInv'
  <2>1. u \in Users
    BY <1>b, <1>1, IndexedUsers DEF TypeInv
  <2>2. bl[s].wtoken \in Token
    BY <1>1 DEF TypeInv, TypeOK, BlockObject, MaybeToken
  <2>3. SessionType'
    BY <1>1, <2>1 DEF TypeInv, TypeOK, SessionType, Visit, Goto, Labels, Iterator, MaybeToken
  <2>4. /\ pc'[s] \in Listing /\ pc'[s] # "iterate" /\ it'[s].user = u
        /\ req'[s] = req[s] /\ bl'[s] = bl[s] /\ rights'[s] = rights[s]
    BY <1>1 DEF Visit, Goto, Listing, TypeInv, TypeOK
  <2>5. RequestShape(s)' /\ BlockShape(s)' /\ ListShape(s)'
    BY <1>b, <2>1, <2>2, <2>4 DEF TypeInv, Shape, RequestShape, BlockShape, ListShape,
       ApiCalls, Loading, Listing, Writing, Removing, Sharing
  <2> QED
    BY <1>f, <1>o, <2>3, <2>5, GoesOnType
<1>2. ASSUME NEW l \in {"node_wtoken", "next", "rotate", "rem_block", "aborted"},
             l = "node_wtoken" \/ l = "next" => it'[s].user = it[s].user,
             l # "aborted" => pc[s] # "iterate",
             pc' = [pc EXCEPT ![s] = l], UNCHANGED <<req, bl>>,
             rights' \in [Sessions -> Seq(Node)], it' \in [Sessions -> Iterator],
             \A j \in 1..Len(rights'[s]) : rights'[s][j].rtoken # None
      PROVE  TypeInv'
  <2>1. SessionType'
    BY <1>2 DEF TypeInv, TypeOK, SessionType, Labels
  <2>2. pc'[s] = l /\ req'[s] = req[s] /\ bl'[s] = bl[s]
    BY <1>2 DEF TypeInv, TypeOK
  <2>3. RequestShape(s)' /\ BlockShape(s)' /\ ListShape(s)'
    BY <1>b, <1>2, <2>2 DEF TypeInv, Shape, RequestShape, BlockShape, ListShape,
       ApiCalls, Loading, Listing, Writing, Removing, Sharing
  <2> QED
    BY <1>f, <1>o, <2>1, <2>3, GoesOnType
<1>3. CASE Iterate(s)
  <2>1. CASE Return(s)
    BY <1>o, <2>1, ReturnsType
  <2>2. CASE Goto(s, "aborted") /\ UNCHANGED <<req, bl, rights, it>>
    BY <1>b, <1>2, <2>2 DEF Goto, TypeInv, TypeOK
  <2>3. CASE /\ bl[s].wtoken # None /\ UNCHANGED <<req, bl, rights>>
             /\ \E u \in Indexed(s, req[s].block, 0) : Visit(s, 0, u)
    BY <1>1, <2>3
  <2> QED
    BY <1>3, <2>1, <2>2, <2>3 DEF Iterate
<1>4. CASE NodeRtoken(s)
  <2>1. pc[s] = "node_rtoken" /\ it[s].user \in Users
    BY <1>b, <1>4 DEF NodeRtoken
  <2>2. Rtoken(s, req[s].block, it[s].user) \in MaybeToken
    BY <1>b, <2>1 DEF TypeInv, TypeOK, KeyStoreTypeOK, Rtoken, MaybeToken
  <2>3. it' \in [Sessions -> Iterator] /\ it'[s].user = it[s].user
    BY <1>4, <2>2 DEF TypeInv, TypeOK, NodeRtoken, Iterator
  <2> QED
    BY <1>b, <1>2, <1>4, <2>1, <2>3 DEF TypeInv, TypeOK, NodeRtoken, Goto
<1>5. CASE NodeWtoken(s)
  <2>0. pc[s] = "node_wtoken" /\ it[s].user \in Users
    BY <1>b, <1>5 DEF NodeWtoken
  <2>1. CASE Return(s)
    BY <1>o, <2>1, ReturnsType
  <2>2. CASE /\ rights' = [rights EXCEPT ![s] = <<>>]
             /\ it' = [it EXCEPT ![s] = NoIterator]
             /\ Goto(s, "rem_block")
             /\ UNCHANGED <<req, bl>>
    <3>1. NoIterator \in Iterator
      BY DEF NoIterator, Iterator, MaybeToken
    <3>2. it' \in [Sessions -> Iterator]
      BY <2>2, <3>1 DEF TypeInv, TypeOK
    <3>3. rights' \in [Sessions -> Seq(Node)] /\ Len(rights'[s]) = 0
      BY <2>2 DEF TypeInv, TypeOK
    <3>4. \A j \in 1..Len(rights'[s]) : rights'[s][j].rtoken # None
      BY <3>3
    <3>5. pc' = [pc EXCEPT ![s] = "rem_block"] /\ UNCHANGED <<req, bl>>
      BY <2>2 DEF Goto
    <3> QED
      BY <1>2, <2>0, <3>2, <3>3, <3>4, <3>5
  <2>3. CASE /\ NodeLoaded(s)
             /\ rights' = [rights EXCEPT ![s] = Append(@,
                  [user |-> it[s].user, rtoken |-> it[s].rtoken,
                   wtoken |-> Wtoken(s, req[s].block, it[s].user)])]
             /\ Goto(s, "next")
             /\ UNCHANGED <<req, bl, it>>
    <3> DEFINE n == [user |-> it[s].user, rtoken |-> it[s].rtoken,
                     wtoken |-> Wtoken(s, req[s].block, it[s].user)]
    <3>1. Wtoken(s, req[s].block, it[s].user) \in MaybeToken
      BY <1>b, <2>0 DEF TypeInv, TypeOK, KeyStoreTypeOK, Wtoken, MaybeToken
    <3>2. n \in Node
      BY <2>0, <3>1 DEF Node, TypeInv, TypeOK, Iterator
    <3>3. rights[s] \in Seq(Node) /\ rights'[s] = Append(rights[s], n)
      BY <2>3 DEF TypeInv, TypeOK
    <3>4. n.rtoken # None
      BY <2>3 DEF NodeLoaded
    <3>5. rights' \in [Sessions -> Seq(Node)]
      <4>1. Append(rights[s], n) \in Seq(Node)
        BY <3>2, <3>3, AppendProperties
      <4> QED
        BY <2>3, <4>1 DEF TypeInv, TypeOK
    <3>6. \A j \in 1..Len(rights'[s]) : rights'[s][j].rtoken # None
      <4> HIDE DEF n
      <4>1. /\ Len(rights'[s]) = Len(rights[s]) + 1
            /\ \A j \in 1..Len(rights[s]) : rights'[s][j] = rights[s][j]
            /\ rights'[s][Len(rights[s]) + 1] = n
        BY <3>2, <3>3, AppendProperties
      <4>2. Len(rights[s]) \in Nat
        BY <3>3
      <4> TAKE j \in 1..Len(rights'[s])
      <4>3. j \in 1..Len(rights[s]) \/ j = Len(rights[s]) + 1
        BY <4>1, <4>2
      <4>4. CASE j \in 1..Len(rights[s])
        BY <1>b, <4>1, <4>4
      <4>5. CASE j = Len(rights[s]) + 1
        BY <3>4, <4>1, <4>5
      <4> QED
        BY <4>3, <4>4, <4>5
    <3>7. pc' = [pc EXCEPT ![s] = "next"] /\ UNCHANGED <<req, bl, it>>
      BY <2>3 DEF Goto
    <3>8. it' \in [Sessions -> Iterator]
      BY <3>7 DEF TypeInv, TypeOK
    <3> QED
      BY <1>2, <2>0, <3>5, <3>6, <3>7, <3>8
  <2> QED
    BY <1>5, <2>1, <2>2, <2>3 DEF NodeWtoken
<1>6. CASE IteratorNext(s)
  <2>0. pc[s] = "next" /\ UNCHANGED <<req, bl, rights>>
    BY <1>6 DEF IteratorNext
  <2>1. it[s].index + 1 \in Nat
    BY DEF TypeInv, TypeOK, Iterator
  <2>2. bl[s].wtoken # None
    BY <1>b, <2>0, NoneLemma
  <2>3. ASSUME NEW u \in Indexed(s, req[s].block, it[s].index + 1),
               Visit(s, it[s].index + 1, u)
        PROVE  TypeInv'
    BY <1>1, <2>0, <2>1, <2>2, <2>3
  <2>4. CASE /\ it' = [it EXCEPT ![s] = NoIterator]
             /\ Goto(s, IF req[s].op = "rotate" THEN "rotate" ELSE "rem_block")
    <3>1. NoIterator \in Iterator
      BY DEF NoIterator, Iterator, MaybeToken
    <3>2. it' \in [Sessions -> Iterator]
      BY <2>4, <3>1 DEF TypeInv, TypeOK
    <3> DEFINE l == IF req[s].op = "rotate" THEN "rotate" ELSE "rem_block"
    <3>3. /\ pc' = [pc EXCEPT ![s] = l] /\ UNCHANGED <<req, bl>>
          /\ l \in {"rotate", "rem_block"}
      BY <2>0, <2>4 DEF Goto
    <3>4. /\ rights' \in [Sessions -> Seq(Node)]
          /\ \A j \in 1..Len(rights'[s]) : rights'[s][j].rtoken # None
      BY <1>b, <2>0 DEF TypeInv, TypeOK
    <3> HIDE DEF l
    <3> QED
      BY <1>2, <2>0, <3>2, <3>3, <3>4
  <2> QED
    BY <1>6, <2>3, <2>4 DEF IteratorNext
<1> QED
  BY <1>3, <1>4, <1>5, <1>6

\* Working through the rights list keeps it well formed.
LEMMA RestOfList ==
    ASSUME NEW list \in Seq(Node), list # <<>>,
           \A j \in 1..Len(list) : list[j].rtoken # None
    PROVE  /\ Head(list) \in Node /\ Head(list).rtoken \in Token
           /\ Tail(list) \in Seq(Node)
           /\ \A j \in 1..Len(Tail(list)) : Tail(list)[j].rtoken # None
<1>1. /\ Head(list) \in Node /\ Head(list) = list[1] /\ 1 \in 1..Len(list)
      /\ Tail(list) \in Seq(Node) /\ Len(Tail(list)) = Len(list) - 1
      /\ Len(list) \in Nat
      /\ \A j \in 1..Len(Tail(list)) : Tail(list)[j] = list[j + 1]
  BY HeadTailProperties
<1>2. Head(list).rtoken \in Token
  BY <1>1 DEF Node, MaybeToken
<1>3. \A j \in 1..Len(Tail(list)) : j + 1 \in 1..Len(list)
  BY <1>1
<1> QED
  BY <1>1, <1>2, <1>3

LEMMA SaveType ==
    ASSUME TypeInv, NEW s \in Sessions, Step(s),
           SetBlockCall(s) \/ SaveOwnRtoken(s) \/ SaveOwnWtoken(s)
           \/ SaveNodeRtoken(s) \/ SaveNodeWtoken(s)
    PROVE  TypeInv'
<1>f. Frame(s)
  BY StepFrame DEF TypeInv
<1>u. UserOf[s] \in Users
  BY SessionsAssumption, RegisteredAssumption
<1>b. /\ pc[s] \in {"set_block", "own_rtoken", "own_wtoken", "save_rtoken", "save_wtoken"}
      /\ req[s].block \in Blocks /\ req[s].op \in ApiCalls
      /\ bl[s].rtoken \in Token /\ bl[s].wtoken \in Token /\ bl[s].data \in Contents
      /\ rights[s] \in Seq(Node)
      /\ \A j \in 1..Len(rights[s]) : rights[s][j].rtoken # None
  BY DEF TypeInv, TypeOK, Shape, RequestShape, BlockShape, ListShape, Loading, Writing,
     SetBlockCall, SaveOwnRtoken, SaveOwnWtoken, SaveNodeRtoken, SaveNodeWtoken
<1>o. DataStoreTypeOK' /\ OtherType'
  <2>1. Sealed(bl[s]) \in StoredBlock
    BY <1>b DEF Sealed, MacOf, StoredBlock, Mac, Token
  <2>2. CASE SetBlockCall(s)
    <3>1. DataStoreTypeOK'
      BY <1>b, <2>1, <2>2 DEF SetBlockCall, SetBlock, TypeInv, TypeOK, DataStoreTypeOK
    <3>2. OtherType'
      <4>1. /\ UNCHANGED <<ksUp, nextKey>>
            /\ readers' \in {readers, [readers EXCEPT ![req[s].block] = @ \cup {UserOf[s]}]}
            /\ writers' \in {writers, [writers EXCEPT ![req[s].block] = @ \cup {UserOf[s]}]}
        BY <2>2 DEF SetBlockCall, historyVars
      <4>2. \/ reborn' = reborn
            \/ \E x \in BOOLEAN : reborn' = [reborn EXCEPT ![req[s].block] = x]
        BY <1>b, <2>2 DEF SetBlockCall, historyVars, TypeInv, TypeOK
      <4>3. reborn' \in [Blocks -> BOOLEAN]
        BY <4>2 DEF TypeInv, TypeOK
      <4>4. /\ readers[req[s].block] \cup {UserOf[s]} \in SUBSET Users
            /\ writers[req[s].block] \cup {UserOf[s]} \in SUBSET Users
        BY <1>b, <1>u DEF TypeInv, TypeOK
      <4>5. readers' \in [Blocks -> SUBSET Users]
        BY <4>1, <4>4 DEF TypeInv, TypeOK
      <4>6. writers' \in [Blocks -> SUBSET Users]
        BY <4>1, <4>4 DEF TypeInv, TypeOK
      <4> QED
        BY <4>1, <4>3, <4>5, <4>6 DEF TypeInv, TypeOK, OtherType
    <3> QED
      BY <3>1, <3>2
  <2>3. CASE ~SetBlockCall(s)
    BY <2>3 DEF SaveOwnRtoken, SaveOwnWtoken, SaveNodeRtoken, SaveNodeWtoken, TypeInv,
       TypeOK, DataStoreTypeOK, OtherType, historyVars
  <2> QED
    BY <2>2, <2>3
<1>1. ASSUME KeyStoreStep, NEW l \in {"own_rtoken", "own_wtoken", "save_rtoken", "save_wtoken"},
             pc' = [pc EXCEPT ![s] = l], UNCHANGED <<req, it>>,
             bl' \in [Sessions -> BlockObject],
             bl'[s].rtoken = bl[s].rtoken, bl'[s].wtoken = bl[s].wtoken,
             bl'[s].data = bl[s].data,
             NEW list \in Seq(Node), rights' = [rights EXCEPT ![s] = list],
             \A j \in 1..Len(list) : list[j].rtoken # None,
             l \in {"save_rtoken", "save_wtoken"} => list # <<>>,
             l = "save_wtoken" => Head(list).wtoken # None
      PROVE  TypeInv'
  <2>1. KeyStoreTypeOK'
    BY <1>1, KeyStoreStepType DEF TypeInv, TypeOK
  <2>2. SessionType'
    BY <1>1 DEF TypeInv, TypeOK, SessionType, Labels
  <2>3. /\ pc'[s] = l /\ req'[s] = req[s] /\ rights'[s] = list
    BY <1>1 DEF TypeInv, TypeOK
  <2>4. RequestShape(s)'
    BY <1>b, <1>1, <2>3 DEF TypeInv, Shape, RequestShape, Loading, Listing, Sharing
  <2>5. BlockShape(s)' /\ ListShape(s)'
    BY <1>b, <1>1, <2>3 DEF BlockShape, ListShape, Loading, Listing, Writing, Removing
  <2> QED
    BY <1>f, <1>o, <2>1, <2>2, <2>4, <2>5, GoesOnType
<1>2. ASSUME Return(s), KeyStoreStep
      PROVE  TypeInv'
  <2>1. KeyStoreTypeOK'
    BY <1>2, KeyStoreStepType DEF TypeInv, TypeOK
  <2> QED
    BY <1>o, <1>2, <2>1, ReturnsType
<1>3. CASE SetBlockCall(s)
  <2>1. KeyStoreStep
    BY <1>3 DEF SetBlockCall, KeyStoreStep
  <2>2. CASE Return(s)
    BY <1>2, <2>1, <2>2
  <2>3. CASE ~Return(s)
    <3>1. /\ bl' = [bl EXCEPT ![s].old_mac = None]
          /\ pc' = [pc EXCEPT ![s] = "own_rtoken"]
          /\ UNCHANGED <<req, rights, it>>
      BY <1>3, <2>3 DEF SetBlockCall, Goto
    <3>2. /\ bl' \in [Sessions -> BlockObject] /\ bl'[s].rtoken = bl[s].rtoken
          /\ bl'[s].wtoken = bl[s].wtoken /\ bl'[s].data = bl[s].data
      BY <3>1 DEF TypeInv, TypeOK, BlockObject, MaybeMac
    <3>3. rights' = [rights EXCEPT ![s] = rights[s]]
      BY <3>1 DEF TypeInv, TypeOK
    <3> QED
      BY <1>b, <1>1, <2>1, <3>1, <3>2, <3>3
  <2> QED
    BY <2>2, <2>3
<1>4. ASSUME NEW list \in Seq(Node), ForEach(s, list, "save_rtoken"), KeyStoreStep,
             \A j \in 1..Len(list) : list[j].rtoken # None
      PROVE  TypeInv'
  <2>1. CASE Return(s)
    BY <1>2, <1>4, <2>1
  <2>2. CASE ~Return(s)
    <3>1. /\ list # <<>> /\ rights' = [rights EXCEPT ![s] = list]
          /\ pc' = [pc EXCEPT ![s] = "save_rtoken"] /\ UNCHANGED <<req, bl, it>>
      BY <1>4, <2>2 DEF ForEach, Goto
    <3>2. bl' \in [Sessions -> BlockObject]
      BY <3>1 DEF TypeInv, TypeOK
    <3> QED
      BY <1>1, <1>4, <3>1, <3>2
  <2> QED
    BY <2>1, <2>2
<1>5. CASE SaveOwnRtoken(s)
  <2>1. KeyStoreStep
    BY <1>b, <1>u, <1>5 DEF SaveOwnRtoken, RtokenSaved, RtokenRefused, KeyStoreStep
  <2>2. CASE Return(s)
    BY <1>2, <2>1, <2>2
  <2>3. CASE ~Return(s)
    <3>1. pc' = [pc EXCEPT ![s] = "own_wtoken"] /\ UNCHANGED <<req, bl, rights, it>>
      BY <1>5, <2>3 DEF SaveOwnRtoken, RtokenRefused, Goto
    <3>2. bl' \in [Sessions -> BlockObject] /\ rights' = [rights EXCEPT ![s] = rights[s]]
      BY <3>1 DEF TypeInv, TypeOK
    <3> QED
      BY <1>b, <1>1, <2>1, <3>1, <3>2
  <2> QED
    BY <2>2, <2>3
<1>6. CASE SaveOwnWtoken(s)
  <2>1. KeyStoreStep
    BY <1>b, <1>u, <1>6 DEF SaveOwnWtoken, WtokenSaved, WtokenRefused, KeyStoreStep
  <2>2. Return(s) \/ ForEach(s, rights[s], "save_rtoken")
    BY <1>6 DEF SaveOwnWtoken, WtokenRefused
  <2> QED
    BY <1>b, <1>2, <1>4, <2>1, <2>2
<1>7. CASE SaveNodeRtoken(s)
  <2>1. /\ rights[s] # <<>> /\ Head(rights[s]) \in Node /\ Head(rights[s]).rtoken \in Token
        /\ Tail(rights[s]) \in Seq(Node)
        /\ \A j \in 1..Len(Tail(rights[s])) : Tail(rights[s])[j].rtoken # None
    <3>1. rights[s] # <<>>
      BY <1>7 DEF SaveNodeRtoken, TypeInv, Shape, ListShape
    <3> QED
      BY <1>b, <3>1, RestOfList
  <2>2. KeyStoreStep
    <3>1. Head(rights[s]).user \in Users
      BY <2>1 DEF Node
    <3> QED
      BY <1>b, <1>7, <2>1, <3>1 DEF SaveNodeRtoken, RtokenSaved, RtokenRefused, KeyStoreStep
  <2>3. CASE Return(s)
    BY <1>2, <2>2, <2>3
  <2>4. CASE ForEach(s, Tail(rights[s]), "save_rtoken")
    BY <1>4, <2>1, <2>2, <2>4
  <2>5. CASE /\ Head(rights[s]).wtoken # None /\ Goto(s, "save_wtoken")
             /\ UNCHANGED <<req, bl, rights, it>>
    <3>1. bl' \in [Sessions -> BlockObject] /\ rights' = [rights EXCEPT ![s] = rights[s]]
      BY <2>5 DEF TypeInv, TypeOK
    <3>2. pc' = [pc EXCEPT ![s] = "save_wtoken"]
      BY <2>5 DEF Goto
    <3> QED
      BY <1>b, <1>1, <2>1, <2>2, <2>5, <3>1, <3>2
  <2> QED
    BY <1>7, <2>3, <2>4, <2>5 DEF SaveNodeRtoken, RtokenRefused
<1>8. CASE SaveNodeWtoken(s)
  <2>1. /\ Head(rights[s]) \in Node /\ Head(rights[s]).wtoken \in Token
        /\ Tail(rights[s]) \in Seq(Node)
        /\ \A j \in 1..Len(Tail(rights[s])) : Tail(rights[s])[j].rtoken # None
    <3>1. rights[s] # <<>> /\ Head(rights[s]).wtoken # None
      BY <1>8 DEF SaveNodeWtoken, TypeInv, Shape, ListShape
    <3>2. /\ Head(rights[s]) \in Node
          /\ Tail(rights[s]) \in Seq(Node)
          /\ \A j \in 1..Len(Tail(rights[s])) : Tail(rights[s])[j].rtoken # None
      BY <1>b, <3>1, RestOfList
    <3> QED
      BY <3>1, <3>2 DEF Node, MaybeToken
  <2>2. KeyStoreStep
    <3>1. Head(rights[s]).user \in Users
      BY <2>1 DEF Node
    <3> QED
      BY <1>b, <1>8, <2>1, <3>1 DEF SaveNodeWtoken, WtokenSaved, WtokenRefused, KeyStoreStep
  <2>3. Return(s) \/ ForEach(s, Tail(rights[s]), "save_rtoken")
    BY <1>8 DEF SaveNodeWtoken, WtokenRefused
  <2> QED
    BY <1>2, <1>4, <2>1, <2>2, <2>3
<1> QED
  BY <1>3, <1>5, <1>6, <1>7, <1>8

LEMMA RemoveType ==
    ASSUME TypeInv, NEW s \in Sessions, Step(s),
           RemBlockCall(s) \/ DelOwnRtoken(s) \/ DelNodeRtoken(s) \/ DelNodeWtoken(s)
    PROVE  TypeInv'
<1>f. Frame(s)
  BY StepFrame DEF TypeInv
<1>u. UserOf[s] \in Users
  BY SessionsAssumption, RegisteredAssumption
<1>b. /\ pc[s] \in Removing
      /\ req[s].block \in Blocks /\ req[s].op \in ApiCalls
      /\ bl[s].rtoken \in Token /\ bl[s].wtoken \in Token /\ bl[s].data \in Contents
      /\ rights[s] \in Seq(Node)
      /\ \A j \in 1..Len(rights[s]) : rights[s][j].rtoken # None
  BY DEF TypeInv, TypeOK, Shape, RequestShape, BlockShape, ListShape, Loading, Removing,
     RemBlockCall, DelOwnRtoken, DelNodeRtoken, DelNodeWtoken
<1>o. DataStoreTypeOK' /\ OtherType'
  BY <1>b DEF RemBlockCall, RemBlock, DelOwnRtoken, DelNodeRtoken, DelNodeWtoken, TypeInv,
     TypeOK, DataStoreTypeOK, OtherType, historyVars
<1>1. ASSUME KeyStoreStep, NEW l \in {"del_own", "del_rtoken", "del_wtoken"},
             pc' = [pc EXCEPT ![s] = l], UNCHANGED <<req, bl, it>>,
             NEW list \in Seq(Node), rights' = [rights EXCEPT ![s] = list],
             \A j \in 1..Len(list) : list[j].rtoken # None,
             l \in {"del_rtoken", "del_wtoken"} => list # <<>>,
             l = "del_wtoken" => Head(list).wtoken # None
      PROVE  TypeInv'
  <2>1. KeyStoreTypeOK'
    BY <1>1, KeyStoreStepType DEF TypeInv, TypeOK
  <2>2. SessionType'
    BY <1>1 DEF TypeInv, TypeOK, SessionType, Labels
  <2>3. /\ pc'[s] = l /\ req'[s] = req[s] /\ rights'[s] = list /\ bl'[s] = bl[s]
    BY <1>1 DEF TypeInv, TypeOK
  <2>4. RequestShape(s)'
    BY <1>b, <1>1, <2>3 DEF TypeInv, Shape, RequestShape, Loading, Listing, Sharing
  <2>5. BlockShape(s)' /\ ListShape(s)'
    BY <1>b, <1>1, <2>3 DEF BlockShape, ListShape, Loading, Listing, Writing, Removing
  <2> QED
    BY <1>f, <1>o, <2>1, <2>2, <2>4, <2>5, GoesOnType
<1>2. ASSUME Return(s), KeyStoreStep
      PROVE  TypeInv'
  <2>1. KeyStoreTypeOK'
    BY <1>2, KeyStoreStepType DEF TypeInv, TypeOK
  <2> QED
    BY <1>o, <1>2, <2>1, ReturnsType
<1>3. ASSUME NEW list \in Seq(Node), ForEach(s, list, "del_rtoken"), KeyStoreStep,
             \A j \in 1..Len(list) : list[j].rtoken # None
      PROVE  TypeInv'
  <2>1. CASE Return(s)
    BY <1>2, <1>3, <2>1
  <2>2. CASE ~Return(s)
    <3>1. /\ list # <<>> /\ rights' = [rights EXCEPT ![s] = list]
          /\ pc' = [pc EXCEPT ![s] = "del_rtoken"] /\ UNCHANGED <<req, bl, it>>
      BY <1>3, <2>2 DEF ForEach, Goto
    <3> QED
      BY <1>1, <1>3, <3>1
  <2> QED
    BY <2>1, <2>2
<1>4. CASE RemBlockCall(s)
  <2>1. KeyStoreStep
    BY <1>4 DEF RemBlockCall, KeyStoreStep
  <2>2. CASE Return(s)
    BY <1>2, <2>1, <2>2
  <2>3. CASE ~Return(s)
    <3>1. pc' = [pc EXCEPT ![s] = "del_own"] /\ UNCHANGED <<req, bl, rights, it>>
      BY <1>4, <2>3 DEF RemBlockCall, Goto
    <3>2. rights' = [rights EXCEPT ![s] = rights[s]]
      BY <3>1 DEF TypeInv, TypeOK
    <3> QED
      BY <1>b, <1>1, <2>1, <3>1, <3>2
  <2> QED
    BY <2>2, <2>3
<1>5. CASE DelOwnRtoken(s)
  <2>1. KeyStoreStep
    BY <1>b, <1>u, <1>5 DEF DelOwnRtoken, KeyStoreStep
  <2>2. Return(s) \/ ForEach(s, rights[s], "del_rtoken")
    BY <1>5 DEF DelOwnRtoken
  <2> QED
    BY <1>b, <1>2, <1>3, <2>1, <2>2
<1>l. ASSUME pc[s] \in {"del_rtoken", "del_wtoken"}
      PROVE  /\ rights[s] # <<>> /\ Head(rights[s]) \in Node /\ Head(rights[s]).user \in Users
             /\ Tail(rights[s]) \in Seq(Node)
             /\ \A j \in 1..Len(Tail(rights[s])) : Tail(rights[s])[j].rtoken # None
  <2>1. rights[s] # <<>>
    BY <1>l DEF TypeInv, Shape, ListShape
  <2>2. /\ Head(rights[s]) \in Node /\ Tail(rights[s]) \in Seq(Node)
        /\ \A j \in 1..Len(Tail(rights[s])) : Tail(rights[s])[j].rtoken # None
    BY <1>b, <2>1, RestOfList
  <2> QED
    BY <2>1, <2>2 DEF Node
<1>6. CASE DelNodeRtoken(s)
  <2>1. pc[s] = "del_rtoken"
    BY <1>6 DEF DelNodeRtoken
  <2>2. KeyStoreStep
    BY <1>b, <1>l, <1>6, <2>1 DEF DelNodeRtoken, KeyStoreStep
  <2>3. CASE Return(s)
    BY <1>2, <2>2, <2>3
  <2>4. CASE ForEach(s, Tail(rights[s]), "del_rtoken")
    BY <1>3, <1>l, <2>1, <2>2, <2>4
  <2>5. CASE /\ Head(rights[s]).wtoken # None /\ Goto(s, "del_wtoken")
             /\ UNCHANGED <<req, bl, rights, it>>
    <3>1. rights' = [rights EXCEPT ![s] = rights[s]]
      BY <2>5 DEF TypeInv, TypeOK
    <3>2. pc' = [pc EXCEPT ![s] = "del_wtoken"]
      BY <2>5 DEF Goto
    <3> QED
      BY <1>b, <1>l, <1>1, <2>1, <2>2, <2>5, <3>1, <3>2
  <2> QED
    BY <1>6, <2>3, <2>4, <2>5 DEF DelNodeRtoken
<1>7. CASE DelNodeWtoken(s)
  <2>1. pc[s] = "del_wtoken"
    BY <1>7 DEF DelNodeWtoken
  <2>2. KeyStoreStep
    BY <1>b, <1>l, <1>7, <2>1 DEF DelNodeWtoken, KeyStoreStep
  <2>3. Return(s) \/ ForEach(s, Tail(rights[s]), "del_rtoken")
    BY <1>7 DEF DelNodeWtoken
  <2> QED
    BY <1>l, <1>2, <1>3, <2>1, <2>2, <2>3
<1> QED
  BY <1>4, <1>5, <1>6, <1>7

LEMMA ShareType ==
    ASSUME TypeInv, NEW s \in Sessions, Step(s),
           GrantRead(s) \/ GrantUpdate(s) \/ DenyWtoken(s) \/ DenyRtoken(s)
    PROVE  TypeInv'
<1>f. Frame(s)
  BY StepFrame DEF TypeInv
<1>u. UserOf[s] \in Users
  BY SessionsAssumption, RegisteredAssumption
<1>b. /\ pc[s] \in Sharing /\ req[s].block \in Blocks /\ req[s].for \in Users
      /\ bl[s].rtoken \in Token /\ bl[s].data \in Contents
  BY DEF TypeInv, Shape, RequestShape, BlockShape, Loading, Sharing,
     GrantRead, GrantUpdate, DenyWtoken, DenyRtoken
<1>o. DataStoreTypeOK' /\ OtherType'
  <2>1. /\ UNCHANGED <<ds, ksUp, nextKey, reborn>>
        /\ readers' \in {readers, [readers EXCEPT ![req[s].block] = @ \cup {req[s].for}]}
        /\ writers' \in {writers, [writers EXCEPT ![req[s].block] = @ \cup {req[s].for}]}
    BY DEF GrantRead, GrantUpdate, DenyWtoken, DenyRtoken, historyVars
  <2>2. /\ readers[req[s].block] \cup {req[s].for} \in SUBSET Users
        /\ writers[req[s].block] \cup {req[s].for} \in SUBSET Users
    BY <1>b DEF TypeInv, TypeOK
  <2>3. readers' \in [Blocks -> SUBSET Users]
    BY <2>1, <2>2 DEF TypeInv, TypeOK
  <2>4. writers' \in [Blocks -> SUBSET Users]
    BY <2>1, <2>2 DEF TypeInv, TypeOK
  <2> QED
    BY <2>1, <2>3, <2>4 DEF TypeInv, TypeOK, DataStoreTypeOK, OtherType
<1>k. KeyStoreStep
  <2>1. CASE GrantRead(s)
    <3>1. TokenForUser(bl[s].rtoken, UserOf[s], req[s].for) \in Token
      BY <1>b, <1>u, TokenTypes
    <3> QED
      BY <1>b, <2>1, <3>1 DEF GrantRead, KeyStoreStep
  <2>2. CASE GrantUpdate(s)
    <3>1. bl[s].wtoken # None => TokenForUser(bl[s].wtoken, UserOf[s], req[s].for) \in Token
      BY <1>b, <1>u, TokenTypes DEF TypeInv, TypeOK, BlockObject, MaybeToken
    <3> QED
      BY <1>b, <2>2, <3>1 DEF GrantUpdate, KeyStoreStep
  <2>3. CASE DenyWtoken(s)
    BY <1>b, <2>3 DEF DenyWtoken, KeyStoreStep
  <2>4. CASE DenyRtoken(s)
    BY <1>b, <2>4 DEF DenyRtoken, KeyStoreStep
  <2> QED
    BY <2>1, <2>2, <2>3, <2>4
<1>t. KeyStoreTypeOK'
  BY <1>k, KeyStoreStepType DEF TypeInv, TypeOK
<1>1. CASE Return(s)
  BY <1>o, <1>t, <1>1, ReturnsType
<1>2. CASE ~Return(s)
  <2>1. Goto(s, "deny_rtoken") /\ UNCHANGED <<req, bl, rights, it>>
    BY <1>2 DEF GrantRead, GrantUpdate, DenyWtoken, DenyRtoken
  <2>2. SessionType'
    BY <2>1 DEF TypeInv, TypeOK, SessionType, Goto, Labels
  <2>3. pc'[s] = "deny_rtoken" /\ req'[s] = req[s] /\ bl'[s] = bl[s] /\ rights'[s] = rights[s]
    BY <2>1 DEF TypeInv, TypeOK, Goto
  <2>4. RequestShape(s)' /\ BlockShape(s)' /\ ListShape(s)'
    BY <1>b, <2>3 DEF TypeInv, Shape, RequestShape, BlockShape, ListShape,
       Loading, Listing, Writing, Removing, Sharing
  <2> QED
    BY <1>f, <1>o, <1>t, <2>2, <2>4, GoesOnType
<1> QED
  BY <1>1, <1>2

LEMMA FaultType ==
    ASSUME TypeInv, NEW s \in Sessions, Restart(s) \/ KeyStoreDown(s)
    PROVE  TypeInv'
<1>o. KeyStoreTypeOK' /\ DataStoreTypeOK' /\ OtherType'
  BY DEF TypeInv, TypeOK, OtherType, Restart, KeyStoreDown, ksVars, historyVars,
     KeyStoreTypeOK, DataStoreTypeOK
<1>1. CASE Restart(s)
  BY <1>o, <1>1, ReturnsType DEF Restart
<1>2. CASE KeyStoreDown(s)
  <2>1. UNCHANGED <<pc, req, bl, rights, it>>
    BY <1>2 DEF KeyStoreDown
  <2>2. TypeOK'
    BY <1>o, <2>1 DEF TypeInv, TypeOK, OtherType
  <2>3. Shape'
    BY <2>1 DEF TypeInv, Shape, RequestShape, BlockShape, ListShape
  <2> QED
    BY <2>2, <2>3 DEF TypeInv
<1> QED
  BY <1>1, <1>2

LEMMA NextType == TypeInv /\ [Next]_vars => TypeInv'
<1>1. ASSUME TypeInv, UNCHANGED vars
      PROVE  TypeInv'
  BY <1>1 DEF vars, TypeInv, TypeOK, KeyStoreTypeOK, DataStoreTypeOK, Shape, RequestShape,
     BlockShape, ListShape
<1>2. ASSUME TypeInv, NEW s \in Sessions, Step(s)
      PROVE  TypeInv'
  BY <1>2, LoadType, LocalType, ListType, SaveType, RemoveType, ShareType DEF Step
<1> QED
  BY <1>1, <1>2, CallType, FaultType DEF Next

\* Every state of every behaviour is well typed, whatever the sessions, the
\* workload and the faults.
THEOREM TypeCorrect == Spec => []TypeOK
<1>1. TypeInv => TypeOK
  BY DEF TypeInv
<1> QED
  BY <1>1, InitType, NextType, PTL DEF Spec

\* The code between two remote calls never dereferences a token, user, block
\* or list node it does not have: what a session holds at each label is what
\* the label's handler uses.
THEOREM CallsWellFormed == Spec => []Shape
<1>1. TypeInv => Shape
  BY DEF TypeInv
<1> QED
  BY <1>1, InitType, NextType, PTL DEF Spec

\* The inductive invariant, for the proofs that build on it.
THEOREM TypeInvariant == Spec => []TypeInv
  BY InitType, NextType, PTL DEF Spec

-----------------------------------------------------------------------------
\* Who the key store holds tokens for.  Tokens are remade and passed on by create, update,
\* rotate and grant, read back through an iterator whose list may be stale, and saved
\* later; the invariant follows every copy.
\*
\* The inductive invariant, part 2: every copy of a token, wherever it is.

\* A copy of a token that u may hold: it opens for u, and u is one of the
\* users that were given its key.
Held(t, u, given) == t # None => Opens(t, u) /\ u \in given

StoreAccess ==
    \A b \in Blocks, u \in Users :
        /\ Held(rtok[b][u], u, readers[b])
        /\ Held(wtok[b][u], u, writers[b])
        /\ rtok[b][u] # None \/ wtok[b][u] # None => u \in dirs[b]
        /\ u \in dirs[b] => HasPublicKey(u)

\* A create call that has not stored its block yet.
Creating(s) == req[s].op = "create" /\ pc[s] = "set_block"

\* The tokens of the block object, of the iterator and of the rights list.
OwnAccess(s) ==
    /\ pc[s] = "idle" => bl[s] = NoBlock /\ rights[s] = <<>>
    /\ pc[s] \notin {"idle", "aborted"} =>
          /\ bl[s].rtoken # None => Opens(bl[s].rtoken, UserOf[s])
          /\ bl[s].wtoken # None => Opens(bl[s].wtoken, UserOf[s])
    /\ pc[s] \notin {"idle", "aborted"} /\ ~Creating(s) =>
          /\ bl[s].rtoken # None => UserOf[s] \in readers[req[s].block]
          /\ bl[s].wtoken # None => UserOf[s] \in writers[req[s].block]

NodeAccess(n, b) ==
    /\ HasPublicKey(n.user)
    /\ Held(n.rtoken, n.user, readers[b])
    /\ Held(n.wtoken, n.user, writers[b])

ListAccess(s) ==
    /\ pc[s] \in Listing => Held(it[s].rtoken, it[s].user, readers[req[s].block])
    /\ pc[s] \notin {"idle", "aborted"} =>
          \A j \in 1..Len(rights[s]) : NodeAccess(rights[s][j], req[s].block)

AccessInv ==
    /\ StoreAccess
    /\ \A s \in Sessions : OwnAccess(s) /\ ListAccess(s)

\* Nobody is ever struck off the lists of users given a key.
Growing ==
    \A b \in Blocks : readers[b] \subseteq readers'[b] /\ writers[b] \subseteq writers'[b]

\* Every token that is stored is one its new holder may hold.
AccessStep ==
    \/ UNCHANGED ksVars
    \/ \E b \in Blocks, u \in Users :
          \/ \E t \in Token :
                /\ HasPublicKey(u)
                /\ \/ SetRtoken(b, u, t) /\ Held(t, u, readers'[b])
                   \/ SetWtoken(b, u, t) /\ Held(t, u, writers'[b])
          \/ DelRtoken(b, u)
          \/ DelWtoken(b, u)

LEMMA NewTokensHeld ==
    /\ \A k \in Nat, u \in Users : Opens(TokenGenerate(k, u), u)
    /\ \A t \in Token, u, v \in Users : Opens(TokenForUser(t, u, v), v)
  BY DEF Opens, TokenGenerate, TokenForUser

LEMMA InitAccess == Init => AccessInv
  BY DEF Init, KeyStoreInit, AccessInv, StoreAccess, OwnAccess, ListAccess, Held, Listing,
     NoBlock

LEMMA StoreStep ==
    ASSUME TypeInv, StoreAccess, Growing, AccessStep
    PROVE  StoreAccess'
<1> USE DEF TypeInv, TypeOK, KeyStoreTypeOK, StoreAccess, Held, Growing
<1> SUFFICES ASSUME NEW c \in Blocks, NEW v \in Users
             PROVE  /\ Held(rtok'[c][v], v, readers'[c])
                    /\ Held(wtok'[c][v], v, writers'[c])
                    /\ rtok'[c][v] # None \/ wtok'[c][v] # None => v \in dirs'[c]
                    /\ v \in dirs'[c] => HasPublicKey(v)
  BY DEF HasPublicKey, Opens
<1>1. CASE UNCHANGED ksVars
  BY <1>1 DEF ksVars
<1>2. ASSUME NEW b \in Blocks, NEW u \in Users, NEW t \in Token, HasPublicKey(u),
             SetRtoken(b, u, t), Held(t, u, readers'[b])
      PROVE  /\ Held(rtok'[c][v], v, readers'[c])
             /\ Held(wtok'[c][v], v, writers'[c])
             /\ rtok'[c][v] # None \/ wtok'[c][v] # None => v \in dirs'[c]
             /\ v \in dirs'[c] => HasPublicKey(v)
  <2>1. /\ wtok' = wtok
        /\ rtok'[c][v] = IF c = b /\ v = u THEN t ELSE rtok[c][v]
        /\ dirs'[c] = IF c = b THEN dirs[c] \cup {u} ELSE dirs[c]
    BY <1>2 DEF SetRtoken
  <2> QED
    BY <1>2, <2>1
<1>3. ASSUME NEW b \in Blocks, NEW u \in Users, NEW t \in Token, HasPublicKey(u),
             SetWtoken(b, u, t), Held(t, u, writers'[b])
      PROVE  /\ Held(rtok'[c][v], v, readers'[c])
             /\ Held(wtok'[c][v], v, writers'[c])
             /\ rtok'[c][v] # None \/ wtok'[c][v] # None => v \in dirs'[c]
             /\ v \in dirs'[c] => HasPublicKey(v)
  <2>1. /\ rtok' = rtok
        /\ wtok'[c][v] = IF c = b /\ v = u THEN t ELSE wtok[c][v]
        /\ dirs'[c] = IF c = b THEN dirs[c] \cup {u} ELSE dirs[c]
    BY <1>3 DEF SetWtoken
  <2> QED
    BY <1>3, <2>1
<1>4. ASSUME NEW b \in Blocks, NEW u \in Users, DelRtoken(b, u)
      PROVE  /\ Held(rtok'[c][v], v, readers'[c])
             /\ Held(wtok'[c][v], v, writers'[c])
             /\ rtok'[c][v] # None \/ wtok'[c][v] # None => v \in dirs'[c]
             /\ v \in dirs'[c] => HasPublicKey(v)
  <2>1. /\ rtok'[c][v] = IF c = b /\ v = u THEN None ELSE rtok[c][v]
        /\ wtok'[c][v] = IF c = b /\ v = u THEN None ELSE wtok[c][v]
        /\ dirs'[c] = IF c = b THEN dirs[c] \ {u} ELSE dirs[c]
    BY <1>4 DEF DelRtoken
  <2> QED
    BY <2>1
<1>5. ASSUME NEW b \in Blocks, NEW u \in Users, DelWtoken(b, u)
      PROVE  /\ Held(rtok'[c][v], v, readers'[c])
             /\ Held(wtok'[c][v], v, writers'[c])
             /\ rtok'[c][v] # None \/ wtok'[c][v] # None => v \in dirs'[c]
             /\ v \in dirs'[c] => HasPublicKey(v)
  <2>1. /\ rtok' = rtok /\ dirs' = dirs
        /\ wtok'[c][v] = IF c = b /\ v = u THEN None ELSE wtok[c][v]
    BY <1>5 DEF DelWtoken
  <2> QED
    BY <2>1
<1> QED
  BY <1>1, <1>2, <1>3, <1>4, <1>5 DEF AccessStep

\* The sessions that do not move keep what they may hold.
LEMMA OthersAccess ==
    ASSUME TypeInv, AccessInv, Growing, NEW s \in Sessions, Frame(s),
           NEW r \in Sessions, r # s
    PROVE  OwnAccess(r)' /\ ListAccess(r)'
<1>1. /\ pc'[r] = pc[r] /\ req'[r] = req[r] /\ bl'[r] = bl[r]
      /\ rights'[r] = rights[r] /\ it'[r] = it[r]
  BY DEF Frame
<1>2. pc[r] \notin {"idle", "aborted"} =>
         /\ readers[req[r].block] \subseteq readers'[req[r].block]
         /\ writers[req[r].block] \subseteq writers'[req[r].block]
  BY DEF TypeInv, Shape, RequestShape, Growing
<1>3. OwnAccess(r)'
  BY <1>1, <1>2 DEF AccessInv, OwnAccess, Creating, Opens
<1>4. ListAccess(r)'
  BY <1>1, <1>2 DEF AccessInv, ListAccess, NodeAccess, Held, Opens, HasPublicKey, Listing
<1> QED
  BY <1>3, <1>4

\* What is left to show of a step of s, when its call goes on ...
LEMMA GoesOnAccess ==
    ASSUME TypeInv, AccessInv, NEW s \in Sessions, Frame(s), Growing, AccessStep,
           OwnAccess(s)', ListAccess(s)'
    PROVE  AccessInv'
<1>1. StoreAccess'
  BY StoreStep DEF AccessInv
<1>2. ASSUME NEW r \in Sessions PROVE OwnAccess(r)' /\ ListAccess(r)'
  BY OthersAccess
<1> QED
  BY <1>1, <1>2 DEF AccessInv

\* ... and when it returns.
LEMMA ReturnsAccess ==
    ASSUME TypeInv, AccessInv, NEW s \in Sessions, Frame(s), Growing, AccessStep, Return(s)
    PROVE  AccessInv'
<1>1. pc'[s] = "idle" /\ bl'[s] = NoBlock /\ rights'[s] = <<>>
  BY DEF TypeInv, TypeOK, Return
<1>2. OwnAccess(s)' /\ ListAccess(s)'
  BY <1>1 DEF OwnAccess, ListAccess, Listing
<1> QED
  BY <1>2, GoesOnAccess

-----------------------------------------------------------------------------
\* Every action preserves AccessInv.

\* What a working session knows of its own tokens.
LEMMA OwnFacts ==
    ASSUME TypeInv, AccessInv, NEW s \in Sessions, pc[s] \notin {"idle", "aborted"}
    PROVE  /\ UserOf[s] \in Users /\ HasPublicKey(UserOf[s])
           /\ req[s].block \in Blocks
           /\ bl[s].rtoken # None => Opens(bl[s].rtoken, UserOf[s])
           /\ bl[s].wtoken # None => Opens(bl[s].wtoken, UserOf[s])
           /\ ~Creating(s) =>
                 /\ Held(bl[s].rtoken, UserOf[s], readers[req[s].block])
                 /\ Held(bl[s].wtoken, UserOf[s], writers[req[s].block])
           /\ \A j \in 1..Len(rights[s]) : NodeAccess(rights[s][j], req[s].block)
<1>1. UserOf[s] \in Users /\ HasPublicKey(UserOf[s])
  BY SessionsAssumption, RegisteredAssumption DEF HasPublicKey
<1>2. req[s].block \in Blocks
  BY DEF TypeInv, Shape, RequestShape
<1> QED
  BY <1>1, <1>2 DEF AccessInv, OwnAccess, ListAccess, Held

LEMMA CallAccess ==
    ASSUME TypeInv, AccessInv, NEW s \in Sessions, Call(s)
    PROVE  AccessInv'
<1>f. Frame(s)
  BY CallFrame DEF TypeInv
<1>k. UNCHANGED ksVars /\ UNCHANGED historyVars /\ UNCHANGED rights /\ pc[s] = "idle"
  BY DEF Call, CreateBlock, Load, ReadBlock, UpdateBlock, DeleteBlock, RotateBlock,
     GrantReadAccess, GrantUpdateAccess, DenyReadAccess, DenyUpdateAccess
<1>g. Growing /\ AccessStep
  BY <1>k DEF Growing, AccessStep, historyVars
<1>r. rights'[s] = <<>> /\ bl[s] = NoBlock
  BY <1>k DEF AccessInv, OwnAccess
<1>1. CASE CreateBlock(s)
  <2>1. /\ pc'[s] = "set_block" /\ req'[s].op = "create"
        /\ bl'[s].rtoken = TokenGenerate(nextKey, UserOf[s])
        /\ bl'[s].wtoken = TokenGenerate(nextKey + 1, UserOf[s])
    BY <1>1 DEF CreateBlock, NewBlock, Goto, TypeInv, TypeOK
  <2>2. nextKey \in Nat /\ nextKey + 1 \in Nat /\ UserOf[s] \in Users
    BY SessionsAssumption, RegisteredAssumption DEF TypeInv, TypeOK
  <2>3. OwnAccess(s)'
    BY <2>1, <2>2, NewTokensHeld DEF OwnAccess, Creating, Opens
  <2>4. ListAccess(s)'
    BY <1>r, <2>1 DEF ListAccess, Listing
  <2> QED
    BY <1>f, <1>g, <2>3, <2>4, GoesOnAccess
<1>2. CASE ~CreateBlock(s)
  <2>1. pc'[s] = "get_rtoken" /\ bl'[s] = NoBlock
    BY <1>2, <1>r DEF Call, Load, ReadBlock, UpdateBlock, DeleteBlock, RotateBlock, Goto, TypeInv,
       TypeOK, GrantReadAccess, GrantUpdateAccess, DenyReadAccess, DenyUpdateAccess
  <2>2. OwnAccess(s)' /\ ListAccess(s)'
    BY <1>r, <2>1 DEF OwnAccess, ListAccess, NoBlock, Listing, Creating
  <2> QED
    BY <1>f, <1>g, <2>2, GoesOnAccess
<1> QED
  BY <1>1, <1>2

LEMMA LoadAccess ==
    ASSUME TypeInv, AccessInv, NEW s \in Sessions, Step(s),
           LoadRtoken(s) \/ LoadWtoken(s) \/ GetBlock(s) \/ Update(s)
    PROVE  AccessInv'
<1>f. Frame(s)
  BY StepFrame DEF TypeInv
<1>k. UNCHANGED ksVars /\ UNCHANGED historyVars
  BY DEF LoadRtoken, LoadWtoken, GetBlock, Update
<1>g. Growing /\ AccessStep
  BY <1>k DEF Growing, AccessStep, historyVars
<1>1. CASE Return(s)
  BY <1>f, <1>g, <1>1, ReturnsAccess
<1>2. CASE ~Return(s)
  <2> DEFINE b == req[s].block
             u == UserOf[s]
  <2>1. pc[s] \in Loading \cup {"update"}
    BY DEF LoadRtoken, LoadWtoken, GetBlock, Update, Loading
  <2>2. ~Creating(s) /\ pc[s] \notin {"idle", "aborted"}
    BY <2>1 DEF Creating, Loading
  <2>3. /\ b \in Blocks /\ u \in Users
        /\ Held(bl[s].rtoken, u, readers[b]) /\ Held(bl[s].wtoken, u, writers[b])
        /\ \A j \in 1..Len(rights[s]) : NodeAccess(rights[s][j], b)
    BY <2>2, OwnFacts
  <2>4. Held(Rtoken(s, b, u), u, readers[b]) /\ Held(Wtoken(s, b, u), u, writers[b])
    BY <2>3 DEF AccessInv, StoreAccess, Held, Rtoken, Wtoken
  <2>5. UNCHANGED <<req, rights>>
    BY <1>2 DEF LoadRtoken, LoadWtoken, GetBlock, Update
  <2>6. /\ bl'[s].rtoken \in {bl[s].rtoken, Rtoken(s, b, u)}
        /\ bl'[s].wtoken \in {bl[s].wtoken, Wtoken(s, b, u)}
    <3>1. CASE LoadRtoken(s)
      BY <3>1 DEF LoadRtoken, TypeInv, TypeOK, BlockObject
    <3>2. CASE LoadWtoken(s)
      BY <1>2, <3>2 DEF LoadWtoken, TypeInv, TypeOK, BlockObject
    <3>3. CASE GetBlock(s)
      BY <1>2, <3>3 DEF GetBlock, TypeInv, TypeOK, BlockObject
    <3>4. CASE Update(s)
      BY <1>2, <3>4 DEF Update, TypeInv, TypeOK, BlockObject
    <3> QED
      BY <3>1, <3>2, <3>3, <3>4
  <2>7. pc'[s] \notin Listing /\ pc'[s] # "idle"
    <3>1. CASE LoadRtoken(s)
      BY <3>1 DEF LoadRtoken, Goto, Listing, TypeInv, TypeOK
    <3>2. CASE LoadWtoken(s)
      BY <1>2, <3>2 DEF LoadWtoken, Goto, Listing, TypeInv, TypeOK
    <3>3. CASE GetBlock(s)
      <4>1. req[s].op \in ApiCalls \ {"create", "read"} /\ pc'[s] = AfterLoad[req[s].op]
        BY <1>2, <3>3 DEF GetBlock, Goto, TypeInv, TypeOK, Shape, RequestShape, Loading
      <4> QED
        BY <4>1 DEF AfterLoad, ApiCalls, Listing
    <3>4. CASE Update(s)
      BY <1>2, <3>4 DEF Update, Goto, Listing, TypeInv, TypeOK
    <3> QED
      BY <3>1, <3>2, <3>3, <3>4
  <2>8. OwnAccess(s)'
    <3>1. UNCHANGED <<readers, writers>> /\ req'[s].block = b
      BY <1>k, <2>5 DEF historyVars
    <3>2. Held(bl'[s].rtoken, u, readers[b]) /\ Held(bl'[s].wtoken, u, writers[b])
      BY <2>3, <2>4, <2>6
    <3> QED
      BY <2>7, <3>1, <3>2 DEF OwnAccess, Held, Opens
  <2>9. ListAccess(s)'
    BY <1>k, <2>3, <2>5, <2>7 DEF ListAccess, NodeAccess, Held, Opens, HasPublicKey, historyVars
  <2> QED
    BY <1>f, <1>g, <2>8, <2>9, GoesOnAccess
<1> QED
  BY <1>1, <1>2

\* A rotation gives every user of the list a new copy of what it had.
LEMMA RewrapAccess ==
    ASSUME NEW list \in Seq(Node), NEW k \in Nat, NEW u \in Users, NEW b \in Blocks,
           \A j \in 1..Len(list) : list[j].rtoken # None /\ NodeAccess(list[j], b)
    PROVE  \A j \in 1..Len(list) : NodeAccess(Rewrap(list, k, u)[j], b)
<1> TAKE j \in 1..Len(list)
<1> DEFINE n == Rewrap(list, k, u)[j]
<1>1. list[j] \in Node /\ list[j].user \in Users
  <2>1. list[j] \in Node
    BY ElementOfSeq
  <2> QED
    BY <2>1 DEF Node
<1>2. /\ n.user = list[j].user
      /\ n.rtoken = TokenForUser(TokenGenerate(k, u), u, list[j].user)
      /\ n.wtoken = IF list[j].wtoken = None THEN None
                    ELSE TokenForUser(TokenGenerate(k + 1, u), u, list[j].user)
  BY <1>1 DEF Rewrap, Node
<1>3. TokenGenerate(k, u) \in Token /\ TokenGenerate(k + 1, u) \in Token
  BY TokenTypes
<1>4. Opens(n.rtoken, n.user) /\ (n.wtoken # None => Opens(n.wtoken, n.user))
  BY <1>1, <1>2, <1>3, NewTokensHeld
<1>5. NodeAccess(list[j], b) /\ list[j].rtoken # None
  OBVIOUS
<1> HIDE DEF n
<1>6. n.user \in readers[b] /\ HasPublicKey(n.user)
  BY <1>2, <1>5 DEF NodeAccess, Held
<1>7. n.wtoken # None => n.user \in writers[b]
  BY <1>2, <1>5 DEF NodeAccess, Held
<1>8. NodeAccess(n, b)
  BY <1>4, <1>6, <1>7 DEF NodeAccess, Held
<1> QED
  BY <1>8 DEF n

LEMMA RotateAccess ==
    ASSUME TypeInv, AccessInv, NEW s \in Sessions, Step(s), Rotate(s)
    PROVE  AccessInv'
<1>f. Frame(s)
  BY StepFrame DEF TypeInv
<1>k. UNCHANGED ksVars /\ UNCHANGED historyVars
  BY DEF Rotate
<1>g. Growing /\ AccessStep
  BY <1>k DEF Growing, AccessStep, historyVars
<1> DEFINE b == req[s].block
           u == UserOf[s]
           k == req[s].key
<1>1. /\ pc[s] = "rotate" /\ ~Creating(s) /\ k \in Nat /\ k + 1 \in Nat
      /\ bl[s].rtoken # None /\ bl[s].wtoken # None /\ rights[s] \in Seq(Node)
      /\ \A j \in 1..Len(rights[s]) : rights[s][j].rtoken # None
  <2>1. pc[s] = "rotate" /\ ~Creating(s)
    BY DEF Rotate, Creating
  <2>2. k \in Nat /\ k + 1 \in Nat /\ rights[s] \in Seq(Node)
    BY DEF TypeInv, TypeOK, Request
  <2>3. bl[s].rtoken \in Token /\ bl[s].wtoken \in Token
    BY <2>1 DEF TypeInv, Shape, BlockShape, Writing
  <2>4. \A j \in 1..Len(rights[s]) : rights[s][j].rtoken # None
    BY DEF TypeInv, Shape, ListShape
  <2> QED
    BY <2>1, <2>2, <2>3, <2>4, NoneLemma
<1>2. /\ b \in Blocks /\ u \in Users
      /\ u \in readers[b] /\ u \in writers[b]
      /\ \A j \in 1..Len(rights[s]) : NodeAccess(rights[s][j], b)
  BY <1>1, OwnFacts DEF Held
<1>3. /\ pc'[s] = "set_block" /\ req'[s] = req[s] /\ UNCHANGED <<readers, writers>>
      /\ bl'[s].rtoken = TokenGenerate(k, u) /\ bl'[s].wtoken = TokenGenerate(k + 1, u)
      /\ rights'[s] = Rewrap(rights[s], k, u)
  BY <1>k DEF Rotate, Goto, TypeInv, TypeOK, BlockObject, historyVars
<1>4. OwnAccess(s)'
  <2>1. Opens(bl'[s].rtoken, u) /\ Opens(bl'[s].wtoken, u)
    BY <1>1, <1>2, <1>3, NewTokensHeld
  <2> QED
    BY <1>2, <1>3, <2>1 DEF OwnAccess, Opens
<1>5. ListAccess(s)'
  <2>1. Len(rights'[s]) = Len(rights[s])
    BY <1>1, <1>2, <1>3, RewrapType
  <2>2. \A j \in 1..Len(rights[s]) : NodeAccess(rights'[s][j], b)
    BY <1>1, <1>2, <1>3, RewrapAccess
  <2> QED
    BY <1>3, <2>1, <2>2 DEF ListAccess, Listing, NodeAccess, Held, Opens, HasPublicKey
<1> QED
  BY <1>f, <1>g, <1>4, <1>5, GoesOnAccess

LEMMA ListingAccess ==
    ASSUME TypeInv, AccessInv, NEW s \in Sessions, Step(s),
           Iterate(s) \/ NodeRtoken(s) \/ NodeWtoken(s) \/ IteratorNext(s)
    PROVE  AccessInv'
<1>f. Frame(s)
  BY StepFrame DEF TypeInv
<1>k. UNCHANGED ksVars /\ UNCHANGED historyVars
  BY DEF Iterate, NodeRtoken, NodeWtoken, IteratorNext
<1>g. Growing /\ AccessStep
  BY <1>k DEF Growing, AccessStep, historyVars
<1>1. CASE Return(s)
  BY <1>f, <1>g, <1>1, ReturnsAccess
<1>2. CASE ~Return(s)
  <2> DEFINE b == req[s].block
             u == UserOf[s]
  <2>1. pc[s] \in Listing \cup {"iterate"}
    BY DEF Iterate, NodeRtoken, NodeWtoken, IteratorNext, Listing
  <2>2. ~Creating(s) /\ pc[s] \notin {"idle", "aborted"}
    BY <2>1 DEF Creating, Listing
  <2>3. /\ b \in Blocks /\ u \in Users
        /\ Held(bl[s].rtoken, u, readers[b]) /\ Held(bl[s].wtoken, u, writers[b])
        /\ \A j \in 1..Len(rights[s]) : NodeAccess(rights[s][j], b)
    BY <2>2, OwnFacts
  <2>4. UNCHANGED <<req, bl, readers, writers>>
    BY <1>k, <1>2 DEF Iterate, NodeRtoken, NodeWtoken, IteratorNext, historyVars
  <2>5. pc'[s] # "idle"
    <3>1. CASE Iterate(s)
      BY <1>2, <3>1 DEF Iterate, Visit, Goto, TypeInv, TypeOK
    <3>2. CASE NodeRtoken(s) \/ NodeWtoken(s)
      BY <1>2, <3>2 DEF NodeRtoken, NodeWtoken, Goto, TypeInv, TypeOK
    <3>3. CASE IteratorNext(s)
      BY <3>3 DEF IteratorNext, Visit, Goto, TypeInv, TypeOK
    <3> QED
      BY <3>1, <3>2, <3>3
  <2>6. OwnAccess(s)'
    BY <2>3, <2>4, <2>5 DEF OwnAccess, Held, Opens
  <2>7. \A j \in 1..Len(rights'[s]) : NodeAccess(rights'[s][j], b)
    <3>1. CASE UNCHANGED rights
      BY <2>3, <3>1
    <3>2. CASE rights' = [rights EXCEPT ![s] = <<>>]
      <4>1. rights'[s] = <<>>
        BY <3>2 DEF TypeInv, TypeOK
      <4> QED
        BY <4>1
    <3>3. CASE /\ NodeWtoken(s) /\ NodeLoaded(s)
               /\ rights' = [rights EXCEPT ![s] = Append(@,
                    [user |-> it[s].user, rtoken |-> it[s].rtoken,
                     wtoken |-> Wtoken(s, b, it[s].user)])]
      <4> DEFINE n == [user |-> it[s].user, rtoken |-> it[s].rtoken,
                       wtoken |-> Wtoken(s, b, it[s].user)]
      <4>1. pc[s] = "node_wtoken" /\ it[s].user \in Users
        BY <3>3 DEF NodeWtoken, TypeInv, Shape, ListShape, Listing
      <4>2. Held(it[s].rtoken, it[s].user, readers[b])
        BY <4>1 DEF AccessInv, ListAccess, Listing
      <4>3. Held(Wtoken(s, b, it[s].user), it[s].user, writers[b])
        BY <2>3, <4>1 DEF AccessInv, StoreAccess, Held, Wtoken
      <4>4. NodeAccess(n, b)
        BY <3>3, <4>2, <4>3 DEF NodeAccess, NodeLoaded
      <4>5. n \in Node
        <5>1. Wtoken(s, b, it[s].user) \in MaybeToken
          BY <2>3, <4>1 DEF TypeInv, TypeOK, KeyStoreTypeOK, Wtoken, MaybeToken
        <5> QED
          BY <4>1, <5>1 DEF Node, TypeInv, TypeOK, Iterator
      <4>6. rights[s] \in Seq(Node) /\ rights'[s] = Append(rights[s], n)
        BY <3>3 DEF TypeInv, TypeOK
      <4> HIDE DEF n
      <4>7. /\ Len(rights[s]) \in Nat
            /\ Len(rights'[s]) = Len(rights[s]) + 1
            /\ \A j \in 1..Len(rights[s]) : rights'[s][j] = rights[s][j]
            /\ rights'[s][Len(rights[s]) + 1] = n
        BY <4>5, <4>6, AppendProperties
      <4> TAKE j \in 1..Len(rights'[s])
      <4>8. j \in 1..Len(rights[s]) \/ j = Len(rights[s]) + 1
        BY <4>7
      <4> QED
        BY <2>3, <4>4, <4>7, <4>8
    <3> QED
      BY <1>2, <3>1, <3>2, <3>3 DEF Iterate, NodeRtoken, NodeWtoken, IteratorNext
  <2>8. pc'[s] \in Listing => Held(it'[s].rtoken, it'[s].user, readers[b])
    <3>1. ASSUME NEW i, NEW v, Visit(s, i, v)
          PROVE  it'[s].rtoken = None
      BY <3>1 DEF Visit, TypeInv, TypeOK
    <3>2. CASE Iterate(s)
      BY <1>2, <3>1, <3>2 DEF Iterate, Goto, Listing, Held, TypeInv, TypeOK
    <3>3. CASE NodeRtoken(s)
      <4>1. it[s].user \in Users
        BY <3>3 DEF NodeRtoken, TypeInv, Shape, ListShape, Listing
      <4>2. it'[s].user = it[s].user /\ it'[s].rtoken = Rtoken(s, b, it[s].user)
        BY <3>3 DEF NodeRtoken, TypeInv, TypeOK, Iterator
      <4> QED
        BY <2>3, <4>1, <4>2 DEF AccessInv, StoreAccess, Held, Rtoken
    <3>4. CASE NodeWtoken(s)
      <4>1. pc[s] = "node_wtoken"
        BY <3>4 DEF NodeWtoken
      <4>2. Held(it[s].rtoken, it[s].user, readers[b])
        BY <4>1 DEF AccessInv, ListAccess, Listing
      <4>3. it'[s] = it[s] \/ pc'[s] = "rem_block"
        BY <1>2, <3>4 DEF NodeWtoken, Goto, TypeInv, TypeOK
      <4> QED
        BY <4>2, <4>3 DEF Listing
    <3>5. CASE IteratorNext(s)
      BY <3>1, <3>5 DEF IteratorNext, Goto, Listing, Held, TypeInv, TypeOK
    <3> QED
      BY <3>2, <3>3, <3>4, <3>5
  <2>9. ListAccess(s)'
    BY <2>4, <2>7, <2>8 DEF ListAccess, NodeAccess, Held, Opens, HasPublicKey, Listing
  <2> QED
    BY <1>f, <1>g, <2>6, <2>9, GoesOnAccess
<1> QED
  BY <1>1, <1>2

LEMMA SetBlockAccess ==
    ASSUME TypeInv, AccessInv, NEW s \in Sessions, Step(s), SetBlockCall(s)
    PROVE  AccessInv'
<1>f. Frame(s)
  BY StepFrame DEF TypeInv
<1> DEFINE b == req[s].block
           u == UserOf[s]
<1>1. /\ pc[s] = "set_block" /\ b \in Blocks /\ u \in Users
      /\ bl[s].rtoken # None => Opens(bl[s].rtoken, u)
      /\ bl[s].wtoken # None => Opens(bl[s].wtoken, u)
      /\ ~Creating(s) =>
            /\ Held(bl[s].rtoken, u, readers[b])
            /\ Held(bl[s].wtoken, u, writers[b])
      /\ \A j \in 1..Len(rights[s]) : NodeAccess(rights[s][j], b)
  BY OwnFacts DEF SetBlockCall
<1>g. Growing /\ AccessStep
  <2>1. AccessStep
    BY DEF SetBlockCall, AccessStep
  <2>2. /\ readers' \in {readers, [readers EXCEPT ![b] = @ \cup {u}]}
        /\ writers' \in {writers, [writers EXCEPT ![b] = @ \cup {u}]}
    BY DEF SetBlockCall, historyVars
  <2>3. Growing
    <3> SUFFICES ASSUME NEW c \in Blocks
                 PROVE  readers[c] \subseteq readers'[c] /\ writers[c] \subseteq writers'[c]
      BY DEF Growing
    <3>1. readers'[c] \in {readers[c], readers[c] \cup {u}}
      BY <1>1, <2>2 DEF TypeInv, TypeOK
    <3>2. writers'[c] \in {writers[c], writers[c] \cup {u}}
      BY <1>1, <2>2 DEF TypeInv, TypeOK
    <3> QED
      BY <3>1, <3>2
  <2> QED
    BY <2>1, <2>3
<1>2. CASE Return(s)
  BY <1>f, <1>g, <1>2, ReturnsAccess
<1>3. CASE ~Return(s)
  <2>1. /\ pc'[s] = "own_rtoken" /\ UNCHANGED <<req, rights>>
        /\ bl'[s].rtoken = bl[s].rtoken /\ bl'[s].wtoken = bl[s].wtoken
        /\ Creating(s) => u \in readers'[b] /\ u \in writers'[b]
    <3>1. /\ pc'[s] = "own_rtoken" /\ UNCHANGED <<req, rights>>
          /\ bl' = [bl EXCEPT ![s].old_mac = None]
      BY <1>3 DEF SetBlockCall, Goto, TypeInv, TypeOK
    <3>2. bl'[s].rtoken = bl[s].rtoken /\ bl'[s].wtoken = bl[s].wtoken
      BY <3>1 DEF TypeInv, TypeOK, BlockObject
    <3>3. Creating(s) => /\ readers' = [readers EXCEPT ![b] = @ \cup {u}]
                         /\ writers' = [writers EXCEPT ![b] = @ \cup {u}]
      BY <1>3 DEF SetBlockCall, Creating
    <3>4. Creating(s) => u \in readers'[b] /\ u \in writers'[b]
      BY <1>1, <3>3 DEF TypeInv, TypeOK
    <3> QED
      BY <3>1, <3>2, <3>4
  <2>2. readers[b] \subseteq readers'[b] /\ writers[b] \subseteq writers'[b]
    BY <1>1, <1>g DEF Growing
  <2>3. OwnAccess(s)'
    BY <1>1, <2>1, <2>2 DEF OwnAccess, Held, Opens
  <2>4. ListAccess(s)'
    BY <1>1, <2>1, <2>2 DEF ListAccess, NodeAccess, Held, Opens, HasPublicKey, Listing
  <2> QED
    BY <1>f, <1>g, <2>3, <2>4, GoesOnAccess
<1> QED
  BY <1>2, <1>3

\* A call that goes on with its block object and a part of its rights list.
LEMMA GoesOnSaving ==
    ASSUME TypeInv, AccessInv, NEW s \in Sessions, Frame(s), AccessStep,
           UNCHANGED <<req, bl, readers, writers>>,
           pc[s] \in Writing \cup Removing \cup Sharing, ~Creating(s),
           pc'[s] \in Writing \cup Removing \cup Sharing,
           \A j \in 1..Len(rights'[s]) : NodeAccess(rights'[s][j], req[s].block)
    PROVE  AccessInv'
<1>1. Growing
  BY DEF Growing
<1>2. pc[s] \notin {"idle", "aborted"} /\ pc'[s] \notin {"idle", "aborted"} \cup Listing
  BY DEF Writing, Removing, Sharing, Listing
<1>3. OwnAccess(s)'
  BY <1>2, OwnFacts DEF OwnAccess, Held, Opens
<1>4. ListAccess(s)'
  BY <1>2 DEF ListAccess, NodeAccess, Held, Opens, HasPublicKey
<1> QED
  BY <1>1, <1>3, <1>4, GoesOnAccess

LEMMA ForEachAccess ==
    ASSUME TypeInv, AccessInv, NEW s \in Sessions, Frame(s), AccessStep,
           UNCHANGED <<readers, writers>>,
           pc[s] \in Writing \cup Removing, ~Creating(s),
           NEW l \in {"save_rtoken", "del_rtoken"}, NEW list, ForEach(s, list, l),
           \A j \in 1..Len(list) : NodeAccess(list[j], req[s].block)
    PROVE  AccessInv'
<1>1. CASE Return(s)
  <2>1. Growing
    BY DEF Growing
  <2> QED
    BY <1>1, <2>1, ReturnsAccess
<1>2. CASE ~Return(s)
  <2>1. UNCHANGED <<req, bl>> /\ rights'[s] = list /\ pc'[s] = l
    BY <1>2 DEF ForEach, Goto, TypeInv, TypeOK
  <2>2. pc'[s] \in Writing \cup Removing \cup Sharing
    BY <2>1 DEF Writing, Removing
  <2> QED
    BY <2>1, <2>2, GoesOnSaving
<1> QED
  BY <1>1, <1>2

\* The users of the rest of the list are users of the list.
LEMMA RestAccess ==
    ASSUME NEW list \in Seq(Node), list # <<>>, NEW b,
           \A j \in 1..Len(list) : NodeAccess(list[j], b)
    PROVE  /\ Head(list) \in Node /\ Head(list).user \in Users /\ NodeAccess(Head(list), b)
           /\ \A j \in 1..Len(Tail(list)) : NodeAccess(Tail(list)[j], b)
<1>1. /\ Head(list) \in Node /\ Head(list) = list[1] /\ 1 \in 1..Len(list)
      /\ Tail(list) \in Seq(Node) /\ Len(Tail(list)) = Len(list) - 1
      /\ Len(list) \in Nat
      /\ \A j \in 1..Len(Tail(list)) : Tail(list)[j] = list[j + 1]
  BY HeadTailProperties
<1>2. \A j \in 1..Len(Tail(list)) : j + 1 \in 1..Len(list)
  BY <1>1
<1>3. Head(list).user \in Users
  BY <1>1 DEF Node
<1> QED
  BY <1>1, <1>2, <1>3

LEMMA SaveAccess ==
    ASSUME TypeInv, AccessInv, NEW s \in Sessions, Step(s),
           SaveOwnRtoken(s) \/ SaveOwnWtoken(s) \/ SaveNodeRtoken(s) \/ SaveNodeWtoken(s)
    PROVE  AccessInv'
<1>f. Frame(s)
  BY StepFrame DEF TypeInv
<1> DEFINE b == req[s].block
           u == UserOf[s]
           list == rights[s]
<1>1. /\ pc[s] \in {"own_rtoken", "own_wtoken", "save_rtoken", "save_wtoken"}
      /\ ~Creating(s) /\ UNCHANGED <<readers, writers>>
  BY DEF SaveOwnRtoken, SaveOwnWtoken, SaveNodeRtoken, SaveNodeWtoken, Creating, historyVars
<1>2. /\ b \in Blocks /\ u \in Users /\ HasPublicKey(u)
      /\ Held(bl[s].rtoken, u, readers[b]) /\ Held(bl[s].wtoken, u, writers[b])
      /\ \A j \in 1..Len(list) : NodeAccess(list[j], b)
  BY <1>1, OwnFacts
<1>3. bl[s].rtoken \in Token /\ bl[s].wtoken \in Token /\ pc[s] \in Writing
  BY <1>1 DEF TypeInv, Shape, BlockShape, Writing
<1>4. Growing
  BY <1>1 DEF Growing
<1>5. ASSUME AccessStep, Return(s)
      PROVE  AccessInv'
  BY <1>f, <1>4, <1>5, ReturnsAccess
<1>6. CASE SaveOwnRtoken(s)
  <2>1. AccessStep
    BY <1>1, <1>2, <1>3, <1>6 DEF SaveOwnRtoken, RtokenSaved, RtokenRefused, AccessStep
  <2>2. CASE Return(s)
    BY <1>5, <2>1, <2>2
  <2>3. CASE ~Return(s)
    <3>1. pc'[s] = "own_wtoken" /\ UNCHANGED <<req, bl, rights>>
      BY <1>6, <2>3 DEF SaveOwnRtoken, RtokenRefused, Goto, TypeInv, TypeOK
    <3>2. pc'[s] \in Writing
      BY <3>1 DEF Writing
    <3> QED
      BY <1>f, <1>1, <1>2, <1>3, <2>1, <3>1, <3>2, GoesOnSaving
  <2> QED
    BY <2>2, <2>3
<1>7. CASE SaveOwnWtoken(s)
  <2>1. AccessStep
    BY <1>1, <1>2, <1>3, <1>7 DEF SaveOwnWtoken, WtokenSaved, WtokenRefused, AccessStep
  <2>2. Return(s) \/ ForEach(s, list, "save_rtoken")
    BY <1>7 DEF SaveOwnWtoken, WtokenRefused
  <2> QED
    BY <1>f, <1>1, <1>2, <1>3, <1>5, <2>1, <2>2, ForEachAccess
<1>l. ASSUME pc[s] \in {"save_rtoken", "save_wtoken"}
      PROVE  /\ Head(list) \in Node /\ Head(list).user \in Users /\ NodeAccess(Head(list), b)
             /\ \A j \in 1..Len(Tail(list)) : NodeAccess(Tail(list)[j], b)
             /\ Head(list).rtoken \in Token
             /\ pc[s] = "save_wtoken" => Head(list).wtoken \in Token
  <2>1. /\ list # <<>> /\ list \in Seq(Node)
        /\ \A j \in 1..Len(list) : list[j].rtoken # None
        /\ pc[s] = "save_wtoken" => Head(list).wtoken # None
    BY <1>l DEF TypeInv, TypeOK, Shape, ListShape
  <2>2. Head(list).rtoken \in Token
    BY <2>1, RestOfList
  <2>3. /\ Head(list) \in Node /\ Head(list).user \in Users /\ NodeAccess(Head(list), b)
        /\ \A j \in 1..Len(Tail(list)) : NodeAccess(Tail(list)[j], b)
    BY <1>2, <2>1, RestAccess
  <2> QED
    BY <2>1, <2>2, <2>3 DEF Node, MaybeToken
<1>8. CASE SaveNodeRtoken(s)
  <2>0. pc[s] = "save_rtoken"
    BY <1>8 DEF SaveNodeRtoken
  <2>1. AccessStep
    <3>1. HasPublicKey(Head(list).user) /\ Held(Head(list).rtoken, Head(list).user, readers'[b])
      BY <1>l, <1>1, <2>0 DEF NodeAccess
    <3> QED
      BY <1>l, <1>2, <1>8, <2>0, <3>1 DEF SaveNodeRtoken, RtokenSaved, RtokenRefused, AccessStep
  <2>2. CASE Return(s)
    BY <1>5, <2>1, <2>2
  <2>3. CASE ForEach(s, Tail(list), "save_rtoken")
    BY <1>f, <1>l, <1>1, <1>3, <2>0, <2>1, <2>3, ForEachAccess
  <2>4. CASE Goto(s, "save_wtoken") /\ UNCHANGED <<req, bl, rights>>
    <3>1. pc'[s] \in Writing
      BY <2>4 DEF Goto, Writing, TypeInv, TypeOK
    <3> QED
      BY <1>f, <1>1, <1>2, <1>3, <2>1, <2>4, <3>1, GoesOnSaving
  <2> QED
    BY <1>8, <2>2, <2>3, <2>4 DEF SaveNodeRtoken, RtokenRefused
<1>9. CASE SaveNodeWtoken(s)
  <2>0. pc[s] = "save_wtoken"
    BY <1>9 DEF SaveNodeWtoken
  <2>1. AccessStep
    <3>1. HasPublicKey(Head(list).user) /\ Held(Head(list).wtoken, Head(list).user, writers'[b])
      BY <1>l, <1>1, <2>0 DEF NodeAccess
    <3> QED
      BY <1>l, <1>2, <1>9, <2>0, <3>1 DEF SaveNodeWtoken, WtokenSaved, WtokenRefused, AccessStep
  <2>2. Return(s) \/ ForEach(s, Tail(list), "save_rtoken")
    BY <1>9 DEF SaveNodeWtoken, WtokenRefused
  <2> QED
    BY <1>f, <1>l, <1>1, <1>3, <1>5, <2>0, <2>1, <2>2, ForEachAccess
<1> QED
  BY <1>6, <1>7, <1>8, <1>9

LEMMA RemoveAccess ==
    ASSUME TypeInv, AccessInv, NEW s \in Sessions, Step(s),
           RemBlockCall(s) \/ DelOwnRtoken(s) \/ DelNodeRtoken(s) \/ DelNodeWtoken(s)
    PROVE  AccessInv'
<1>f. Frame(s)
  BY StepFrame DEF TypeInv
<1> DEFINE b == req[s].block
           u == UserOf[s]
           list == rights[s]
<1>1. /\ pc[s] \in Removing /\ ~Creating(s) /\ UNCHANGED <<readers, writers>>
  BY DEF RemBlockCall, DelOwnRtoken, DelNodeRtoken, DelNodeWtoken, Creating, Removing, historyVars
<1>2. /\ b \in Blocks /\ u \in Users
      /\ \A j \in 1..Len(list) : NodeAccess(list[j], b)
  BY <1>1, OwnFacts DEF Removing
<1>4. Growing
  BY <1>1 DEF Growing
<1>l. ASSUME pc[s] \in {"del_rtoken", "del_wtoken"}
      PROVE  /\ Head(list).user \in Users
             /\ \A j \in 1..Len(Tail(list)) : NodeAccess(Tail(list)[j], b)
  <2>1. list # <<>> /\ list \in Seq(Node)
    BY <1>l DEF TypeInv, TypeOK, Shape, ListShape
  <2> QED
    BY <1>2, <2>1, RestAccess
<1>5. AccessStep
  <2>1. CASE RemBlockCall(s)
    BY <2>1 DEF RemBlockCall, AccessStep
  <2>2. CASE DelOwnRtoken(s)
    BY <1>2, <2>2 DEF DelOwnRtoken, AccessStep
  <2>3. CASE DelNodeRtoken(s)
    BY <1>l, <1>2, <2>3 DEF DelNodeRtoken, AccessStep
  <2>4. CASE DelNodeWtoken(s)
    BY <1>l, <1>2, <2>4 DEF DelNodeWtoken, AccessStep
  <2> QED
    BY <2>1, <2>2, <2>3, <2>4
<1>6. CASE Return(s)
  BY <1>f, <1>4, <1>5, <1>6, ReturnsAccess
<1>7. ASSUME NEW l \in Removing, Goto(s, l), UNCHANGED <<req, bl, rights>>
      PROVE  AccessInv'
  <2>1. pc'[s] \in Removing
    BY <1>7 DEF Goto, TypeInv, TypeOK
  <2> QED
    BY <1>f, <1>1, <1>2, <1>5, <1>7, <2>1, GoesOnSaving
<1>8. CASE RemBlockCall(s)
  BY <1>6, <1>7, <1>8 DEF RemBlockCall, Removing
<1>9. CASE DelOwnRtoken(s)
  <2>1. Return(s) \/ ForEach(s, list, "del_rtoken")
    BY <1>9 DEF DelOwnRtoken
  <2> QED
    BY <1>f, <1>1, <1>2, <1>5, <1>6, <2>1, ForEachAccess
<1>10. CASE DelNodeRtoken(s)
  <2>1. \/ Return(s) \/ ForEach(s, Tail(list), "del_rtoken")
        \/ Goto(s, "del_wtoken") /\ UNCHANGED <<req, bl, rights>>
    BY <1>10 DEF DelNodeRtoken
  <2>2. pc[s] = "del_rtoken" /\ "del_wtoken" \in Removing
    BY <1>10 DEF DelNodeRtoken, Removing
  <2> QED
    BY <1>f, <1>l, <1>1, <1>5, <1>6, <1>7, <2>1, <2>2, ForEachAccess
<1>11. CASE DelNodeWtoken(s)
  <2>1. pc[s] = "del_wtoken" /\ (Return(s) \/ ForEach(s, Tail(list), "del_rtoken"))
    BY <1>11 DEF DelNodeWtoken
  <2> QED
    BY <1>f, <1>l, <1>1, <1>5, <1>6, <2>1, ForEachAccess
<1> QED
  BY <1>8, <1>9, <1>10, <1>11

LEMMA ShareAccess ==
    ASSUME TypeInv, AccessInv, NEW s \in Sessions, Step(s),
           GrantRead(s) \/ GrantUpdate(s) \/ DenyWtoken(s) \/ DenyRtoken(s)
    PROVE  AccessInv'
<1>f. Frame(s)
  BY StepFrame DEF TypeInv
<1> DEFINE b == req[s].block
           u == req[s].for
<1>1. /\ pc[s] \in Sharing /\ ~Creating(s)
      /\ b \in Blocks /\ u \in Users /\ UserOf[s] \in Users
      /\ bl[s].rtoken \in Token /\ bl[s].wtoken \in MaybeToken
      /\ \A j \in 1..Len(rights[s]) : NodeAccess(rights[s][j], b)
  <2>1. pc[s] \in Sharing /\ ~Creating(s) /\ pc[s] \notin {"idle", "aborted"}
    BY DEF GrantRead, GrantUpdate, DenyWtoken, DenyRtoken, Sharing, Creating
  <2>2. u \in Users /\ bl[s].rtoken \in Token
    BY <2>1 DEF TypeInv, Shape, RequestShape, BlockShape, Sharing
  <2>3. bl[s].wtoken \in MaybeToken
    BY DEF TypeInv, TypeOK, BlockObject
  <2> QED
    BY <2>1, <2>2, <2>3, OwnFacts
<1>2. Growing
  <2>1. /\ readers' \in {readers, [readers EXCEPT ![b] = @ \cup {u}]}
        /\ writers' \in {writers, [writers EXCEPT ![b] = @ \cup {u}]}
    BY DEF GrantRead, GrantUpdate, DenyWtoken, DenyRtoken, historyVars
  <2> SUFFICES ASSUME NEW c \in Blocks
               PROVE  readers[c] \subseteq readers'[c] /\ writers[c] \subseteq writers'[c]
    BY DEF Growing
  <2>2. readers'[c] \in {readers[c], readers[c] \cup {u}}
    BY <1>1, <2>1 DEF TypeInv, TypeOK
  <2>3. writers'[c] \in {writers[c], writers[c] \cup {u}}
    BY <1>1, <2>1 DEF TypeInv, TypeOK
  <2> QED
    BY <2>2, <2>3
<1>3. AccessStep
  <2>1. CASE GrantRead(s)
    <3> DEFINE t == TokenForUser(bl[s].rtoken, UserOf[s], u)
    <3>1. t \in Token /\ Opens(t, u)
      BY <1>1, TokenTypes, NewTokensHeld
    <3> HIDE DEF t
    <3>2. \/ UNCHANGED ksVars
          \/ /\ HasPublicKey(u) /\ SetRtoken(b, u, t)
             /\ readers' = [readers EXCEPT ![b] = @ \cup {u}]
      BY <2>1 DEF GrantRead, t
    <3>3. readers' = [readers EXCEPT ![b] = @ \cup {u}] => Held(t, u, readers'[b])
      BY <1>1, <3>1 DEF Held, TypeInv, TypeOK
    <3> QED
      BY <1>1, <3>1, <3>2, <3>3 DEF AccessStep
  <2>2. CASE GrantUpdate(s)
    <3> DEFINE t == TokenForUser(bl[s].wtoken, UserOf[s], u)
    <3>1. bl[s].wtoken # None => t \in Token /\ Opens(t, u)
      BY <1>1, TokenTypes, NewTokensHeld DEF MaybeToken
    <3> HIDE DEF t
    <3>2. \/ UNCHANGED ksVars
          \/ /\ HasPublicKey(u) /\ SetWtoken(b, u, t) /\ bl[s].wtoken # None
             /\ writers' = [writers EXCEPT ![b] = @ \cup {u}]
      BY <2>2 DEF GrantUpdate, t
    <3>3. writers' = [writers EXCEPT ![b] = @ \cup {u}] => u \in writers'[b]
      BY <1>1 DEF TypeInv, TypeOK
    <3> QED
      BY <1>1, <3>1, <3>2, <3>3 DEF AccessStep, Held
  <2>3. CASE DenyWtoken(s)
    BY <1>1, <2>3 DEF DenyWtoken, AccessStep
  <2>4. CASE DenyRtoken(s)
    BY <1>1, <2>4 DEF DenyRtoken, AccessStep
  <2> QED
    BY <2>1, <2>2, <2>3, <2>4
<1>4. CASE Return(s)
  BY <1>f, <1>2, <1>3, <1>4, ReturnsAccess
<1>5. CASE ~Return(s)
  <2>1. Goto(s, "deny_rtoken") /\ UNCHANGED <<req, bl, rights, readers, writers>>
    BY <1>5 DEF GrantRead, GrantUpdate, DenyWtoken, DenyRtoken, historyVars
  <2>2. pc'[s] \in Sharing
    BY <2>1 DEF Goto, Sharing, TypeInv, TypeOK
  <2> QED
    BY <1>f, <1>1, <1>3, <2>1, <2>2, GoesOnSaving
<1> QED
  BY <1>4, <1>5

LEMMA FaultAccess ==
    ASSUME TypeInv, AccessInv, NEW s \in Sessions, Restart(s) \/ KeyStoreDown(s)
    PROVE  AccessInv'
<1>1. CASE Restart(s)
  <2>1. Return(s) /\ UNCHANGED ksVars /\ UNCHANGED historyVars
    BY <1>1 DEF Restart
  <2>2. Frame(s)
    BY <2>1 DEF Return, Frame, TypeInv, TypeOK
  <2>3. Growing /\ AccessStep
    BY <2>1 DEF Growing, AccessStep, historyVars
  <2> QED
    BY <2>1, <2>2, <2>3, ReturnsAccess
<1>2. CASE KeyStoreDown(s)
  BY <1>2 DEF KeyStoreDown, ksVars, historyVars, AccessInv, StoreAccess, OwnAccess, ListAccess,
     NodeAccess, Creating, Held
<1> QED
  BY <1>1, <1>2

LEMMA NextAccess == TypeInv /\ AccessInv /\ [Next]_vars => AccessInv'
<1>1. ASSUME AccessInv, UNCHANGED vars
      PROVE  AccessInv'
  BY <1>1 DEF vars, AccessInv, StoreAccess, OwnAccess, ListAccess, NodeAccess, Creating, Held
<1>2. ASSUME TypeInv, AccessInv, NEW s \in Sessions, Step(s)
      PROVE  AccessInv'
  BY <1>2, LoadAccess, RotateAccess, ListingAccess, SetBlockAccess, SaveAccess, RemoveAccess,
     ShareAccess DEF Step
<1> QED
  BY <1>1, <1>2, CallAccess, FaultAccess DEF Next

LEMMA AccessInvariant == Spec => [](TypeInv /\ AccessInv)
  BY InitType, InitAccess, NextType, NextAccess, PTL DEF Spec

-----------------------------------------------------------------------------
\* The theorems.

\* Every stored token opens for the user it is stored for, under the owner
\* recorded beside it, however many times create, update, rotate and grant
\* have remade it and in whatever order their saves arrived.
THEOREM StoredTokensOpen == Spec => []TokensOpen
<1>1. AccessInv => TokensOpen
  BY DEF AccessInv, StoreAccess, TokensOpen, Held
<1> QED
  BY <1>1, AccessInvariant, PTL

\* Rotations running on stale lists, retries and crashes never give a token
\* to a user that no create or grant call has named.
THEOREM NoAccessWithoutGrant == Spec => []TokensOnlyToGranted
<1>1. AccessInv => TokensOnlyToGranted
  BY DEF AccessInv, StoreAccess, TokensOnlyToGranted, Held
<1> QED
  BY <1>1, AccessInvariant, PTL

\* Whoever holds a token is found by get_indexed_rights and has a public key:
\* a rotation or deletion that walks the whole list misses nobody.
THEOREM HoldersAreListed == Spec => []TokenHoldersListed
<1>1. AccessInv => TokenHoldersListed
  BY DEF AccessInv, StoreAccess, TokenHoldersListed, HasPublicKey
<1> QED
  BY <1>1, AccessInvariant, PTL
=============================================================================
