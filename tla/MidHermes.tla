----------------------------- MODULE MidHermes -----------------------------
(***************************************************************************)
(* Hermes clients (src/mid_hermes, src/mid_hermes_ll) working concurrently *)
(* on a shared data store and a shared key store.                          *)
(*                                                                         *)
(* Every API call is a sequence of remote calls; each remote call is one   *)
(* action, and the calls of different sessions interleave freely.  A       *)
(* session is one mid_hermes_t: one user, one API call at a time.  A       *)
(* client may stop between any two remote calls (Restart), and its key     *)
(* store connection may break while the others live (KeyStoreDown).  A     *)
(* lost reply of any other call ends the API call like a stop right after  *)
(* it.  The credential store is read-only for clients and is a constant.   *)
(*                                                                         *)
(* bl->block and bl->mac are functions of the tokens and data a block      *)
(* object holds (Sealed, MacOf); bl->mac is NULL exactly without a wtoken. *)
(***************************************************************************)
EXTENDS KeyStore, DataStore, Sequences

CONSTANTS Sessions,  \* mid_hermes_t instances
          UserOf,    \* the user of a session
          Ops,       \* Ops[s]: the API calls session s makes
          Faults,    \* which of {"crash", "ks_down"} may happen
          MaxKeys    \* bound: keys create and rotate may draw

ApiCalls == {"create", "read", "update", "delete", "rotate", "grant_read",
             "grant_update", "deny_read", "deny_update"}

ASSUME SessionsAssumption ==
    /\ UserOf \in [Sessions -> Registered]
    /\ Ops \in [Sessions -> SUBSET ApiCalls]
    /\ Faults \subseteq {"crash", "ks_down"}
    /\ MaxKeys \in Nat
    /\ None \notin ApiCalls

VARIABLES pc,       \* the next remote call of a session
          req,      \* the API call in progress and its arguments
          bl,       \* the block object (mid_hermes_ll_block_t)
          rights,   \* the rights list still to be worked through
          it,       \* the key store iterator of access_rights
          ksUp,     \* the session's key store connection works
          nextKey,  \* the next key soter_rand returns
          \* History, read by the properties only:
          readers,  \* users ever given the read key by create or grant
          writers,  \* users ever given the write key by create or grant
          reborn    \* blocks last keyed before they were deleted: an update put
                    \* them back, and no create or rotate has written them since

sessionVars == <<pc, req, bl, rights, it, ksUp, nextKey>>
historyVars == <<readers, writers, reborn>>
vars == <<rtok, wtok, dirs, ds, pc, req, bl, rights, it, ksUp, nextKey,
          readers, writers, reborn>>

-----------------------------------------------------------------------------
\* Types

Labels == {"idle", "get_rtoken", "get_wtoken", "get_block", "update",
           "iterate", "node_rtoken", "node_wtoken", "next", "rotate",
           "set_block", "own_rtoken", "own_wtoken", "save_rtoken",
           "save_wtoken", "rem_block", "del_own", "del_rtoken", "del_wtoken",
           "grant_read", "grant_update", "deny_wtoken", "deny_rtoken",
           "aborted"}

Request == [op : ApiCalls \cup {None}, block : Blocks \cup {None},
            for : Users \cup {None}, data : Contents \cup {None}, key : Nat]
BlockObject == [rtoken : MaybeToken, wtoken : MaybeToken,
                data : Contents \cup {None}, old_mac : MaybeMac,
                seen : Contents \cup {None}]
Node == [user : Users, rtoken : MaybeToken, wtoken : MaybeToken]
Iterator == [index : Nat, user : Users \cup {None}, rtoken : MaybeToken]

NoRequest == [op |-> None, block |-> None, for |-> None, data |-> None, key |-> 0]
NoBlock == [rtoken |-> None, wtoken |-> None, data |-> None, old_mac |-> None,
            seen |-> None]
NoIterator == [index |-> 0, user |-> None, rtoken |-> None]

TypeOK ==
    /\ KeyStoreTypeOK
    /\ DataStoreTypeOK
    /\ pc \in [Sessions -> Labels]
    /\ req \in [Sessions -> Request]
    /\ bl \in [Sessions -> BlockObject]
    /\ rights \in [Sessions -> Seq(Node)]
    /\ it \in [Sessions -> Iterator]
    /\ ksUp \in [Sessions -> BOOLEAN]
    /\ nextKey \in Nat
    /\ readers \in [Blocks -> SUBSET Users]
    /\ writers \in [Blocks -> SUBSET Users]
    /\ reborn \in [Blocks -> BOOLEAN]

Init ==
    /\ KeyStoreInit
    /\ DataStoreInit
    /\ pc = [s \in Sessions |-> "idle"]
    /\ req = [s \in Sessions |-> NoRequest]
    /\ bl = [s \in Sessions |-> NoBlock]
    /\ rights = [s \in Sessions |-> <<>>]
    /\ it = [s \in Sessions |-> NoIterator]
    /\ ksUp = [s \in Sessions |-> TRUE]
    /\ nextKey = 0
    /\ readers = [b \in Blocks |-> {}]
    /\ writers = [b \in Blocks |-> {}]
    /\ reborn = [b \in Blocks |-> FALSE]

-----------------------------------------------------------------------------
\* Helpers

\* bl->block: the data under the read key; bl->mac: its MAC under the write key.
MacOf(o) == [key |-> o.wtoken.key, data |-> o.data]
Sealed(o) == [key |-> o.rtoken.key, data |-> o.data, mac |-> MacOf(o)]

\* The API call of s goes on at label l, or returns and frees its objects.
Goto(s, l) == pc' = [pc EXCEPT ![s] = l]
Return(s) ==
    /\ pc' = [pc EXCEPT ![s] = "idle"]
    /\ req' = [req EXCEPT ![s] = NoRequest]
    /\ bl' = [bl EXCEPT ![s] = NoBlock]
    /\ rights' = [rights EXCEPT ![s] = <<>>]
    /\ it' = [it EXCEPT ![s] = NoIterator]

\* What the key store answers to a session: nothing when the connection is down.
Rtoken(s, b, u) == IF ksUp[s] THEN rtok[b][u] ELSE None
Wtoken(s, b, u) == IF ksUp[s] THEN wtok[b][u] ELSE None
Indexed(s, b, i) == IF ksUp[s] THEN IndexedRights(b, i) ELSE {}

-----------------------------------------------------------------------------
\* API calls begin

\* mid_hermes_ll_block_create_new with two fresh tokens: no old_mac.
NewBlock(k, u, c) ==
    [rtoken |-> TokenGenerate(k, u), wtoken |-> TokenGenerate(k + 1, u),
     data |-> c, old_mac |-> None, seen |-> None]

\* create_block draws its two tokens before the first remote call.  The pair
\* of keys that a create or rotate call will draw is numbered when the call
\* starts; only their freshness matters.  An id left to the data store is a
\* b that happens to be unused.
CreateBlock(s) ==
    /\ "create" \in Ops[s] /\ pc[s] = "idle" /\ nextKey + 2 <= MaxKeys
    /\ \E b \in Blocks, c \in Contents :
        /\ req' = [req EXCEPT ![s] =
                     [op |-> "create", block |-> b, for |-> None, data |-> c,
                      key |-> nextKey]]
        /\ bl' = [bl EXCEPT ![s] = NewBlock(nextKey, UserOf[s], c)]
    /\ nextKey' = nextKey + 2
    /\ Goto(s, "set_block")
    /\ UNCHANGED <<rights, it, ksUp, ksVars, ds, historyVars>>

\* Every other call loads the block first.
Load(s, op, b, u, c, k) ==
    /\ op \in Ops[s] /\ pc[s] = "idle"
    /\ req' = [req EXCEPT ![s] =
                 [op |-> op, block |-> b, for |-> u, data |-> c, key |-> k]]
    /\ Goto(s, "get_rtoken")
    /\ UNCHANGED <<bl, rights, it, ksUp, ksVars, ds, historyVars>>

ReadBlock(s) ==
    \E b \in Blocks : Load(s, "read", b, None, None, 0) /\ UNCHANGED nextKey
UpdateBlock(s) ==
    \E b \in Blocks, c \in Contents :
        Load(s, "update", b, None, c, 0) /\ UNCHANGED nextKey
DeleteBlock(s) ==
    \E b \in Blocks : Load(s, "delete", b, None, None, 0) /\ UNCHANGED nextKey
RotateBlock(s) ==
    \E b \in Blocks :
        /\ nextKey + 2 <= MaxKeys
        /\ Load(s, "rotate", b, None, None, nextKey)
        /\ nextKey' = nextKey + 2
GrantReadAccess(s) ==
    \E b \in Blocks, u \in Users :
        Load(s, "grant_read", b, u, None, 0) /\ UNCHANGED nextKey
GrantUpdateAccess(s) ==
    \E b \in Blocks, u \in Users :
        Load(s, "grant_update", b, u, None, 0) /\ UNCHANGED nextKey
DenyReadAccess(s) ==
    \E b \in Blocks, u \in Users :
        Load(s, "deny_read", b, u, None, 0) /\ UNCHANGED nextKey
DenyUpdateAccess(s) ==
    \E b \in Blocks, u \in Users :
        Load(s, "deny_update", b, u, None, 0) /\ UNCHANGED nextKey

-----------------------------------------------------------------------------
\* mid_hermes_ll_block_load: read token, write token, then the block.

LoadRtoken(s) ==
    /\ pc[s] = "get_rtoken"
    /\ bl' = [bl EXCEPT ![s].rtoken = Rtoken(s, req[s].block, UserOf[s])]
    /\ Goto(s, "get_wtoken")
    /\ UNCHANGED <<req, rights, it, ksUp, nextKey, ksVars, ds, historyVars>>

\* Both tokens are asked for before the first one is looked at.
LoadWtoken(s) ==
    /\ pc[s] = "get_wtoken"
    /\ \/ /\ bl[s].rtoken # None
          /\ bl' = [bl EXCEPT ![s].wtoken = Wtoken(s, req[s].block, UserOf[s])]
          /\ Goto(s, "get_block")
          /\ UNCHANGED <<req, rights, it>>
       \/ bl[s].rtoken = None /\ Return(s)
    /\ UNCHANGED <<ksUp, nextKey, ksVars, ds, historyVars>>

\* mid_hermes_ll_block_init accepts what was loaded.
InitAccepts(o, b, u) ==
    /\ ds[b] # None
    /\ Opens(o.rtoken, u)
    /\ Decrypts(o.rtoken, ds[b])
    /\ o.wtoken # None => Opens(o.wtoken, u)

\* Where a call goes on once its block is loaded.
AfterLoad == [update |-> "update", delete |-> "iterate", rotate |-> "iterate",
              grant_read |-> "grant_read", grant_update |-> "grant_update",
              deny_read |-> "deny_wtoken", deny_update |-> "deny_wtoken"]

GetBlock(s) ==
    LET b == req[s].block IN
    /\ pc[s] = "get_block"
    /\ \/ /\ InitAccepts(bl[s], b, UserOf[s])
          /\ req[s].op # "read"
          /\ bl' = [bl EXCEPT ![s].data = ds[b].data, ![s].seen = ds[b].data]
          /\ Goto(s, AfterLoad[req[s].op])
          /\ UNCHANGED <<req, rights, it>>
       \/ /\ ~InitAccepts(bl[s], b, UserOf[s]) \/ req[s].op = "read"
          /\ Return(s)
    /\ UNCHANGED <<ksUp, nextKey, ksVars, ds, historyVars>>

-----------------------------------------------------------------------------
\* Local work on the loaded block

\* Mutant: the write token is kept where the MAC belongs.
UpdateKeepsToken(s) ==
    /\ pc[s] = "update"
    /\ \/ /\ bl[s].wtoken # None
          /\ bl' = [bl EXCEPT ![s].data = req[s].data,
                              ![s].old_mac = bl[s].wtoken]
          /\ Goto(s, "set_block")
          /\ UNCHANGED <<req, rights, it>>
       \/ bl[s].wtoken = None /\ Return(s)
    /\ UNCHANGED <<ksUp, nextKey, ksVars, ds, historyVars>>

\* mid_hermes_ll_block_update: needs both tokens; the first MAC is kept as
\* old_mac.
Update(s) ==
    /\ pc[s] = "update"
    /\ \/ /\ bl[s].wtoken # None
          /\ bl' = [bl EXCEPT ![s].data = req[s].data,
                              ![s].old_mac = MacOf(bl[s])]
          /\ Goto(s, "set_block")
          /\ UNCHANGED <<req, rights, it>>
       \/ bl[s].wtoken = None /\ Return(s)
    /\ UNCHANGED <<ksUp, nextKey, ksVars, ds, historyVars>>

\* Mutant: every node gets a write token.
RewrapAll(list, k, u) ==
    [j \in 1..Len(list) |->
        [list[j] EXCEPT
           !.rtoken = TokenForUser(TokenGenerate(k, u), u, list[j].user),
           !.wtoken = TokenForUser(TokenGenerate(k + 1, u), u, list[j].user)]]

\* The rights list after rotation: every node's read token is remade from the
\* new one, its write token only if it had one.
Rewrap(list, k, u) ==
    [j \in 1..Len(list) |->
        [list[j] EXCEPT
           !.rtoken = TokenForUser(TokenGenerate(k, u), u, list[j].user),
           !.wtoken = IF list[j].wtoken = None THEN None
                      ELSE TokenForUser(TokenGenerate(k + 1, u), u, list[j].user)]]

Rotate(s) ==
    LET k == req[s].key
        u == UserOf[s] IN
    /\ pc[s] = "rotate"
    /\ bl' = [bl EXCEPT ![s].rtoken = TokenGenerate(k, u),
                        ![s].wtoken = TokenGenerate(k + 1, u),
                        ![s].old_mac = MacOf(bl[s])]
    /\ rights' = [rights EXCEPT ![s] = Rewrap(rights[s], k, u)]
    /\ Goto(s, "set_block")
    /\ UNCHANGED <<req, it, ksUp, nextKey, ksVars, ds, historyVars>>

-----------------------------------------------------------------------------
\* mid_hermes_ll_block_access_rights

\* The iterator stands on user u: the caller's own row is skipped.
Visit(s, i, u) ==
    /\ it' = [it EXCEPT ![s] = [index |-> i, user |-> u, rtoken |-> None]]
    /\ Goto(s, IF u = UserOf[s] THEN "next" ELSE "node_rtoken")

\* Without a write token there is no MAC: no list, and neither rotate nor
\* delete goes on.  An empty answer for index 0 fails assert(i).
Iterate(s) ==
    LET first == Indexed(s, req[s].block, 0) IN
    /\ pc[s] = "iterate"
    /\ \/ bl[s].wtoken = None /\ Return(s)
       \/ /\ bl[s].wtoken # None /\ first = {}
          /\ Goto(s, "aborted")
          /\ UNCHANGED <<req, bl, rights, it>>
       \/ /\ bl[s].wtoken # None
          /\ \E u \in first : Visit(s, 0, u)
          /\ UNCHANGED <<req, bl, rights>>
    /\ UNCHANGED <<ksUp, nextKey, ksVars, ds, historyVars>>

NodeRtoken(s) ==
    /\ pc[s] = "node_rtoken"
    /\ it' = [it EXCEPT ![s].rtoken = Rtoken(s, req[s].block, it[s].user)]
    /\ Goto(s, "node_wtoken")
    /\ UNCHANGED <<req, bl, rights, ksUp, nextKey, ksVars, ds, historyVars>>

NodeLoaded(s) == HasPublicKey(it[s].user) /\ it[s].rtoken # None

\* A row whose user is unknown or has no read token leaves no list: rotate
\* fails, delete goes on without one.  A row without a write token is a reader.
NodeWtoken(s) ==
    /\ pc[s] = "node_wtoken"
    /\ \/ /\ NodeLoaded(s)
          /\ rights' = [rights EXCEPT ![s] = Append(@,
                [user |-> it[s].user, rtoken |-> it[s].rtoken,
                 wtoken |-> Wtoken(s, req[s].block, it[s].user)])]
          /\ Goto(s, "next")
          /\ UNCHANGED <<req, bl, it>>
       \/ ~NodeLoaded(s) /\ req[s].op = "rotate" /\ Return(s)
       \/ /\ ~NodeLoaded(s) /\ req[s].op = "delete"
          /\ rights' = [rights EXCEPT ![s] = <<>>]
          /\ it' = [it EXCEPT ![s] = NoIterator]
          /\ Goto(s, "rem_block")
          /\ UNCHANGED <<req, bl>>
    /\ UNCHANGED <<ksUp, nextKey, ksVars, ds, historyVars>>

\* Mutant: the index is not advanced.
IteratorNextStays(s) ==
    LET i == it[s].index
        found == Indexed(s, req[s].block, i) IN
    /\ pc[s] = "next"
    /\ \/ \E u \in found : Visit(s, i, u)
       \/ /\ found = {}
          /\ it' = [it EXCEPT ![s] = NoIterator]
          /\ Goto(s, IF req[s].op = "rotate" THEN "rotate" ELSE "rem_block")
    /\ UNCHANGED <<req, bl, rights, ksUp, nextKey, ksVars, ds, historyVars>>

\* hermes_key_store_iterator_next: any failure, a broken connection included,
\* is the end of the list.
IteratorNext(s) ==
    LET i == it[s].index + 1
        found == Indexed(s, req[s].block, i) IN
    /\ pc[s] = "next"
    /\ \/ \E u \in found : Visit(s, i, u)
       \/ /\ found = {}
          /\ it' = [it EXCEPT ![s] = NoIterator]
          /\ Goto(s, IF req[s].op = "rotate" THEN "rotate" ELSE "rem_block")
    /\ UNCHANGED <<req, bl, rights, ksUp, nextKey, ksVars, ds, historyVars>>

-----------------------------------------------------------------------------
\* mid_hermes_ll_block_save: the data store first, then the caller's tokens,
\* then the tokens of the rights list.  The first failure ends the call.

SetBlockCall(s) ==
    LET b == req[s].block
        u == UserOf[s]
        creates == req[s].op = "create" IN
    /\ pc[s] = "set_block"
    /\ \/ /\ SetBlockAllowed(b, bl[s].old_mac)
          /\ SetBlock(b, Sealed(bl[s]))
          /\ bl' = [bl EXCEPT ![s].old_mac = None]
          /\ Goto(s, "own_rtoken")
          /\ readers' = IF creates THEN [readers EXCEPT ![b] = @ \cup {u}] ELSE readers
          /\ writers' = IF creates THEN [writers EXCEPT ![b] = @ \cup {u}] ELSE writers
          /\ reborn' = [reborn EXCEPT ![b] =
                req[s].op = "update" /\ (@ \/ ds[b] = None)]
          /\ UNCHANGED <<req, rights, it>>
       \/ /\ ~SetBlockAllowed(b, bl[s].old_mac)
          /\ Return(s)
          /\ UNCHANGED <<ds, historyVars>>
    /\ UNCHANGED <<ksUp, nextKey, ksVars>>

\* mid_hermes_ll_rtoken_save / mid_hermes_ll_wtoken_save of token t for user u
\* succeed: the key store answers and accepts t's owner.
RtokenSaved(s, u, t) ==
    /\ ksUp[s] /\ SetRtokenAllowed(req[s].block, u, t.owner)
    /\ SetRtoken(req[s].block, u, t)
WtokenSaved(s, u, t) ==
    /\ ksUp[s] /\ SetWtokenAllowed(req[s].block, u, t.owner)
    /\ SetWtoken(req[s].block, u, t)

\* ... or fail, and the API call with them.
RtokenRefused(s, u, t) ==
    /\ ~(ksUp[s] /\ SetRtokenAllowed(req[s].block, u, t.owner))
    /\ Return(s) /\ UNCHANGED ksVars
WtokenRefused(s, u, t) ==
    /\ ~(ksUp[s] /\ SetWtokenAllowed(req[s].block, u, t.owner))
    /\ Return(s) /\ UNCHANGED ksVars

\* Work through the rights list: go on with list from label l, or return.
ForEach(s, list, l) ==
    \/ list = <<>> /\ Return(s)
    \/ /\ list # <<>>
       /\ rights' = [rights EXCEPT ![s] = list]
       /\ Goto(s, l)
       /\ UNCHANGED <<req, bl, it>>

\* Mutant: only the write token of the caller is saved.
SaveOwnRtokenSkipped(s) ==
    /\ pc[s] = "own_rtoken"
    /\ Goto(s, "own_wtoken")
    /\ UNCHANGED <<req, bl, rights, it, ksUp, nextKey, ksVars, ds, historyVars>>

SaveOwnRtoken(s) ==
    /\ pc[s] = "own_rtoken"
    /\ \/ /\ RtokenSaved(s, UserOf[s], bl[s].rtoken)
          /\ Goto(s, "own_wtoken")
          /\ UNCHANGED <<req, bl, rights, it>>
       \/ RtokenRefused(s, UserOf[s], bl[s].rtoken)
    /\ UNCHANGED <<ksUp, nextKey, ds, historyVars>>

SaveOwnWtoken(s) ==
    /\ pc[s] = "own_wtoken"
    /\ \/ /\ WtokenSaved(s, UserOf[s], bl[s].wtoken)
          /\ ForEach(s, rights[s], "save_rtoken")
       \/ WtokenRefused(s, UserOf[s], bl[s].wtoken)
    /\ UNCHANGED <<ksUp, nextKey, ds, historyVars>>

SaveNodeRtoken(s) ==
    LET node == Head(rights[s]) IN
    /\ pc[s] = "save_rtoken"
    /\ \/ /\ RtokenSaved(s, node.user, node.rtoken)
          /\ \/ /\ node.wtoken # None
                /\ Goto(s, "save_wtoken")
                /\ UNCHANGED <<req, bl, rights, it>>
             \/ node.wtoken = None /\ ForEach(s, Tail(rights[s]), "save_rtoken")
       \/ RtokenRefused(s, node.user, node.rtoken)
    /\ UNCHANGED <<ksUp, nextKey, ds, historyVars>>

SaveNodeWtoken(s) ==
    LET node == Head(rights[s]) IN
    /\ pc[s] = "save_wtoken"
    /\ \/ /\ WtokenSaved(s, node.user, node.wtoken)
          /\ ForEach(s, Tail(rights[s]), "save_rtoken")
       \/ WtokenRefused(s, node.user, node.wtoken)
    /\ UNCHANGED <<ksUp, nextKey, ds, historyVars>>

-----------------------------------------------------------------------------
\* mid_hermes_ll_block_delete: the data store first, then the caller's row,
\* then the rows of the rights list.

RemBlockCall(s) ==
    LET b == req[s].block IN
    /\ pc[s] = "rem_block"
    /\ \/ /\ RemBlockAllowed(b, MacOf(bl[s]))
          /\ RemBlock(b)
          /\ Goto(s, "del_own")
          /\ UNCHANGED <<req, bl, rights, it>>
       \/ ~RemBlockAllowed(b, MacOf(bl[s])) /\ Return(s) /\ UNCHANGED ds
    /\ UNCHANGED <<ksUp, nextKey, ksVars, historyVars>>

DelPermitted(s, owner) == ksUp[s] /\ DelAllowed(req[s].block, owner)

DelOwnRtoken(s) ==
    /\ pc[s] = "del_own"
    /\ \/ /\ DelPermitted(s, UserOf[s])
          /\ DelRtoken(req[s].block, UserOf[s])
          /\ ForEach(s, rights[s], "del_rtoken")
       \/ ~DelPermitted(s, UserOf[s]) /\ Return(s) /\ UNCHANGED ksVars
    /\ UNCHANGED <<ksUp, nextKey, ds, historyVars>>

DelNodeRtoken(s) ==
    LET node == Head(rights[s]) IN
    /\ pc[s] = "del_rtoken"
    /\ \/ /\ DelPermitted(s, UserOf[s])
          /\ DelRtoken(req[s].block, node.user)
          /\ \/ /\ node.wtoken # None
                /\ Goto(s, "del_wtoken")
                /\ UNCHANGED <<req, bl, rights, it>>
             \/ node.wtoken = None /\ ForEach(s, Tail(rights[s]), "del_rtoken")
       \/ ~DelPermitted(s, UserOf[s]) /\ Return(s) /\ UNCHANGED ksVars
    /\ UNCHANGED <<ksUp, nextKey, ds, historyVars>>

\* The write token is removed in the name of the token's owner.
DelNodeWtoken(s) ==
    LET node == Head(rights[s]) IN
    /\ pc[s] = "del_wtoken"
    /\ \/ /\ DelPermitted(s, node.wtoken.owner)
          /\ DelWtoken(req[s].block, node.user)
          /\ ForEach(s, Tail(rights[s]), "del_rtoken")
       \/ ~DelPermitted(s, node.wtoken.owner) /\ Return(s) /\ UNCHANGED ksVars
    /\ UNCHANGED <<ksUp, nextKey, ds, historyVars>>

-----------------------------------------------------------------------------
\* Granting and denying access

GrantRead(s) ==
    LET b == req[s].block
        u == req[s].for
        t == TokenForUser(bl[s].rtoken, UserOf[s], u)
        ok == HasPublicKey(u) /\ ksUp[s] /\ SetRtokenAllowed(b, u, t.owner) IN
    /\ pc[s] = "grant_read"
    /\ \/ /\ ok
          /\ SetRtoken(b, u, t)
          /\ readers' = [readers EXCEPT ![b] = @ \cup {u}]
          /\ UNCHANGED <<writers, reborn>>
       \/ ~ok /\ UNCHANGED <<ksVars, historyVars>>
    /\ Return(s)
    /\ UNCHANGED <<ksUp, nextKey, ds>>

GrantUpdate(s) ==
    LET b == req[s].block
        u == req[s].for
        t == TokenForUser(bl[s].wtoken, UserOf[s], u)
        ok == /\ HasPublicKey(u) /\ bl[s].wtoken # None
              /\ ksUp[s] /\ SetWtokenAllowed(b, u, UserOf[s]) IN
    /\ pc[s] = "grant_update"
    /\ \/ /\ ok
          /\ SetWtoken(b, u, t)
          /\ writers' = [writers EXCEPT ![b] = @ \cup {u}]
          /\ UNCHANGED <<readers, reborn>>
       \/ ~ok /\ UNCHANGED <<ksVars, historyVars>>
    /\ Return(s)
    /\ UNCHANGED <<ksUp, nextKey, ds>>

\* mid_hermes_ll_token_del: the write token goes first; a deny_read call does
\* not look at the outcome and goes on to the read token.
DenyWtoken(s) ==
    LET b == req[s].block
        u == req[s].for
        may == HasPublicKey(u) /\ bl[s].wtoken # None IN
    /\ pc[s] = "deny_wtoken"
    /\ \/ may /\ DelPermitted(s, UserOf[s]) /\ DelWtoken(b, u)
       \/ ~(may /\ DelPermitted(s, UserOf[s])) /\ UNCHANGED ksVars
    /\ \/ may /\ req[s].op = "deny_read" /\ Goto(s, "deny_rtoken")
          /\ UNCHANGED <<req, bl, rights, it>>
       \/ ~(may /\ req[s].op = "deny_read") /\ Return(s)
    /\ UNCHANGED <<ksUp, nextKey, ds, historyVars>>

DenyRtoken(s) ==
    LET b == req[s].block
        u == req[s].for IN
    /\ pc[s] = "deny_rtoken"
    /\ \/ /\ DelPermitted(s, UserOf[s])
          /\ DelRtoken(b, u)
       \/ ~DelPermitted(s, UserOf[s]) /\ UNCHANGED ksVars
    /\ Return(s)
    /\ UNCHANGED <<ksUp, nextKey, ds, historyVars>>

-----------------------------------------------------------------------------
\* Faults

\* The client stops between two remote calls, or has aborted, and starts over
\* with new connections.
Restart(s) ==
    /\ \/ "crash" \in Faults /\ pc[s] \notin {"idle", "aborted"}
       \/ pc[s] = "aborted"
       \/ pc[s] = "idle" /\ ~ksUp[s]
    /\ Return(s)
    /\ ksUp' = [ksUp EXCEPT ![s] = TRUE]
    /\ UNCHANGED <<nextKey, ksVars, ds, historyVars>>

\* The session's key store connection breaks; its other connections live on.
KeyStoreDown(s) ==
    /\ "ks_down" \in Faults
    /\ ksUp[s]
    /\ ksUp' = [ksUp EXCEPT ![s] = FALSE]
    /\ UNCHANGED <<pc, req, bl, rights, it, nextKey, ksVars, ds, historyVars>>

-----------------------------------------------------------------------------
\* The specification

\* A caller starts an API call.
Call(s) ==
    \/ CreateBlock(s) \/ ReadBlock(s) \/ UpdateBlock(s) \/ DeleteBlock(s)
    \/ RotateBlock(s) \/ GrantReadAccess(s) \/ GrantUpdateAccess(s)
    \/ DenyReadAccess(s) \/ DenyUpdateAccess(s)

\* The API call in progress takes its next step.
Step(s) ==
    \/ LoadRtoken(s) \/ LoadWtoken(s) \/ GetBlock(s)
    \/ Update(s) \/ Rotate(s)
    \/ Iterate(s) \/ NodeRtoken(s) \/ NodeWtoken(s) \/ IteratorNext(s)
    \/ SetBlockCall(s) \/ SaveOwnRtoken(s) \/ SaveOwnWtoken(s)
    \/ SaveNodeRtoken(s) \/ SaveNodeWtoken(s)
    \/ RemBlockCall(s) \/ DelOwnRtoken(s) \/ DelNodeRtoken(s) \/ DelNodeWtoken(s)
    \/ GrantRead(s) \/ GrantUpdate(s) \/ DenyWtoken(s) \/ DenyRtoken(s)

Next == \E s \in Sessions :
    Call(s) \/ Step(s) \/ Restart(s) \/ KeyStoreDown(s)

Spec == Init /\ [][Next]_vars

\* A started call is carried on: the client thread runs and every remote call
\* returns or fails.  Nothing obliges a caller to start one.
FairSpec == Spec /\ \A s \in Sessions : WF_vars(Step(s))
-----------------------------------------------------------------------------
\* Properties

\* The read key and the write key a block is stored under come from the same
\* create or rotate call, unless an update has put the block back after a
\* delete.  Clients load the tokens before the block and save the block before
\* the tokens, so a client can hold tokens of two rotations: the MAC check of
\* the data store must keep such a client from mixing them in the store.
SameGeneration ==
    \A b \in Blocks :
        ds[b] # None /\ ~reborn[b] => ds[b].mac.key = ds[b].key + 1

\* An update, rotate or delete only ever replaces the contents its caller had
\* decrypted, and a rotate stores the same contents again: a change made by
\* another session after the load is never lost.
NoLostUpdate ==
    [][\A b \in Blocks : ds[b] # None /\ ds'[b] # ds[b] =>
         \E s \in Sessions :
            /\ req[s].block = b /\ pc'[s] # pc[s]
            /\ bl[s].seen = ds[b].data
            /\ req[s].op = "rotate" => ds'[b].data = ds[b].data]_vars

\* Every token in the key store can be opened by the user it is stored for,
\* with the public key of the owner recorded beside it, whichever of create,
\* update, rotate or grant stored it.
TokensOpen ==
    \A b \in Blocks, u \in Users :
        /\ rtok[b][u] # None => Opens(rtok[b][u], u)
        /\ wtok[b][u] # None => Opens(wtok[b][u], u)

\* A read token is stored only for a user that created the block or was
\* granted read access at some time, a write token only for one that was
\* granted update access: rotate, which makes tokens for whoever the key store
\* lists, never widens the access of anyone.
TokensOnlyToGranted ==
    \A b \in Blocks, u \in Users :
        /\ rtok[b][u] # None => u \in readers[b]
        /\ wtok[b][u] # None => u \in writers[b]

\* A user with a token is listed by get_indexed_rights, so that rotate and
\* delete find it, and its public key is in the credential store.
TokenHoldersListed ==
    \A b \in Blocks, u \in Users :
        /\ (rtok[b][u] # None \/ wtok[b][u] # None) => u \in dirs[b]
        /\ u \in dirs[b] => u \in Registered

\* Session s, saving block b, has still to save a read token with key k.
StillToSave(s, b, k) ==
    /\ req[s].block = b
    /\ \/ pc[s] = "own_rtoken" /\ bl[s].rtoken.key = k
       \/ /\ pc[s] \in {"own_rtoken", "own_wtoken", "save_rtoken"}
          /\ \E j \in 1..Len(rights[s]) : rights[s][j].rtoken.key = k
       \/ /\ pc[s] = "save_wtoken"
          /\ \E j \in 2..Len(rights[s]) : rights[s][j].rtoken.key = k

\* The read key of a stored block is never lost: some user's read token holds
\* it, or the call that stored the block has still to save one that does.
KeyNotLost ==
    \A b \in Blocks : ds[b] # None =>
        \/ \E u \in Users : rtok[b][u] # None /\ rtok[b][u].key = ds[b].key
        \/ \E s \in Sessions : StillToSave(s, b, ds[b].key)

\* access_rights: assert(i) holds, the key store lists someone for a block
\* that the caller has just loaded with its own token.
NoAbort == \A s \in Sessions : pc[s] # "aborted"

\* A user without read access gets it from a create or grant call only.
OnlyGrantsGiveAccess ==
    [][\A b \in Blocks, u \in Users :
         rtok[b][u] = None /\ rtok'[b][u] # None =>
            \E s \in Sessions : /\ req[s].block = b /\ pc'[s] # pc[s]
                                /\ req[s].op \in {"create", "grant_read"}]_vars

\* The data store writes over or re-creates a block on an update only after
\* comparing MACs.
UpdateChecked ==
    [][\A b \in Blocks : ds'[b] # ds[b] /\ ds'[b] # None =>
         \E s \in Sessions : /\ req[s].block = b /\ pc'[s] # pc[s]
                             /\ \/ req[s].op = "create"
                                \/ ds[b] # None /\ bl[s].old_mac = ds[b].mac]_vars

\* Every API call ends: returned, or aborted by an assertion.  rotate and delete
\* read the rights by index while other users add rows and remove them.
CallsEnd ==
    \A s \in Sessions : pc[s] # "idle" ~> pc[s] \in {"idle", "aborted"}
=============================================================================
