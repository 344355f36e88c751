# Hermes-core in TLA+

Hermes-core lets users share encrypted blocks through three stores that none of
them has to trust with keys. This directory models the client library, the
stores and the remote calls between them, checks the models with TLC and proves
their central safety properties with TLAPS. Paths below are relative to the
repository (`src/` in `PROJECT.json`).

## The system

| Component | State | Operations | Who calls it |
|---|---|---|---|
| `src/mid_hermes` | one `mid_hermes_t`: a user, three store connections | create, read, update, delete, rotate block; grant/deny read/update | the application, one call at a time |
| `src/mid_hermes_ll` | block object (tokens, data, MAC, old MAC), rights list | load, init, update, rotate, access_rights, save, delete, token make/load/save/delete | `mid_hermes` |
| `src/key_store` | rows (block, user): read token, write token, owner of each | set/get/del r/w token, get_indexed_rights | clients, by remote call |
| `src/data_store` | block: ciphertext, metadata, MAC | create, create with id, read, update, delete | clients, by remote call |
| `src/credential_store` | user: public key | get_pub_key_by_id | clients and services, by remote call |
| `src/rpc` | client: one transport; server: one transport, function table | sync_call; server_call; parameter packs | proxies, service loops |
| `src/secure_transport` | Themis session over a transport | handshake, send, receive | all of the above in the examples |
| `src/common` | hash table, buffers | set, get, push, pop | `rpc` |
| `docs/examples/c/mid_hermes/*_service` | directory trees; one thread per connection | the database callbacks of the stores | the stores |
| `gohermes`, `pyhermes`, example clients | none of their own | bindings and command lines | users |

Every block is encrypted under a read key and carries a MAC under a write key.
The key store holds a copy of each key per user with access, sealed for that
user by the token's *owner*. The stores enforce three rules: a block is replaced
or removed only by a caller that presents the MAC it is stored with; a token for
another user is stored only while its owner has one of the same kind; a token is
removed only for a caller that has a write token. Everything else happens in the
clients, as sequences of remote calls that nothing locks or undoes.

What is hard, therefore: API calls of several users interleave at every remote
call; a client may stop, or one of its connections break, after any of them;
`access_rights` walks the key store by index while others change it; tokens are
loaded before the block and saved after it; a failed remote call may still be
executed. Below the calls, the services serve every connection in a thread of its
own over files that nothing locks; the transport takes whatever one read of a
socket returns for a message; and a service asks another one for a key in the
middle of a handshake. `PROJECT.json` lists these hazards at their lines.

What makes each part correct:

* clients: no update is lost, the keys of two rotations are never mixed in the
  store, the key of a stored block is not lost by what two users do to share it,
  every call ends;
* key store: tokens open for the user they are stored for, only users that were
  granted access have one, and whoever has one is listed;
* data store: the stored block changes only for a caller that knew it;
* remote calls: at most one execution, answers that belong to their call, every
  call returns, a stopped service stops; parameters and results arrive under the
  name they were sent with;
* services: a request that no writer overlaps works as one atomic step; a crash or
  an overlap damages no more than the items being written;
* transport: whole messages in order, or a failure;
* connections: who is not known is not served, who is served is not abandoned.

## Modules

| Module | Models |
|---|---|
| `HermesTypes` | tokens, MACs, stored blocks, and what the cryptographic helpers accept |
| `KeyStore` | key store rules over the example service's directory tree |
| `DataStore` | data store with the MAC check of the example service |
| `MidHermes` | sessions running the nine API calls against both stores; composes the three above |
| `MidHermesProofs` | type correctness, well-formedness of calls and the access properties of the key store, for all constants |
| `MidHermesUpdateProofs` | no lost updates and no mixed key generations in the data store, for all constants |
| `RemoteCall` | what a remote call promises: abstract specification |
| `Rpc` | client, service threads, streams and connections; implements `RemoteCall` |
| `RpcProofs` | that it does, and its safety properties, for any number of calls and connections |
| `ParamPack`, `HashTable` | operators: parameter packs, and the table of a server's functions |
| `Marshal` | what a remote call carries, for every function of the three stores; composes the two above |
| `MarshalProofs` | its three safety properties, for any order of keys, hash function, length and number of calls |
| `StoreRequests` | the requests of data store and key store and what each is allowed to do |
| `AtomicStores` | what the example services promise: abstract specification |
| `FileTree` | directories and files, as the services' helpers use them |
| `StoreFiles` | the two services file operation by file operation; implements `AtomicStores` |
| `StoreFilesProofs` | that only a crash leaves an empty file, for any number of threads, users and values |
| `StoreFilesRefinement` | that `StoreFiles` implements `AtomicStores`, from the invariant of `StoreFilesProofs` |
| `Channel` | what one direction of a connection promises: abstract specification |
| `SecureTransport` | frames over a socket that returns short reads; implements `Channel` |
| `SecureTransportProofs` | that it does, for messages of any lengths and any number of them |
| `Connect` | a client, the three services and their threads: connecting, handshakes, crashes |
| `ConnectProofs` | who is served and who is left waiting, for any number of calls and crashes |
| `MCMidHermes`, `MCRpc`, `MCMarshal`, `MCStoreFiles` | instances for TLC |

**MidHermes.** A session is a `mid_hermes_t`. `pc[s]` is its next remote call,
`req[s]` the API call and its arguments, `bl[s]` the block object, `rights[s]`
the rights list still to work through, `it[s]` the iterator of `access_rights`.
Every API call starts with an action of its own name (`CreateBlock`,
`RotateBlock`, ...) and goes on with one action per remote call, in the order of
the code: for `rotate`, `LoadRtoken`, `LoadWtoken`, `GetBlock`, `Iterate`,
(`NodeRtoken`, `NodeWtoken`, `IteratorNext`)*, `Rotate`, `SetBlockCall`,
`SaveOwnRtoken`, `SaveOwnWtoken`, (`SaveNodeRtoken`, `SaveNodeWtoken`)*. Every
early return of the code is a disjunct that ends the call. Local work between two
remote calls is part of the action before it, or an action where it changes the
block object (`Update`, `Rotate`).

Abstractions: contents and metadata are one value, since they travel together;
a key is a number, drawn fresh by create and rotate; a sealed token records for
whom and by whom it was sealed, and opens only for that pair; a ciphertext opens
only under its key. Calls to the credential store are folded into the action that
needs the answer, because nothing changes it. `readers`, `writers`, `reborn` and
`bl[s].seen` are history that only properties read.

Faults: `Restart` ends a client between any two remote calls; `KeyStoreDown`
breaks one session's key store connection while its data store connection works
on (every later answer is a failure, which `access_rights` takes for the end of
the list). An answer lost after the store has acted is a `Restart` right after
the action.

**Rpc.** One client, one store, a service thread per connection, as the services'
`main.c` start them. A stream is a sequence of units: name, parameters, status,
reply. Which proxies read a reply and which stubs send one are tables taken from
the two sides separately. Connections break anywhere (what was in flight is lost
from some point on), services are stopped, the client starts over on a new
connection while the old thread works on, and a function of another store is
refused, which ends the service with its parameters unread. The transport keeps
the contract of `include/hermes/rpc/param_pack.h`: a receive delivers everything
or fails.

`RemoteCall` is the interface between the two models: `Rpc` implements it
(`RemoteCallSpec`), and a remote call of `MidHermes` is an `Issue`, `Execute` and
`Answer` in one step. That is sound for calls that return, since the executions of
a `RemoteCall` client fall between issue and answer. What `MidHermes` leaves out
is a failed call that is executed after its client has already gone on.

**Marshal.** One connection to one of the stores. A pack is a sequence of typed
values, on the wire a sequence of fields with a kind and a length; a receive by
length takes fields until they add up (as `hermes_transport_receive` does with
frames) and fails when they do not. Reading a pack is the walk of
`hm_param_pack_check_buf_`, one parameter after the other, which must end within the
buffer. A send of nothing fails: of a reply with an empty value everything before that
value is sent, and the service ends. If it was the last value, what has been sent is the
whole pack and the client gets its answer; if not, the client waits for the rest, and
fails when the connection closes. The signatures are written down as the code has
them, four times: what a proxy packs, what a stub extracts, what the stub packs in
reply and what the proxy extracts from it. The client packs what the proxy packs, or
nothing, less, one more, twenty, twenty-one, or a parameter of another type. A value of length 0, which every
proxy refuses and only a client that calls `hm_rpc_client_sync_call` itself could pass, is
not modelled. A store
function refuses, or has results, one of which may be empty. The server's table is
filled by `TableSet` and searched by `TableGet`, under any of the hash functions
given: the real one happens not to collide on the thirteen names, and the model does
not rely on that.

**StoreFiles.** A thread runs a request as a sequence of instructions, one per
system call that matters (`ReadFile`, `Mkdir`, `WriteFile` as open and fill,
`OpenDir`, `Clear`), in the order of the C function; `Admit` is the decision taken
from what was read. `remove_directory` is modelled with its loop: it stops at a name
that has gone and returns 0 in any case. `tree` outlives a crash, the threads do
not. `cell` and `clash` are history: an item's value while nobody writes it, and who
has been overlapped by a writer. The refinement maps an item that two writers
shared, or that a crash found half written, to `Torn`.

**SecureTransport.** The four bytes of a size are two units, so that a size can be
cut; a body is longer than its message. `Readable` is one `read`: any number of the
units that have arrived, and `transport_recv` does not come back for the rest. A
size that was not read whole is any number (an uninitialised variable), of a set
`Garbage`. Themis opens whole frames only, and may refuse one after a gap. A message
is known by its number; `sent` holds the sum of the lengths up to each message, so
that the length of what follows one another is a difference, in `Channel` and in the
receiver's `total_read` alike.

The contract in `include/hermes/rpc/param_pack.h:34` says a receive that got less
must return an error, and the comment at `src/secure_transport/utils.c:42` that
`read_data` does. Neither holds of `transport_recv`, which returns `HM_SUCCESS`
(`common/transport.c:84`). `ChannelSpec` shows why messages are still whole: what was
read short does not unwrap.

**Connect.** A connection is named by its two ends; the client dials the three
services in the order of `hermes_client.c`, and a thread of the key store or the
data store dials the credential store before it turns to its client. A message is
one of the four of the handshake, a key lookup, or a call. `serve[l]` is where the
service's thread is, `dial[l]` what the dialling end waits for, `socks[l]` who still
holds a socket of the connection: a read fails for good only when the other end has
closed. What differs between the services is kept: when a handshake fails, the key
store's thread leaves the client's socket open, the data store's and the credential
store's close it; when the credential store cannot be reached, both leave it open.
`Abandoned` names that state, and the liveness properties say that nothing else
keeps a client or a thread.

## Runs

| Run | Instance | Shows |
|---|---|---|
| `mh_share` | 2 users, 2 sessions, 1 block, 2 contents, 2 key pairs; create, read, update, rotate, grant | `SameGeneration`, `KeyNotLost`, `TokensOnlyToGranted`, `NoLostUpdate` |
| `mh_faults` | 3 users, one without a public key; owner shares, rotates; other updates, denies, deletes; crashes and broken key store connections; fair steps | `TypeOK`, `SameGeneration`, `TokenHoldersListed`, `TokensOnlyToGranted`, `CallsEnd` |
| `mh_revoke` | 2 users that grant, deny, update and delete | `TokensOpen`, `TokenHoldersListed`, `NoLostUpdate` |
| `rpc_calls` | key store, 2 calls, 2 connections; a function with a status, one with a reply, one not registered; fair threads | `TypeOK`, `AnswersMatch`, `StopsSoon`, `RemoteCallSpec`, `CallReturned` |
| `store_files` | a block and the tokens of two users; workloads of requests of both stores, on threads; crashes | `AtomicUnlessDisturbed` (refines `AtomicStores`), `EmptyOnlyByCrash` |
| `secure` | messages of two lengths, receives of any of them, short reads and a break anywhere | `ChannelSpec` (refines `Channel`), `ReceiveReturns` |
| `connect` | one client, 2 calls, 3 crashes | `TypeOK`, `UnknownNotServed`, `EstablishedNeverAbandoned`, `ClientEnds`, `ThreadsEnd`, `StoreNeverAbandons` |
| `marshal` | thirteen functions, three stores, two hash functions, 2 calls | `ArgumentsArrive`, `ResultsReturn`, `RefusalsExplained`, `RemoteCallEnds` |

Bounds. `MaxKeys` caps the key pairs drawn by create and rotate: two pairs give
one create and one rotate, or two creates, in every interleaving; the properties
compare two generations at most. Two users and one block are enough for every
disagreement between a caller and one other party; a third user, without a public
key, is there where the rights list must meet an unknown name. In `mh_faults` the list
that a rotate or delete reads by index changes under it: the other user denies the owner
or itself while the owner rotates, so that a row is skipped, and the owner's rotate saves
its row again while the other user's delete reads, so that a row is met twice. In `rpc_calls`,
`MaxCalls` 2 and `MaxConns` 2 let a call fail on one connection and the next be made
on a new one while the old thread still works. In `store_files` two threads, two values, one block
and two users give every pair of overlapping requests; a thread takes any number of
requests one after the other, and the service may die any number of times. Each
workload mixes the requests that touch each other's files. In `secure` three messages
and receives of up to three units let a receive take one, two or three frames, and
leave a frame unread before the next; the one size that reads as `HM_FAIL`
(0x000f0001 in the code) is the size of the largest message here, so that it occurs;
in place of a size that was not read there is any number from 0 to 6, which covers
every size of a frame and one on either side.
In `marshal` the second call is the one that meets what the first has left; in
`connect` three crashes let each service die once, or one of them again and again.
All other state is finite by itself: no state constraint is used. Deadlock is checked in
the `MidHermes` and `StoreFiles` runs (a session can always start a call, a thread a
request); in the others it is not, because a client with no more calls to make and a
service waiting for one is a state the system may stay in.

Fairness. `mh_faults` assumes that a started API call is carried on (`WF(Step(s))`);
`rpc_calls`, `marshal` and `secure` that the threads at both ends run and, where
functions are called, that they return; `connect` that the client and every
service thread run as long as they can. No fairness is assumed of callers, faults,
stops, crashes, restarts or thread creation. The code has no timeouts: a peer that
stays connected and never answers blocks its client for ever. `Connect` shows where
that happens in this code: `ClientEnds` and `ThreadsEnd` hold but for `Abandoned`
connections.

### Disagreements between the code and what is said of it

Four runs state something the repository says and end with a counterexample:

* `v_abort` (`NoAbort`): `assert(i)` in `access_rights` fails when the block's rows
  are removed between the load and the iteration.
* `v_deny` (`OnlyGrantsGiveAccess`): a denied user gets its tokens back from its own
  update that was in progress (the example test expects the read to fail).
* `v_overwritten` (`KeyNotLost`): with two clients of one user and nobody else, the
  update of one saves the tokens it has loaded after the rotate of the other has saved
  new ones. The block stays under a key of which the key store has no copy, and no
  access was taken away.
* `v_reborn` (`UpdateChecked`): an update in progress puts a deleted block back, with
  no check on the server.

`KeyNotLost` holds in `mh_share`, for two clients of two different users where nobody
takes access away, and no further. Besides `v_overwritten`, it fails when the owner denies
a rotating user between the save of its own tokens and the save of the others' (which the
key store then refuses, since their owner has none), and when a third user's grant is in
flight while the others rotate. It is a property of that instance and no theorem.
`SameGeneration`
makes an exception for blocks put back by an update (`reborn`), which is what
`v_reborn` shows.

One more race has no run of its own, since `mh_faults` meets it on the way. The rights
are read by index (`IteratorNext`): when another user removes a row that the iterator has
passed, the next one moves into its place and is never read. `rotate` then succeeds, and
a user whose access nobody took away keeps a token with the old key and cannot open the
block. For two users: `u1` rotates and its iterator has passed `u1`'s row; `u2` denies
`u1`; the next index is past the end, and `u2` gets no new token.

Four more are certain rather than races, and no run is spent on them. A row without a
read token (update granted without read, or read denied and an update token granted
again) leaves `access_rights` without a list (`NodeWtoken`): from then on `rotate` fails
for everyone, and `delete` removes the block and the caller's row, returns success and
leaves the others' tokens. Deleting a
shared block removes the caller's own row first, and `DelPermitted` then refuses the
removal of the others': `delete` fails with the data gone and their tokens left,
although the README speaks of as many copies of the keys as there are users.
`db_get_indexed_rights` sets the write bit for users without a write token (the
client ignores the mask). The loops of `rpc/buffers_list.c` do not advance, and
nothing calls them.

## Proofs

The theorems about `MidHermes` hold for every set of users, blocks, contents and
sessions, every workload `Ops`, any `MaxKeys`, and with both kinds of fault. They rest
on the assumptions named in the modules: registered users are users, sessions belong
to registered users, directories have distinct positions, and `None` is none of the
other values. Those about `Connect` hold for any `MaxCalls` and `MaxCrashes`, which
need only be natural numbers; that there is one client and one of each service is
part of the model.

* `TypeCorrect`, `CallsWellFormed` (`MidHermesProofs`): `TypeOK` is not inductive by
  itself, since an action reads fields of a token that may be `None` and takes the
  head of a list that may be empty. `TypeInv` adds `Shape`: at each label, which of
  the block object's tokens are present, which request fields are set, when the
  rights list is not empty and what its nodes hold. One step per action.
* `StoredTokensOpen`, `NoAccessWithoutGrant`, `HoldersAreListed`
  (`MidHermesProofs`): the inductive invariant `AccessInv` says of the tokens
  in flight (block objects, iterators, rights lists) what the properties say of the
  stored ones: they open for the user they are meant for and that user was granted
  the access. Without it a save could store a bad token. A node of the rights list
  must in addition belong to a user with a public key, or a save could list a user
  that the next rotate cannot load.
* `UpdatesNotLost`, `GenerationsNotMixed` (`MidHermesUpdateProofs`): three invariants,
  each resting on those before it. `ContentsInv`: a stored MAC is of the contents
  beside it, and the MAC a session shows to the data store is of the contents it has
  decrypted; what passes the comparison of `db_set_block` and `db_rem_block` has
  therefore read what it replaces. `KeysInv`: until its block is saved, the pair of
  keys of a create or rotate is in no key store row and with no other session, because
  tokens are saved after the block. Each step either draws the next pair (`Draws`) or
  passes on keys that are already known (`Learns`), and one lemma for each of the two
  preserves the invariant. `GenerationInv` adds to `SameGeneration` what holds of an
  update in progress: either its two tokens are of one generation, or the data store
  refuses it and no later write can change that, since a later write key is either
  fresh or the one that is there. `SameGeneration` alone says nothing of sessions.

* `TypeCorrect`, `ConnectionsKept`, `UnknownClientNotServed`, `StoreCloses`
  (`ConnectProofs`): the inductive invariant `IInv` says that the ends of a connection
  take turns. `Turn` relates the state of the dialler, the state of the server and the
  messages under way: at most one message in either direction, none while a service
  looks up a key, and once the last message of the handshake is sent, the server's
  thread is there or has closed its socket. Without the first part a reply could meet
  one that nobody read; the last part is what `EstablishedNeverAbandoned` lacks, since
  the dialler becomes established by a step of its own. `ClientTurns` and `StoreTurns`
  say when the client and a service may send the next request. One lemma per action.
  `UnknownClientNotServed` adds `KeyUnknown`, which no step ends: the credential
  store has no key, no thread has gone past the lookup, and no answer under way says
  that a key was found.

* `Types`, `AnswersAreForTheirCalls`, `StoppedServicesStop`, `ImplementsRemoteCall`
  (`RpcProofs`), for any `MaxCalls` and `MaxConns`: on the connection in use the client
  and the service thread take turns, and what the client has sent and not yet received
  an answer to belongs to its current call, in the order in which the stub reads it; on
  a broken or abandoned connection everything that is left belongs to calls that have
  failed; a call is held by at most one thread. Without the second part an old
  connection could execute a call again; `AnswersMatch` alone says nothing of the units
  under way. The step map is: `SyncCall` issues; the service's execution, or its refusal
  of a name that is not registered, executes; the client's last receive answers; a
  failure of the client, or a new connection during a call, fails. Everything else is a
  step of its own that `RemoteCall` does not see.
* `ImplementsChannel` (`SecureTransportProofs`), for any set of lengths, any `MaxSends`,
  any number that means failure and any `Garbage`: the units still to be read, those
  under way and the next that the sender writes, form a run of whole frames in order
  (`Framed`), the messages in the receive buffer follow each other and `total` is their
  length (`Received`), and unless a receive has failed the next unit is the one the
  receiver expects (`InStep`). The last is what a short read breaks, and why the code may
  return success for it: what was read short does not unwrap, and from there on `lossy`
  holds. The last `ReadBody` of a receive delivers, a failure fails, everything else is a
  stutter. `Channel` alone is too weak to be inductive, since it does not know of the
  units.

* `InvariantHolds`, `EmptyFilesOnlyByCrash` (`StoreFilesProofs`), for any number of
  threads, users and values, from `StoreFilesAssumption` alone. `EmptyOnlyByCrash` is far
  from inductive: that a thread fills a file it has opened says nothing unless the thread
  knows which file that is, and a repaired item must really have its new value in all of
  its files. `IInv` therefore says where a thread is in its request: `Reading` (what it
  has read is what the files hold, if nobody disturbs it), `Storing` (what the earlier
  instructions stored is there) and `Removing` (what the listing still names is there,
  the rest is gone), each only for an item that no other thread has touched (`Alone`);
  `HistoryOK` says that who is overlapped is marked and that an item nobody writes is
  what its files say; `TreeOK` that files are parts of items in directories that exist.
  A step changes the thread that takes it, the files of the items it writes, and the
  threads whose open file it unlinks: `Moves` says so once, `MovesKeep` proves that such
  a step keeps the invariant, and for every action there is a lemma that it is one.
* `ImplementsAtomicStores` (`StoreFilesRefinement`), from that invariant. `Moves` also
  says what a step tells the client and from which items (`Told`): the answer of a
  request that reads, its refusal and its permission follow from the items as they are
  when it ends or starts to write, if no writer has overlapped it, because what it read
  earlier is then still in the files. The step map is: a request that arrives is `Call`;
  the step from the decision to the first instruction that writes is `Permit`; the last
  step is `Complete` for a writer, `Refuse` for a request that wrote nothing but would,
  `Get` for one that only reads; a crash is `Crash`; all other file operations are
  stutters. `HistoryOK` makes a request overlapped in `StoreFiles` exactly when it is in
  `AtomicStores`, and `Moved` a complete write the new value of the whole item.

* `ArgumentsAlwaysArrive`, `ResultsAlwaysReturn`, `RefusalsAlwaysExplained`
  (`MarshalProofs`), for any `Order` that contains the names, any `DataLength` above
  zero, any set of hash functions and any `MaxCalls`. None of the three is inductive: they
  speak of what has been delivered, and a step can be wrong because of what is under way.
  `IInv` says that the two ends are in step (`InStep`): what is under way is what is left
  of the request of the last call (`Asked`) or of its reply (`Answered`), beginning with
  the field that the receiving end expects, or the store has no such function
  (`Rejected`), or nobody waits for anything (`Waits`). After half a request (a name
  without a pack) the server takes lengths for packs; `HalfRead` says that it is then
  never offered anything it could run, because what it gets as a pack is a name, and
  `OutOfStep` that nothing succeeds from there on. Under it are the lemmas about the
  operators: bytes grow with every field, so that a receive ends where the sender ended
  (`BytesSum`, `TakesLead`); the concatenation of the parameters' fields has each
  parameter where the walk looks for it (`FlattenPlaces`, `WalkWalks`, `AfterRange`), so
  that the body of a pack without empty values is readable (`ReadsAll`), and whatever is
  readable and begins like a body unpacks to the pack (`ReadsBack`), also a reply that was
  cut off at its empty value (`ReplyRead`); an entry inserted where the
  search stops keeps its chain sorted, and a search of a sorted chain finds what is in it
  (`InsertSorts`, `SearchFinds`, `FuncTableIs`); and the signatures of proxies and stubs
  are equal (`SignaturesAgree`). The recursive functions (`Bytes`, `Walk`, `FuncTable`, and
  the fold behind `FlattenSeq`) are reasoned about with `UpTo`, which is induction over
  numbers with a set in the place of a predicate, proved from the least element of the
  set's complement.

Only model-checked: `KeyNotLost` (no theorem, see above), and liveness, which is out of
the prover's reach (`CallsEnd`, `CallReturned`, `ReceiveReturns`, `RemoteCallEnds`,
`ClientEnds`, `ThreadsEnd`).

## Not modelled

* Late execution of a failed call in `MidHermes` (`Rpc` shows that it happens), and
  damaged items there (`StoreFiles` shows which there can be).
* `buffers_list`, `hm_param_pack_write` and `common/buffer.c`: no behaviour of the
  library reaches them.
* A read of half a file: `StoreFiles` reads a file in one step, and says nothing of a
  reader that a writer overlaps.
* `db_get_indexed_rights` at file level; `KeyStore` has it as one operation.
* `mid_hermes_low_level`, the example on local files without a server, and the
  `argv` handling of the clients.
* Themis, beyond what a handshake, `wrap` and `unwrap` promise; memory management.
* `gohermes` and `pyhermes`: bindings, with no state of their own.

## Plan

Done: `HermesTypes`, `KeyStore`, `DataStore`, `MidHermes` with runs and the type,
access and update proofs; `RemoteCall` and `Rpc`; the services at file level (`StoreFiles`
against `AtomicStores`); `SecureTransport` against `Channel`; `ParamPack`, `HashTable`
and `Marshal`; `Connect`; the proofs above, with the refinements of `RemoteCall`,
`Channel` and `AtomicStores`. Every invariant and action property of the runs but
`KeyNotLost` has a theorem. Next: late execution and the results of API calls in
`MidHermes`.
