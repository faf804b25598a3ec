# Verification of the Delta chain node

Delta is a blockchain node (`programs/deltad`) in the Graphene family: blocks
arrive from peers or are produced by witnesses, are applied to a state kept in
a memory-mapped file (chainbase), may be undone again when a longer branch
shows up, and end up in an append-only block log once they are irreversible.
This directory holds TLA+ specifications of the parts that decide whether a
node keeps the right chain, gets it from its peers, schedules its witnesses and
keeps its books, TLC configurations that check them on small instances, and
TLAPS proofs about eight of them.

## Inventory

| part | code | state | operations | modelled |
|---|---|---|---|---|
| chainbase index | `libraries/chainbase` `generic_index` | table, next id, deque of undo states, revision | emplace, modify, remove, start session, undo, squash, commit, set_revision | `UndoIndex` |
| chainbase locks | `chainbase.hpp` `with_read_lock`, `with_write_lock`, `read_write_mutex_manager` | ten mutexes, the number of the current one | lock, time out, next_lock | `WriteQueue` |
| fork database | `libraries/chain/fork_database.cpp` | index of recent blocks, linked by weak pointers; head; size | push, pop, remove, set head, fetch branches, trim | `ForkDatabase` |
| chain database | `libraries/chain/database.cpp` | chain state, undo history, pending transactions, fork database, block log | open, reindex, close, push_block, pop_block, push_transaction, generate_block, migration of irreversible blocks | `ChainDatabase` |
| block log | `libraries/chain/block_log.cpp` | a file of blocks and an index file, each behind a buffered stream | open with repair, append, flush, read, close | `BlockLog` |
| chain plugin | `libraries/plugins/chain/chain_plugin.cpp` | queue of write contexts, write thread, `running` | accept_block, accept_transaction, generate_block, shutdown | `WriteQueue` |
| application | `libraries/appbase` | plugins in start order | shutdown | `WriteQueue` (the order of shutdown) |
| ledger | `libraries/chain/delta_evaluator.cpp`, `database.cpp` | accounts, balances, orders, escrows, savings, comments, rewards | one evaluator per operation, maintenance per block | `Vesting`, `WitnessVotes`, `Market` |
| witness schedule | `witness_schedule.cpp`, `database.cpp` | votes, keys, virtual time, the scheduled witnesses | vote, change key, update schedule | `WitnessSchedule` |
| network node, p2p plugin | `libraries/net`, `plugins/p2p` | connections, lists of blocks to get, requests, received blocks | messages, fibers, time-outs, synopsis, handle_block | `PeerSync`; as callers in `WriteQueue` |
| condenser API broadcasts | `plugins/apis/condenser_api` | callbacks by transaction id and by expiration | synchronous broadcast, on block, expiry | `SyncBroadcast` |
| witness plugin | `plugins/witness` | none that others change | produce or not | no |
| resource credits | `plugins/rc` | manabars, pools | consume, regenerate | no |
| read-only APIs, JSON-RPC, web server | `plugins/apis`, `plugins/json_rpc`, `plugins/webserver` | none of their own | queries | threads in `WriteQueue` |
| observer plugins, RocksDB history, wallet, tools, SMT, protocol types, fc | - | - | - | no, see the end |

How they interact:

- The p2p thread, the API threads and the witness plugin hand writes to the
  chain plugin. Each puts a context on its own stack into a lock-free queue and
  waits on a promise; one write thread takes the contexts out and calls the
  database under chainbase's write lock. API threads read under the read lock.
- `push_block` undoes the pending transactions, asks the fork database which
  branch is the longest, pops and applies blocks, each in an undo session of the
  state, moves blocks that became irreversible to the block log, and pushes the
  pending transactions again.
- The state, its undo history included, lives in a memory-mapped file, so it
  survives a crash at whatever point it was; the block log survives as far as it
  was flushed (or further); everything else is lost. `open` undoes all sessions
  and asserts that state and log agree.
- Blocks come in by two routes. A node that is behind sends a peer a synopsis of
  its chain, gets a list of block ids, requests the blocks and hands them over in
  order; a node that is in sync gets advertisements and fetches single blocks. A
  block whose parent is missing puts the node back into the first mode.
- Applying a block calls back into plugins. The condenser API answers the threads
  that wait for a transaction from there, in the write thread.
- Shares that an account vests decide the votes of witnesses, its own and those
  of the accounts it is a proxy for; the votes decide the schedule.
- At shutdown the application stops plugins in the reverse order of their start.

What is hard here: the change sets of nested sessions and their merging; a fork
switch that fails half way and is taken back; a crash between appending,
flushing and committing; two files that a crash cuts at different places; a
stream shared by a writer and by readers; contexts on foreign stacks; lock
timeouts that put a writer beside readers; threads that wait for each other at
shutdown; callbacks into stacks of other threads; two lists that are merged while
the peer changes its mind; clocks that wrap around; amounts that round.
`PROJECT.json` lists these as hazards, each at its line, with the
properties that are aimed at it.

## Modules

| module | stands for |
|---|---|
| `SnapshotStore` | abstract: a table with a stack of whole-table snapshots |
| `UndoIndex` | `generic_index` with its change sets; implements `SnapshotStore` |
| `UndoIndex_proofs` | theorems about `UndoIndex` |
| `ForkDatabase` | the fork database as operators on a record |
| `ChainDatabase` | the chain database; uses `ForkDatabase`, the snapshot view of the state that `UndoIndex` is shown to implement, and the log that `BlockLog` is shown to implement |
| `MCChainDatabase` | the block trees of the runs |
| `ChainDatabase_proofs` | theorems about `ChainDatabase` |
| `LogStore` | abstract: a log that grows at the end and keeps what was flushed |
| `BlockLog` | the two files of the block log; implements `LogStore` |
| `BlockLog_proofs` | theorems about `BlockLog` |
| `WriteQueue` | write queue, locks, readers, shutdown |
| `MCWriteQueue` | the threads of the run and the default start order |
| `WriteQueue_proofs` | theorems about `WriteQueue` |
| `SyncBroadcast`, `MCSyncBroadcast` | synchronous broadcasts of the condenser API beside the write thread |
| `SyncBroadcast_proofs` | theorems about `SyncBroadcast` |
| `WitnessSchedule` | votes, virtual time and the choice of the scheduled witnesses |
| `WitnessSchedule_proofs` | theorems about `WitnessSchedule` |
| `PeerSync`, `MCPeerSync` | the sync of one node with one peer, other peers as a source of blocks |
| `Vesting`, `MCVesting` | powering up and down, delegation |
| `Vesting_proofs` | lemmas about sums and theorems about `Vesting` |
| `WitnessVotes`, `MCWitnessVotes` | votes for witnesses through proxies |
| `Market`, `MCMarket` | limit orders and their matching |
| `Market_proofs` | theorems about `Market` |

The operators with an underscore and a suffix (`CommitTo_OneMore`) and a comment
that starts with "Slip" are deliberate mistakes. Nothing uses them in the
specifications; put in the place of the definition they precede, each makes TLC
refute the property `PROJECT.json` pairs it with, which shows that the property
depends on that line of the code.

### UndoIndex

`objs`, `next_id`, `stack` and `revision` are `_indices`, `_next_id`, `_stack`
and `_revision`. An object is a key and some data; the key stands for the fields
under unique secondary indices. The three containers of an `undo_state` are
`old_values` and `removed_values` (tables, `None` where nothing is recorded) and
`new_ids`. `OnCreate`, `OnModify`, `OnRemove` are the code's `on_create`,
`on_modify`, `on_remove`; `Undone` is the outcome of the three loops of `undo()`,
and `UndoFails` and `PartlyUndone` say when one of them throws and what it leaves;
`Merged` is the body of `squash()`. `undo_all()` is `Undo` repeated. The
behaviour of `boost::multi_index` (`modify` erases an object whose new key
clashes, `emplace` refuses) is taken from how chainbase uses it. After an
exception half way the model stops (`failed`): the callers of chainbase do not go
on from there. `MutableKeys` says whether modifiers may change unique fields. No
object of this chain does so in a way that can clash.

### ForkDatabase and ChainDatabase

The fork database is a record: `index` (the block ids), `linked` (blocks whose
weak pointer to the previous block was set when they were pushed and is used by
walks), `head` and `max_size`. The unlinked index of the code is never filled and
is left out.

In `ChainDatabase` blocks and transactions are names. The constants give a tree
of blocks (`Previous`, `Num`), who signed each (`WitnessOf`), which transactions
it has (`TrxOf`), which transactions exclude each other (`Conflicts`) and which
blocks are refused whatever the state is (`Invalid`). Blocks have a timestamp
(`TimeOf`), and a transaction refers to a block (`RefBlock`, the code's number and
prefix) and expires (`Expiration`). `Timely(t, h)` is what `_apply_transaction` asks of
these with h as the head: the block referred to is on the chain, the expiration is
neither past nor further away than `MaxTimeUntilExpiration`. With the duplicates and
the conflicts it makes up `TrxApplies`, which decides about pushed transactions, about
those of a block and, in `Accepted`, about the popped and pending ones that are pushed
again. `Known` is the transaction index after `clear_expired_transactions`, which the
restorer asks before it pushes a transaction again. The chain state `db` keeps what
decides about blocks: head, last irreversible block number, the last block confirmed by
each witness, and the set of applied transactions. All tables are undone and committed
together. `Generate` passes over pending transactions that have expired at the new
block's time and takes those that apply.

A call runs alone (that is what `WriteQueue` is about), but it is cut into steps
with `pc` and `job`, because a crash can come between any two writes to the
memory map or the log:

| action | code |
|---|---|
| `Push`, `Generate` | `push_block`, `_generate_block` up to the decision of `_push_block` |
| `Pop`, `PopFails`, `Unwound` | the loops around `pop_block` |
| `Apply`, `ApplyFails`, `BranchFails` | `apply_block` in its session; the exception paths of `_push_block` |
| `AppendToLog`, `CommitBlock` | `migrate_irreversible_state`, and `session.push()` |
| `Requeue` | the destructor of `pending_transactions_restorer` |
| `PushTransaction` | `push_transaction` |
| `Close`, `Crash`, `Open`, `Reindex`, `ReplayBlock`, `ReplayFails`, `EndReplay` | `close`, the death of the process, `open`, `reindex` |

### BlockLog

Positions count records: record k starts at position k - 1, so the first
position is 0, as in the file. `block_write` and `index_write` tell whether a
stream is open for writing; only then does `flush()` do anything, and a switch to
reading closes the stream, which writes its buffer. A crash keeps any number of
whole records beyond what is on disk, in each file separately. Every call holds
the log's mutex, so it is one step.

### WriteQueue

`call` and `stored` are the contexts of the callers (promise, outcome); `thread`
is the write thread's position in its loops. The locks are an array of
`NumLocks` that is gone through in a circle. `shared` counts the readers a mutex
knows of: `next_lock` counts `_current_lock` on (`Timeout`) and then constructs the
mutex in its place (`Renew`), so a reader that took it in between is forgotten and
its unlock counts below zero. Time is nondeterministic: a wait may run out
whenever it has to wait. `up` and `refused` are the shutdown of the application:
`ShutDown` is `plugin_shutdown` of the last plugin, `Join` the moment its threads
are joined.

- The threads of a plugin are joined by its own shutdown: the web server joins
  its pool, the p2p plugin quits and joins its thread, the chain plugin joins the
  write thread. The witness plugin calls from the main thread and is never inside
  a call when shutdown runs.
- The default start order is chain, p2p, web server (`programs/deltad/main.cpp`
  initializes them in this order). Another order can be configured; see the
  hazard at `appbase/application.cpp`.
- `running` is a plain `bool` in the code. It sits beside atomic operations on
  the queue in a loop that calls `sleep`, and is read as such.

### SyncBroadcast

A call goes through the states of `broadcast_transaction_synchronous`: it puts its
callback into the table (`Register`), waits for the write thread to accept or
refuse the transaction (`Accept`, `Reject`), broadcasts it or takes the error path
(`Broadcast`, `Catch`), and waits for its promise (`Return`). `callbacks` says whose
promise the entry of a transaction sets, `expirations` is `_callback_expirations`.
`ApplyBlock` is the part of `_apply_block` before the notification,
`OnPostApplyBlock` the handler, which needs the mutex, and `Migrate` what comes after it:
callers can come in between. `MigrationFails` is `migrate_irreversible_state` throwing
(`database.cpp:3260`) after the handler has answered clients (3252): the block's session
is undone and they are not told. `SwitchForks` pops the chain to a fork and the blocks of
the new branch follow by `ApplyBlock`; `BranchFails` is an exception in one of them,
before or after its handlers, after which what was applied is popped and the old
branch applied again, with its handlers. `TakeBackTo` is common to the three.
`Restore` is the end of a push: what comes back to the pending transactions. A block has
a time, blocks may leave slots out, and a transaction goes into a block or stays
pending only if `Admissible`. `shaken` remembers who was answered before blocks were
taken back; no action reads it.

- The blocks that are put back after `BranchFails` are arbitrary ones of the same
  numbers; the real ones are among them.
- An old branch that fails when it is put back is left to `ChainDatabase`.

### WitnessSchedule

`votes`, `position`, `lastUpdate`, `due` are the `votes`, `virtual_position`,
`virtual_last_update` and `virtual_scheduled_time` of a witness, `now` is
`current_virtual_time`. All are numbers modulo `Lap + 1`, as the code's are modulo
2^128, and the length of a lap is the largest of them (`config.hpp:265`); a sum or
product that is too large wraps (`Wrap`) exactly where the code computes it.
`UpdateWitnessSchedule` is the whole of `update_witness_schedule4`: elected
witnesses, the ones whose turn it is, the move of those that were looked at, the
reset on overflow. There are no miners (`max_miner_witnesses` is 0 since hardfork
17), and the order within a round, the medians and the hardfork votes are left
out: nothing here depends on them.

### PeerSync

One node (`db`, `recent`, `received`, `tasks`, `wanted`) and its connection to one
peer (`peer`, with the fields of `peer_connection` that the sync uses). The network
thread runs fibers one at a time: `run` is the queue of those that are ready, in
the order `process_tasks` takes them, so a handler is one step up to the point
where it yields, and the handlers interleave as the code's scheduler lets them.
Messages arrive in order, as over TCP; the connection can break (`LoseConnection`)
and the peer can stop answering (`FallSilent`). The peer follows the protocol and
its chain grows and forks; `Answer` is the same code on the other side. `OtherBlock`
is a block that some third node brings. `wanted` is `_items_to_fetch`: one item is asked
of an idle peer at a time, the others stay there until the next trigger, also when
the connection is lost. The peer may also synchronize from us (`PeerAsks`):
`peer.needsUs` is `peer_needs_sync_items_from_us`, which our answer sets.

- `Implausible` is the comparison of the number of blocks a peer claims with the time
  they would take. A block's time is its number, and now is the time of the newest
  block of the two nodes.
- There is no `item_not_available` answer: a peer that follows the protocol has what it
  listed or advertised, since nothing it knows is forgotten within a run.
- What the peer does with our list and our blocks is not followed (`PeerAccepts` lets it
  accept blocks at any time).
- The restart of the sync in `AcceptBlock` (`node.cpp:3207`) is in the model with its whole
  guard, but needs a second syncing peer to happen: the fibers of one connection run
  in an order in which the lists are never empty there with the peer still ahead.

| action | code |
|---|---|
| `Connect`, `FetchNextBatch` | `new_peer_just_added`, `start_synchronizing_with_peer`, `fetch_next_batch_of_item_ids_from_peer` with both halves of the synopsis |
| `Inventory` | `on_blockchain_item_ids_inventory_message` |
| `FetchSyncItems`, `ReceiveBlock`, `ProcessBacklog`, `AcceptBlock` | the loops and tasks that request, collect and hand over blocks during the sync |
| `Advert`, `FetchItems`, `NormalBlock` | the normal route |
| `Asked`, `PeerAsks` | `on_fetch_blockchain_item_ids_message`, and the peer's own start of a sync |
| `TerminateInactive` | `terminate_inactive_connections_loop` |

### Vesting, WitnessVotes and Market

The ledger under the rules since hardfork 20. An operation that an assertion
refuses is no step; maintenance (a weekly part of a power-down, a returned
delegation, an expired order, declined voting rights) may fall due with any block,
so it is an action without a clock. Amounts are small integers and every
conversion is the code's: `asset * price` multiplies and divides down, in the order
and with the operands of the source, because what the properties ask is what the
rounding does.

- `Vesting`: `shares`, `delegated`, `received` and `down` are the fields of an
  account; `ProcessVestingWithdrawal` is one turn of `process_vesting_withdrawals`
  with its two passes over the routes; `Delegate` and `Undelegate` are the three
  branches of `delegate_vesting_shares`.
- `WitnessVotes`: `proxied` is `proxied_vsf_votes`, one number for each depth.
  `AdjustProxiedWitnessVotes` walks up the chain of proxies and adds the differences
  with the code's shift by the depth. The functions that change shares are reduced
  to what they do to votes; `WithdrawShares` has one account that the withdrawn shares
  are vested to, where the code adjusts the votes of up to ten, one after the other
  (`database.cpp:1690-1717`).
- `Market`: an order is a seller, the asset it sells, an amount and a price.
  `ApplyOrder` folds `MatchNext`, one turn of the loop of `apply_order`, over
  `Candidates`, the range of the price index that it walks through, in the order
  `Before` of that index, until `match` says that the new order is done; `ok` is
  false when an assertion of `match` or `fill_order` would throw.

## Runs

Runs that pass:

| run | shows | instance |
|---|---|---|
| `undo_index` | change sets behave as whole-table snapshots through every order of create, modify, remove, squash, undo, commit; undo never throws; ids are not reused; unique keys stay unique; revisions have no gap | 2 ids, 2 keys, 2 data, 3 nested sessions, modifiers leave keys alone |
| `block_log` | after any crash, `open` leaves a log in which every block is found by number and the next can be appended; flush reaches the disk even when a reader switched the streams; the two files implement `LogStore` | 8 blocks |
| `chain_forks` | with three valid branches, two of them of one witness alone, in every order, transactions, generated blocks, crashes, restarts and replays: undo history, log, fork database and pending transactions stay together; the log only gets blocks of the node's own chain | 9 blocks, 3 transactions that expire or depend on a branch, 3 witnesses, voting from block 3 on |
| `chain_bad_branch` | a longer branch fails half way, another leaves the chain below its last irreversible block, and the first block a node sees may be any: a failed switch restores the old head and passes over no longer branch the node could get to, no transaction is lost that the new head would still take, calls return | 8 blocks, 3 transactions, one that expires, one that refers to a block of one branch, one that expires late |
| `write_queue` | contexts outlive their use and hold complete outcomes when the caller goes on; no read beside a write before the first timeout; the database is closed alone; every write is answered and a shutdown begun at any moment ends | 2 callers, 2 readers, 2 locks, 3 timeouts |
| `sync_broadcast` | a callback in the table sets the open promise of a call that is still there; what a client is told is true and stays so until blocks are taken back; every call ends | 2 threads, 1 transaction, 3 slots, blocks taken back twice, by switches and failed migrations |
| `witness_schedule` | virtual time wraps only where the code looks for it; enough keys fill the schedule; everyone with a key and a vote gets a turn | 3 witnesses, 2 places, 1 elected, lap 7 |
| `peer_sync` | answers of a correct peer are never refused; blocks to get link to known ones; the assertions on synopses and merged lists hold; the node gets the peer's chain or waits in one of two named ways | 7 blocks with a fork, lists of 2, 1 loss or silence, 1 sync from us |
| `vesting` | shares and tokens are conserved; delegations are backed; parts of a power-down add up to what was asked for | 2 accounts, 5 shares for 2 tokens |
| `witness_votes` | the votes of a witness, and every tally on the way, are the shares that stand behind it within the depth limit | 5 accounts, depth 3, 3 shares, 1 witness |
| `market` | matching never hits its assertions; the book stays uncrossed and free of orders worth nothing; trades respect limits, price and age | 2 accounts, 3 prices, 3 orders |

One run shows a disagreement between the code and what is said of it (the finding
in `PROJECT.json` quotes the lines):

| run | shows |
|---|---|
| `chain_migration` | a refused block on top of the head leaves the fork database's head on a block it no longer has; a block of the chain that is then delivered again is removed from the fork database, and a later valid block is refused because its migration does not find it |

### Conditions in the properties

Some properties hold under a condition that the property names, because the code
does something else outside it:

- `undo_index` has `MutableKeys = FALSE`. If two objects exchange unique keys in one
  session, `undo()` gives them their values back one at a time, the first clashes and
  is erased, and `undo` throws half way (`chainbase.hpp:329`). No object of this chain
  does that.
- `IndexComplete` holds for logs of more than one block: `construct_index` writes an
  empty index for a log of one block (`block_log.cpp:371`).
- `FailedBranchKeepsHead` speaks of a branch that fails while it is applied. A branch
  from below the oldest undo session fails while the old one is popped, outside the
  `try` block, and leaves the chain lower (`database.cpp:720`); `CallReturns` and
  `NoTransactionLost` cover that case too.
- `AdoptsLongest` excepts the case that the node knows a higher block whose branch does
  not stand on the committed state: the attempt to switch to it fails while the
  old branch is popped or when the branches are fetched, and the node may stay lower
  than the chain it knows. A switch that fails otherwise must leave nothing higher
  behind.
- `NoTransactionLost` excepts transactions that the new head would refuse whoever sent
  them (`~Timely`): expired, expiring too far from a head that is now lower, or referring
  to a block that was abandoned. `db_with.hpp:80` and `:124` say that these are culled. It
  also excepts the ones a transaction now applied conflicts with.
- `OnlyIrreversibleWritten` is checked on the tree of `chain_forks` and proved for trees
  without refused blocks. On the tree of `chain_migration` it fails: when the block that was removed from
  the fork database is the one to be written, and a block of another branch has its
  number, that one is now the only one of the number, and
  `fetch_block_on_main_branch_by_number` returns it (`fork_database.cpp:228`).
- `WriterExcludesReaders` speaks of the time before the first timeout. When the
  writer moves on to the next lock, readers that waited behind it are let in on the
  old one (`chainbase.hpp:1021`), short reads too.
- `EveryCallAnswered` and `ShutdownEnds` assume `CountsRight`: a reader that took a lock
  between the two halves of `next_lock` takes the count of the fresh mutex below zero.
- `CallbacksMatchCalls` and `CallEnds` except the case that, after blocks were taken back,
  the error path of one call erases the callback of another call with the same
  transaction (`condenser_api.cpp:1716`); nobody answers that one any more.
  `AnswerStands` is about answers until blocks are taken back: a confirmation is undone
  with its block, by a switch or because the migration throws after the handlers ran,
  and the API does not promise otherwise. It covers the answers given afterwards,
  on the chain as it then is.
- `ScheduleCanBeFilled` and `TakesTurns` assume as many witnesses with a key as there are
  places (or that nobody gave the key up): with fewer the assertion at
  `witness_schedule.cpp:242` stops the chain.
- `ReplyFits` speaks of one request on its way: two blocks without a parent restart
  the sync twice (`node.cpp:3569`), and the first answer is then held against the
  second synopsis. It has no exception for `Implausible`: no list of a correct peer is
  refused for that in the run.
- `CatchesUp` has no premise, but names the two states in which a node does not get its
  peer's chain and stays. `LeftOver`: every block on the list has been received while
  the list was another one (a disconnect left them in `_received_sync_items`, or a
  known block was taken off the list at `node.cpp:3381`), and nothing processes them
  until another block of a sync arrives. `Ignored`: the peer falls silent while it owes
  us sync blocks, and the loop over inactive connections leaves at a peer with open sync
  requests before it puts it on the list to disconnect (`node.cpp:1415`). Both are
  reached in the run; any third way to stay behind would violate the property.
- `VotesTallied` is about steps that happen: the assertion on a witness's votes
  (`database.cpp:1447`) is a guard.

### Bounds

- `undo_index`: two ids let two objects collide and one be created while another
  is removed; three sessions are needed for a squash below which a session
  remains to be undone, the deepest interaction of the merge. `MaxId`,
  `MaxDepth` and `MaxRevision` are assumptions of no theorem beyond being
  naturals.
- `block_log`: the repair depends on the lengths of the two files relative to
  each other and on position 0; eight blocks give every combination of lengths
  up to eight.
- Trees: forks at two heights, a branch inside a branch, a bad block in the
  middle of a branch. `MaxWitnesses` is 2 or 1, so that blocks become
  irreversible within the tree. `ForkDbSize = 1` makes block 1 of the initial log
  "too old" for the fork database, as on a chain longer than the code's 1024
  blocks. `AnyFirstBlock` is false where the tree could otherwise start a node in
  the middle of a branch below which it cannot go back. A block's time is its
  number. On the tree of `chain_forks` t1 expires before the chains end and t3 refers to
  a block that one branch lacks; on that of `chain_bad_branch` t1 expires on the longer
  branch, t3 refers to a block that a switch abandons and t2 expires too far from the
  block to which a failed pop goes back, so each of the three reasons to lose a
  transaction occurs.
- The tree of `chain_migration` is one chain with an invalid
  block on top of its third block and one valid block beside the second.
- The tree of `chain_forks` respects finality: the two other branches are each
  signed by one witness, who cannot confirm a block alone. TLC evaluates `SettledTree`,
  the hypothesis of the theorems about such trees, on it (`ForkedIsSettled`). It uses 60% of 3
  witnesses: with 75% (the code's value for 21 witnesses) of three witnesses all of
  them would have to confirm.
- `NumLocks = 2` instead of 10 makes three timeouts come back to a lock that a
  forgotten reader still holds.
- `sync_broadcast`: one transaction is enough for two calls to meet, which is what the
  properties are about; it expires between the first and the last of three slots, so
  a block can confirm it, leave it out, or expire it, and a call can be repeated
  after it was answered. Blocks are taken back twice, so a switch can follow a failed
  migration or fail itself.
- `witness_schedule`: with a lap of 7 and up to 2 votes a witness runs a lap in 2, 3
  or 7 units, so rounding, overflow and reset all happen within a few rounds; three
  witnesses for two places, one of them elected, make them compete.
- `peer_sync`: lists of two ids, two blocks prefetched and two handled at once make
  every batch end in the middle of the chain; block 2 may come from another peer
  while it is requested; `Grace = 0` allows a peer no block beyond the newest, the
  narrowest reading of the code's tolerance; one request by the peer (`MaxAsks`) is
  enough to restart our sync at any moment; `LibLag = 2` makes the fork point irreversible during the
  sync, so the peer's branch can become one we cannot switch to.
- `vesting`: five shares for two tokens leave a remainder in every conversion, two
  intervals make the last part special; with half of a part to a route both
  roundings occur. `witness_votes`: with a depth limit of 3 a proxied account can be
  taken as proxy, and a proxy that would close a loop is refused by the walk alone; five
  accounts make a chain longer than the limit. Tallies are sums of shares, so three
  shares that are given out in steps of up to two tell wrong ones apart; one account
  declines its voting rights (`MaxDecline`). `market`: prices 1, 2/3 and 3/2 cross with and without a remainder; three
  orders let a new one meet two.
- Symmetry of the accounts is used in `witness_votes` and `market`, which have no
  liveness property; no definition tells the accounts apart.

### Fairness and deadlock

- `ChainDatabase!FairSpec`: weak fairness of the steps of a running call; they are
  plain code in one thread, and a crash may end them.
- `WriteQueue!FairSpec`: weak fairness of the write thread, of each caller's return, of
  each reader's progress and end, and of shutdown: each is a thread that the
  operating system runs. Nobody is made to submit, to read or to begin a shutdown.
  Timeouts are bounded: without a bound new readers could take every fresh lock
  before the writer.
- `SyncBroadcast!FairSpec`: the calling threads go on, and the write thread applies
  blocks, runs their handlers and migrates; the blocks need not contain the
  transaction, and nothing makes a switch or a migration fail or not.
- `WitnessSchedule!FairSpec`: rounds end. Votes and keys may change before each of them.
- `PeerSync!FairSpec`: the network thread runs its fibers, the peer answers unless it
  is silent, the connection is made again, and the loop over inactive connections
  runs. The peer need not ask us for anything.

Deadlock is not checked where the system may stop: a node that was shut down
(`write_queue`), a chain at the last modelled block (`sync_broadcast`, `peer_sync`), and
accounts with nothing left to move (`vesting`).

## Proofs

All theorems hold for every value of the constants that satisfies the `ASSUME`s
of the modules, which TLC evaluates on the runs' instances:

| module | assumed of the constants |
|---|---|
| `UndoIndex` | any keys and data, natural bounds |
| `ChainDatabase` | a tree whose `Num` counts from the genesis block, finitely many witnesses (at least one), finitely many transactions in a block, a threshold between 1 and 100 percent, an initial log that is a chain, timestamps that grow along every chain, for each transaction any block it refers to and any expiration; five of the theorems also have the hypothesis `SettledTree(H)`, see below |
| `BlockLog` | a natural bound |
| `WriteQueue` | any callers, finitely many readers, at least one lock, any order of plugins in which every thread belongs to one |
| `SyncBroadcast` | any threads and transactions, expirations within the modelled time |
| `WitnessSchedule` | finitely many names, numbered in their order; at least one elected place and one that is not; any lap and number of votes |
| `Vesting` | finitely many accounts, numbered in the order of their names; positive `Intervals`, `Full` and price; percents up to `Full` (`delta_operations.cpp:213`); tokens in the fund at the start exactly if there are shares |
| `Market` | finitely many accounts, any exchange rates of positive numbers, any initial balance and number of orders |

**UndoIndex_proofs.** `TypeCorrect` is a direct induction. `HistoryStaysConsistent`
and its parts `HistoryCorrect`, `IdsNeverReused` and `KeysStayUnique`,
`UndoAlwaysSucceeds` and `Refinement` assume `~MutableKeys` and rest on one inductive invariant, `IndInv`: types, no failure,
and `Good(stack, objs, next_id)`. None of these properties is inductive alone:
undo succeeds because records agree with the table above them, records survive
`squash` because both of the merged ones agree with the level between them, and
ids are not reused because the saved next ids grow along the stack. `Good` says
all of this level by level, where level i is what `SavedTable` reads back without
replaying: for each object, the oldest undo state at or above i that touched it
says what it was. The proof has lemmas for one record (`CreateRecord`,
`ModifyRecord`, `RemoveRecord`, `MergeRecord`), lemmas that carry `Good` from a
history to one that shares a prefix (`GoodPrefix`) or a suffix (`GoodShift`), and
one step per action, which also gives the corresponding step of `SnapshotStore`.
`RevisionsCorrect` is a separate induction and needs no assumption on keys.

**ChainDatabase_proofs.** `HistoryIsChain`: the undo history is always the chain,
through fork switches, failures, crashes and replays. `UndoHistoryIsChain` is not
inductive: it says nothing of the types of the snapshots, nor which state a crash
leaves on the stack. The invariant `IInv` has four parts. `HistoryOK` states for
each `pc` that `Chained(undo, db, revision, pend)` holds, where `pend` tells
whether the youngest session is that of the pending transactions; after a crash
it may be either. `LogOK`, `JobOK` and `IndexOK` are what the steps of a call need
of the log, of its locals and of the fork database. `Chained` is carried by one
lemma per operation on the history (`ChainedStart`, `ChainedUndo`,
`ChainedCommit`), and there is one lemma per action. `BrokenReplayIsRefused` follows
from the same invariant: during a replay the revision is 0 and there is no
session, so `open`'s comparison with the head number fails.

`PendingMatches` and `KeepsTransactions` add a second invariant, `QInv`, to the
first one. `QueueOK` bounds, for each `pc`, the transactions of every state on the
stack by those of the state below it and of its head block, and says where the
pending ones are; `KnownOK` says that whatever was applied or pending when a call
began is in the state, among the popped ones or among the saved ones. The
induction goes through because nothing is dropped on the way from one of these
places to the next. The last one is `pending_transactions_restorer`, a recursion
over the queue: `AcceptedKeeps` shows by an induction over the queue's length (a least
counterexample, `LeastExists`) that a transaction which is neither known nor kept
conflicts with one that is, or is not `Timely` with the new head. So
`KeepsTransactions` says for every tree, whatever fails in a switch, that only those
three things make a node drop a transaction.

`LogStaysChain`, `AlwaysOpens`, `ReversibleStayKept`, `MigrationFinds` and
`WritesOwnChain` have a hypothesis on the block tree, `SettledTree(H)`: H has the state
at the end of every chain of the tree, each block applies to the state at the end of
the chain it stands on, and two chains, or a chain and the initial log, do not differ
in a block that both have as irreversible. The tree may fork anywhere, branches may be longer
than the chain a node has, stop short, or leave it below its last irreversible block, and
blocks, transactions, crashes and replays come in any order. Both halves of the
hypothesis are needed. Without agreement on irreversible blocks a node can write a
block to the log, crash before the commit, and follow another chain afterwards.
Without the second half a refused block leaves the fork database's head on a block that it has
removed, and from there `MigrationFindsBlocks` and `OnlyIrreversibleWritten` fail (run
`chain_migration`; see the conditions above).

The invariant is `SInv(H)`, on top of `IInv` and `QInv`. It is one induction because its
parts need each other around the cycle of a block:

- `StatesKnown`: every state that undo can go back to is in H, up to transactions a
  replay did not note, and has confirmations only up to its head; so the next block applies.
- `FinalLog`: the log is a chain and has the irreversible blocks of every state in H;
  so a block appended before a crash is the one the node will come to again.
- `RestartOK`: the committed block is in the flushed part of the log. `CommitBlock`
  keeps this because the log is flushed up to `lib` before `commit(lib)`.
- `TreeOK`: the chain from the committed block on is in the fork database (`Kept`), and
  what the fork database has above that is linked (`Tied`); so walks down a branch
  follow the tree (`AncestorAt`) and `set_max_size` cuts only below. The exception
  (`Astray`) is a node at genesis whose first block was a later one: nothing links to
  it.
- `SwitchOK` and `WriteOK`: during a call, what is left to apply is a branch of the fork
  database that stands on the fork point, the fork database's head follows, and what
  is left to write are blocks of the node's chain.

`DownInduction` and `BackExists` are what replaces induction over the walks: a walk is a
recursive function, which is shown to exist and then unfolded one step at a time.
`NothingFails` shows that on these trees the exception paths of `apply_block` are not taken;
that of `pop_block` is, and `PopFailsS` covers it.

**BlockLog_proofs.** `IInv` says that both files are determined by their lengths
(`Files`), that a stream that is not open for writing has nothing in its buffer
(`Streams`), and that an open log has a complete index or is the one-block log that
`construct_index` leaves without one (`Opened`). `Streams` is what makes
`OpenMendsIndex` and `FlushIsComplete` inductive: without it a crash after a switch to
reading could lose more than it does. `Refinement` maps each step to one of
`LogStore`: appends and flushes to themselves, a crash and the repair after it to a
loss of what was not flushed, everything else to a stutter.

**WriteQueue_proofs.** Three inductions on top of a type invariant. `Contexts` adds to
`ContextAlive` that an outcome about to be handed over is stored. `FirstLock` says that
up to the first timeout lock 0 counts exactly the readers (a cardinality, which is
why the readers are finite) and is free when the writer has it. `Stopped` says that
the plugins that are up are a prefix of the start order and the threads of the others
are done. `ClosesAlone` has the hypothesis `ChainStartsFirst`, that every thread which
uses the database belongs to the chain plugin or to one that starts after it. The
default order of `programs/deltad/main.cpp` satisfies it, and so does the run's; the
web server does not declare that it requires the chain plugin, so a configuration
may not (see the hazard at `appbase/application.cpp`), and there is no theorem for
that case.

**SyncBroadcast_proofs.** `AnswersStand` and `CallbacksMatch` hold with any number of
switches and failed migrations. `Owner` (a callback belongs to an unanswered call for
its transaction), `Once` (a transaction is in one block of the chain) and `Sound` hold
always: `Sound` says that an accepted transaction with its callback in the table is at
most in the block whose handlers have not run, and that who was answered since blocks
were last taken back was told the truth; an expired one stays out of the chain
because time has passed it. What a call can rely on besides holds only while no
block was taken back (`Straight`): its callback is in the table unless its transaction
can no longer be accepted. Two calls for one transaction are why this is not enough:
`Rivals` says that the one whose callback is in the table was not accepted.
`TakeBackIInv` is the common step of the three actions that take blocks back.

**WitnessSchedule_proofs.** `VirtualTimeInLap` bounds how far a witness has run by now.
That is not inductive, since time jumps to the next due time; `OnTime` bounds how far
it will have run when it is due, and `Fresh` says that who is no witness yet has not
begun. The proof that rounding down in `due` keeps this bound is where the division
of `adjust_witness_vote` matters. `ScheduleIsFilled` rests on lemmas about the first n of
a finite set in a total order, for votes and for due times.

**Market_proofs.** The three properties need each other. A trade fails an assertion
when one side has nothing to give, so `MatchingNeverFails` needs that every order left in
the book is worth something, which is part of `BookUncrossed`; that nothing crosses
afterwards needs that matching did not stop too early. The invariant `Sane` is
`BookUncrossed` with the types. Inside one operation `apply_order` is a loop over a
changing state, and the loop invariant is `Sound(orders, bal, T, s)`, T being the
candidates that had their turn: what is left of every order is worth something or
0 (`Worthy`), orders that had no turn are as they were (`Untouched`), the ones that
had are gone unless the new order is (`Cleared`), balances and offers have their sum
(`Balanced`), and the trades so far are fair (`Fair`). `ApplyOrderSound` shows it for
the whole loop by induction over the sets of candidates; that each set has a last one is the totality of `Before` (`BeforeIsTotal`,
`LatestIsLast`), which rests on comparing prices by cross multiplication being
transitive. The rounding is in `QuotientsOfTrade`: between two prices that cross,
what a conversion there and back rounds away never makes one side pay more than it
has, and never gives a side less than its own price rounded down. The lemmas about sums and finite sets are those of `Vesting_proofs`,
stated again: two components cannot be extended by one module.

**Vesting_proofs.** The first part shows what the community modules' sums are: a
fold over a finite set exists (`FoldExists`), any element may be taken out of a sum
first (`SumPick`), sums add (`SumAdd`), zeros may be left out (`SumPart`). The installed
provers cannot use the library's induction schemes, so these are inductions over the
subsets of a finite set by a smallest counterexample (`SubsetInduction`). The second
part is about a payment: it never takes more from the fund than there is, and
leaves it empty exactly with the last share (`TokensWithin`), so the payments along the
routes, one after the other at changing prices, conserve the tokens
(`PayInduction`, `PayoutOK`). The invariant adds to the properties that the withdrawn
part of a power-down that goes on is a multiple of its rate (`WholeParts`): only
therefore is `to_withdraw % rate` in the last week what is left, none of the parts is
zero and their sum is what was asked for. `Covered` then bounds every part by shares
that are not delegated.

Only model-checked:

- Liveness: the prover does not handle fairness or `ENABLED`.
- Of `ChainDatabase`: `AdoptsLongest` and `FailedBranchKeepsHead`. Both are about switches
  that fail on refused blocks, which settled trees do not have. The second is not true of
  every tree that has some: a branch may pass the old fork point with its last
  irreversible block and fail afterwards. For the first an invariant would have to say
  which blocks the fork database still has after every failure.
- `PeerSync`: the invariants relate two lists, a queue of fibers and the messages on
  their way.
- `WitnessVotes`: every tally is a sum over the accounts that are a given number of
  proxies away, and each operation moves a whole subtree of them.

## Plan

Done: the modules above, and the theorems about the undo index, the chain
database (for all trees and for settled ones), the block log, the write queue, the broadcasts, the witness schedule,
vesting and the market. In this order come:

1. Proofs: the tallies of `WitnessVotes`, with the lemmas about sums of
   `Vesting_proofs`; the lists of `PeerSync`.
2. Several tables: the commit and undo of `chainbase::database` table by table, with
   crashes in between, and the revision check of `open`.
3. Savings, escrow and conversions: requests with a date that a second operation
   can cancel.

## Not modelled

- Serialization, signatures and the validation of single operations (protocol
  types), fc, JSON-RPC dispatch, option parsing: sequential code without
  interacting state.
- The memory-mapped file itself (opening, growing, flushing) and torn records in
  the block log: the code has no recovery from them.
- Observer plugins and the account history in RocksDB: tables derived inside the
  same undo sessions, and an external store.
- Smart media tokens: disabled in the default build.
- Wallet, utilities and test programs: clients.
- Of the network node: handshake, address book, rate limits, the propagation of
  transactions; several peers in full at once (the lists of two peers and the choice
  between them), which is out of TLC's reach together with the fibers.
- Of the ledger: comments and rewards (long fixed-point formulas over many tables),
  account creation and recovery, proof of work; savings, escrow and conversions are
  planned.
- What a pointer to a copy that is gone reads (`delta_evaluator.cpp:1256`): the walk
  along the proxies is modelled with the value that is still there.
- Resource credits and the witness plugin: sequential decisions from tables and the
  clock.

The specifications stand for the parts named above, a small share of the
repository by lines: a word list, vendored libraries (fc, a compression library),
generated and reflected types, the wallet, and APIs that copy rows out of tables
make up most of it and have no behaviour to model.
