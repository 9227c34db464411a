# raftly in TLA+

A TLA+ model of [raftly](../src/README.md): Raft consensus in Go (`raft/`), the
key-value server on top of it (`server/`), and the tools that inject faults
(`transport/proxy.go`, `chaos/`). The modules are translated from the code. TLC
checks them on small instances and TLAPS proves the main results for every
instance. `PROJECT.json` lists components, runs, mutants, the source lines of
every definition, findings, hazards and theorems.

    tlc -workers 2 -config MCRaftElections.cfg MCRaftElections    # one run
    tlapm RaftProofs.tla                                          # one module's proofs

## 1. The system

| component | state | operations | hard because |
|---|---|---|---|
| **Leader election**, `raft/election.go`, `raft/node.go` | term, vote, role, known leader, election timer | election timeout, `campaign` (pre-vote or real), vote handlers, `becomeFollower/Candidate/Leader` | `campaign` is a goroutine; several of one node overlap; the lock is free between counting a quorum and using it |
| **Log replication**, `raft/replication.go` | `nextIndex`, `matchIndex`, commit index | `Propose`, heartbeat tick, `replicateTo`, `handleAppendEntries`, `maybeCommit` | calls are answered late, out of order or never; conflicts truncate |
| **In-memory log**, `raft/log.go` | entries, `commitIndex`, `lastApplied` | append, truncate, commit | index fields and slice positions are both used |
| **Write-ahead log**, `raft/persistence.go` | file, buffered writer | `SaveState`, `SaveEntry`, `Sync`, `TruncateFrom`, `ReadAll` | crashes between any two steps; torn records; I/O errors callers ignore |
| **Apply pipeline and KV store**, `raft/replication.go`, `server/api.go` | `commitCh`, waiters by index, map | `applyCommitted`, `notifyProposal`, `KVStore.applyLoop` | one goroutine per commit; sends without the lock; bounded channel |
| **Node lifecycle**, `raft/node.go`, `server/server.go`, `cmd/server/main.go` | open file, timers, channels, servers | `NewRaftNode`, `Start`, `Stop`, `Server.Start`, `Server.Stop` | what is served before it is complete, and after it was closed; crashes |
| **Timing updates**, `raft/node.go`, `server/config.go` | configuration, ticker, a channel to `run()` | `UpdateTimings`, GET and POST for one node or all | two updates race; a send may block; durations overflow |
| **Proxy and transports**, `transport/` | list of rules, registry of nodes, connections | add, remove, clear, intercept | first matching rule wins; a message passed before a rule came |
| **Chaos injector**, `chaos/` | rules on a proxy all nodes share, injections, instances of nodes | partition, delay, loss, crash, restart, heal, timed heal | timers go off after what they heal is gone; a restart clears everything |
| **Chaos HTTP API**, `server/chaos.go` | rules on the proxies of all servers | isolate, partition, delay, loss, heal, apply, clear | orders reach some nodes and not others |
| **HTTP API**, `server/api.go`, `server/log.go` | requests under way | PUT, GET, DELETE with forwarding; log view; cluster snapshot; event stream | forwarding in circles, callers that give up, looks at different moments |
| Metrics, client, UI, scenarios | none of their own | report, drive | |

How they interact. A node's handlers, its `run()` loop, its campaigns and its
replication goroutines share the fields of `RaftNode` under one lock, `n.mu`.
Nodes talk through synchronous calls (`RequestVote`, `AppendEntries`) that the
caller makes **without** the lock. A handler may also run after its caller has
given up. The node writes the WAL while it holds `n.mu`. Committed entries
leave the node through `commitCh`; the KV store drains it in its own goroutine,
and the waiting `Propose` calls are woken by index.

What makes each part correct:

* *Election*: the vote of a term is cast once; terms do not go back; a node
  never ends up with neither a timer nor a campaign; campaigns end.
* *Replication*: logs stay well formed and match; a commit index is justified
  by the log; committed entries stay; a leader brings its followers up.
* *WAL*: what was acknowledged is read back; what is read back is in order and
  never ahead of what the node knew.
* *Pipeline*: only committed entries reach the map, without gaps; every waiter
  is answered; who is told success can rely on it.
* *Faults*: a heal takes its own rules and no others; what is cut stays cut.
* *HTTP*: a write is proposed once at most; an answer says no more than what is
  so; handlers and shutdowns end; what the dashboard shows as committed is.
* *Timings*: no value that would panic; ticker and configuration agree.

`PROJECT.json` lists the hazards, each at its line, with the properties that
cover it.

## 2. Modules

| module | models | proved in |
|---|---|---|
| `RaftLog` | the log as operators on a sequence | `RaftLogProofs` (lemmas) |
| `RaftNode` | a node's fields and the three role changes | |
| `RaftElection` | timeouts, campaigns, vote handlers | |
| `RaftReplication` | proposals, ticks, `AppendEntries` both ways | |
| `Raft` | the two composed; fairness; properties | `RaftProofs` |
| `RaftRestart` | `Raft` with nodes that crash and come back | `RaftProofs` |
| `VoteRegister` | abstract: what (term, vote) promises | refinement in `RaftProofs` |
| `RaftLogMatching` | `RaftRestart` with a history of who led which term | `RaftProofs` |
| `RaftWAL` | one node's file and every operation that writes to it | `WALProofs` |
| `ApplyPipeline` | one node from `Propose` to the map | `ApplyProofs` |
| `LogView` | extends `ApplyPipeline`: the log as the dashboard reads it | `ApplyProofs` |
| `ServerLifecycle` | the order in which a server's parts start and stop | `KeyProofs` |
| `KeyAPI` | extends `ServerLifecycle`: the key endpoints and forwarding | `KeyProofs` |
| `LiveTimings` | `UpdateTimings` and its channel to `run()` | `ConfigProofs` |
| `ConfigAPI` | extends `LiveTimings`: the timing endpoints of all servers | `ConfigProofs` |
| `EventStream` | cluster snapshots and the events made of them | `EventProofs` |
| `NetworkProxy` | a proxy's list of rules and what it does to a message | `ChaosProofs` (lemmas) |
| `ChaosAPI` | extends `NetworkProxy`: orders one server carries out on the proxies of all | `ChaosProofs` |
| `ChaosInjector` | extends `NetworkProxy`: injections on one shared proxy, crash and restart of nodes, calls that pass it | `ChaosProofs` |
| `MC*` | instances for TLC | |

### The Raft core

State. `RaftNode` has one function per field, indexed by node. `timer[n]` says
whether the election timer is running. `RaftElection` adds `campaigns[n][k]`,
the campaign goroutines of a node, and `voteRequests`, the vote calls on their
way. `RaftReplication` adds `appendRequests` and `appendResponses`. A response
carries what `replicateTo` keeps in local variables (term of the request,
`prevLogIndex`, number of entries).

Steps. An action is one critical section under `n.mu`. A campaign is therefore
several actions: `StartPreVote` or `StartElection` (first section), one `Tally*`
step per reply, then `Escalate` (the pre-vote is won, a real campaign starts),
`TakeLeadership` or `GiveUp`. The gap between the last `TallyCount` and
`TakeLeadership` is the unlock in `campaign`. `HandleRequestVote` takes a request
from the network whether or not its caller still waits. `HandleAppendEntries`
has one disjunct per return of the code: stale leader, entry missing, term
mismatch, refused truncation, success. `HandleAppendResponse` likewise.

Simplifications.

* A pre-vote changes nothing at the voter, so it is asked and answered in one
  step (`HandlePreVote`) while the caller waits. A reply then waits in the
  campaign like the buffered reply of the code.
* `becomeLeader` and `Propose` end with `go maybeSendHeartbeats()`. That
  goroutine sends at some later time what any tick would send, so it is
  `HeartbeatTick` and `ReplicateTo`.
* `run()` receives from the timer before it takes the lock. If the node became
  leader in between, it only leaves, which is a stutter. A timer that
  `becomeFollower` re-arms later is modelled.
* WAL writes succeed; `RaftWAL` says what happens when they do not.
* Bounds: `MaxTerm` (no campaign starts at it), `MaxLogLen` (no leader appends
  to a longer log; a proposal leaves room for the no-ops of the later terms, so
  that the bound stops no election), `Slot` (campaigns of a node alive at once), `CallSlot`
  (AppendEntries calls in flight), `Campaigners` (nodes whose timer fires).

`RaftRestart` adds `Restart(n)`, a crash followed by `NewRaftNode` and `Start`:
term, vote and log are what `ReadAll` returns, the commit index is 0, the
goroutines are gone and with them whoever waited for the answers to the node's
calls; its requests may still be on their way. A node that is down is one whose
messages get lost. Bounds: `Crashers`, `MaxRestarts`, `MaxCrashTerm`.

### The write-ahead log

`file` is what a crash leaves; `buffer` what is in the `bufio.Writer`. An
operation holds `n.mu` until `Sync` returns, so only a crash interleaves with
it. `op` is the operation under way. `promised` is a history variable: what
callers have been told after a successful operation. `ReadAll` is `Readable`,
`ReadState`, `ReadEntries`: it stops at the first torn record, the last state
record wins, and entries are taken in file order. The entries a leader may send
are arbitrary legal suffixes. `Faults` says what may go wrong besides a crash
that loses whole unsynced records, and the history variable `happened` what has:

| fault | meaning |
|---|---|
| `"torn"` | a crash or an error leaves part of a record |
| `"rewrite"` | a crash inside `WAL.TruncateFrom`, after `O_TRUNC` |
| `"error"` | `Flush` or fsync reports an error; the writer may stay broken |
| `"stop"` | `Server.Stop` closes the file while gRPC still answers |
| `"cut"` | a conflict at a committed index, which two leaders of one term can cause |

Bounds: `MaxTerm`, `MaxLogLen`, `MaxRecords`, `MaxCrashes`.

### The apply pipeline

One node. Its environment (leadership, overwritten entries, commits) is
arbitrary within what Raft allows: committed entries stay. Each commit starts a
goroutine, `worker[k]`: `CollectEntries` (copy under the lock), then per entry
`SendEntry` (no lock; blocks on a full channel) and `MarkApplied` (lock:
`SetLastApplied` and `notifyProposal`). `ApplyEntry` is the KV goroutine.
`StopKV` and `StopNode` are `Server.Stop` in its order; a stop ends senders and
waiters. A campaign in flight may take leadership after `Stop`. Keys are
independent, so the map has one. Bounds: `Worker`, `ChanCap`
(256 in the code), `MaxLogLen`, and one proposal per `Client`.

### The chaos endpoints

`proxies[n]` is the list of rules of `n`'s proxy, which sees what `n` sends. An
order (isolate, partition, delay, loss, heal; apply and clear for one node) is
given to a coordinator. Its shares start at once: the coordinator's own is done
in process, the others are `posts`. `PostFails` is the 2 s timeout, after which
the post is lost or is carried out later. Sending rules as JSON is modelled by
what it does (`OverTheWire`): an `int` arrives as a `float64`, which
`ShouldDeliver` does not take for a delay. Rule ids are left out because these
endpoints never remove by id. Bounds: `MaxOrders`, `Coordinators`, and `Applied`,
the rules a user applies to one node (in the run a pass, a cut, a delay and a loss).

### The chaos injector

One proxy for all nodes, as the scenarios set it up with the in-memory
transport. `injections` is what the scenario holds: the `InjectionResult`s, each
with its rules, the ids it was given and, as history, the ids that some heal has
taken (`gone`). `driver` is the injector call under way where it releases its
lock: a crash stops the node afterwards, `HealPartition` removes rule by rule,
`RestartNode` clears, makes a node (which may fail) and starts it. `TimedHeal`
is the goroutine of an injection with a duration. `Send` is `applyProxy`,
`Deliver` the handler of whatever instance the registry names when the delay is
over. `RestartNode` would start a second instance of a node that runs; its
callers restart what they crashed, which is the guard `Crashed` of `Next`.
Bounds: `MaxInjections`, `MaxInstances`, `MaxCalls`, `MaxHeals`, `Targets`.

### The log view

`localView` is three looks at a node at three moments: its status (`Status`),
the last index (`LastIndex`) and the entries (`GetEntries`), while the node of
`ApplyPipeline` goes on. A follower that rewrites its log does so under `n.mu`
but `LogSnapshot` does not take that lock, so it may find the log cut.
Constant: `Limits`, how many entries are asked for (`parseLimit` leaves 1 to 200).

### Servers and keys

`phase[n]` says how far a process has started or stopped; the servers have
started at first (`Server.Start`), and one that died or stopped starts again. `EarlyRPC` is a call
that arrives when the transport has no node or the node no timer: a nil pointer,
and the process is gone. A request is a list of handlers, `hops`: the client's
server, the one it forwards to, and so on. `requests` counts, as history, how
often it was proposed and whether a `Propose` was refused. `Serve` is whatever a
handler does next: `IsLeader`, read the body, propose, wait, forward, relay.
`GiveUp` is a forwarding client after 5 s, or one whose server is not there; the
handler it called goes on. Leadership is arbitrary. Bounds: `MaxRequests`,
`MaxHops`, `MaxChanges`, `MaxStops`, `MaxDeaths`; `Known` is the `httpPeers` map.

### Timings

`UpdateTimings` is `SetConfig` (under the lock), `Send`, `Drain`, `Resend`; the
channel holds one value. `overlapped` is history: the nodes where two updates
were under way at once. Milliseconds become durations with the width of a
machine word (`Word`, `Milli`), and back by a division that rounds. Orders for
all servers are as in `ChaosAPI`: the coordinator's own share in process, the
others as posts that may fail, or fail and be carried out later. A request to
one server about its own timings is an order with one share. Bounds:
`MaxOrders`, `Stoppable`.

### Snapshots and events

The observing server takes its own status first and everyone else's when each
answers; a server that hangs or is down, or is late, is shown as down. `told` is
what a viewer makes of the first snapshot and the events. `steady` is history:
nothing changed during the last snapshot. A node enters a term as a follower or
a candidate and leads it later, if at all (`Follows`, `Elected`). Bounds: `MaxTerm`, `MaxFaults`.

## 3. Runs

`pass` runs check what holds; the `violation` runs show where the code differs
from what a test or the README of the repository says. Times are for two workers.

| run | instance | properties | time |
|---|---|---|---|
| `elections` | 2 nodes, both campaign, pre-vote, 2 terms, 2 campaigns alive, log 2, 1 crash, `RestartLiveSpec` | `TypeOK`, `NoStall`, `VoteRegisterSpec`, `CampaignEnds`, `PrefixCatchesUp` | 160 s |
| `takeover` | 3 nodes, 2 campaign in turn, 3 terms, log 2, proposals, 1 crash | `LogShape`, `LogMatching`, `CommitCovered`, `CommittedPrefixKept` | 190 s |
| `wal` | all faults, 2 crashes, 2 terms, log 2, 3 records | `MemoryOnDisk`, `PromisesKeptUnlessFaulty`, `RecoveredInOrder`, `RecoveryNotAhead` | 60 s |
| `apply` | 1 client, 2 goroutines, channel of 1, log 3, `FairSpec` | `OnlyCommitted`, `NoGaps`, `EventuallyApplied`, `RegisteredAnswered` | 110 s |
| `readers` | the same with values and a viewer, log 2 | `ConfirmedArrives`, `OwnWhileLeading`, `MapFollowsLog`, `ViewHolds` | 50 s |
| `chaos` | 3 servers, 2 orders, `ApiFairSpec` | `CleanHeal`, `OrderedCutsHold`, `OrderEnds` | 100 s |
| `injector` | 2 nodes, 3 injections on one of them, 2 instances, 1 call, 1 heal, `FairSpec` | `RulesAccounted`, `InstancesAgree`, `CutsHold`, `TimedHealEnds` | 40 s |
| `keys` | 2 servers, 1 request with up to 3 handlers, 2 leadership changes, 1 stop, 1 death, `FairSpec` | `AtMostOnce`, `AnswersAreTrue`, `BadOnlyAfterRefusal`, `HandlersEnd`, `StopEnds` | 60 s |
| `config` | 2 servers, 2 orders to one or both, values that overflow, 1 stop, `FairSpec` | `TimingsPositive`, `TickerFollows`, `ConfirmedTimings`, `OrderEnds` | 150 s |
| `events` | 3 servers, 1 term each, 2 faults, `FairSpec` | `EventsTellAll`, `SnapshotTrue`, `FramesGoOn` | 130 s |
| `two_leaders` (violation) | 3 nodes, 2 campaign, 1 term | `ElectionSafety` | 10 s |
| `backtracking` (violation) | 3 nodes, 2 campaign in turn, 3 terms, log 2, `LiveSpec` | `EventuallyCommitted` | 10 s |

What they show:

* `elections`: with two campaigns alive at once, on one node or on both, and a
  node that crashes and comes back, no way out of a campaign leaves a node
  asleep, term and vote behave as `VoteRegister` says, and campaigns end though
  calls get lost. A leader brings a follower up whose log is a prefix of its
  own, through losses and the crash of either, and the follower learns what is
  committed. `FewGoroutines` keeps the overlap on one node to a pre-vote in its
  first term, and `CrashInEarlyTerms` the crash likewise; for more of either,
  and any number of nodes, `NoStall` and the register are proved.
* `takeover`: a node loses leadership and wins it back, so that it truncates a
  follower that truncated it; requests arrive late, from a leader that has
  restarted too. Logs stay well formed and match, commit indexes are justified,
  and committed entries stay. `OneCampaign` keeps campaigns from overlapping,
  which is the subject of `elections`; `CrashInEarlyTerms` keeps behaviours with
  a crash below the last term.
* `wal`: which fault costs what. A node never comes back ahead of itself
  (`RecoveryNotAhead`), whatever happens. The order of entries survives a crash
  in a rewrite and a file closed too early. Memory and file agree unless
  something other than a crash went wrong. Without faults nothing that was
  acknowledged is lost.
* `apply`: only committed entries reach the map, each index for the first time
  in order, with the channel full and while the log is cut.
* `readers`: what those outside can rely on. A confirmed index is committed and
  at most a channel's length from the map; it is the client's own entry unless
  leadership was lost meanwhile; the map is the log's when everything was
  applied once. What the log view marks as committed or applied is so, though
  the parts of the view are of different moments.
* `chaos`: confirmed cuts cut in both directions, a confirmed heal leaves every
  link open, every order is answered.
* `injector`: the proxy holds exactly the rules that no heal, timer or restart
  was to remove. Timers that go off late take nothing else. After a crash and a
  restart one instance of a node runs, and it is the one peers call.
* `keys`: a write is proposed once at most, in whatever circles it goes. 400, 404
  and 503 mean that it never was; after 500 and 502 nothing is known. Handlers
  end unless they wait for their own proposal, and a server told to stop stops.
* `config`: no order, however large its numbers, brings a value to a ticker that
  would panic. The ticker follows the configuration unless updates overlapped.
  What every server concerned has confirmed holds there, and the other servers
  keep their timings. Orders end.
* `events`: who follows the events knows what the last snapshot says; a snapshot
  that nothing disturbed is exact; a hanging server does not stop the stream.

Why the bounds are enough for the cases that matter. Two campaigns is the least
for which one can act on the other's term. Three terms allow a leader to come
back. A channel of one entry is full as soon as one is sent. Two crashes allow
a crash, a restart that appends, and a second restart that reads. Two orders
allow one to overtake, or to shadow, the other; three injections, a third that
a late timer could harm. Three handlers are a request that comes back to the
server it started from. A word of 7 bits has values that overflow to a negative
and to a small positive duration. The properties that are proved do not depend
on any bound.

Two runs show a disagreement, each with a finding that quotes the line:

| run | property | what happens |
|---|---|---|
| `two_leaders` | `ElectionSafety` | a vote for a newer term is granted without entering it and may be given again |
| `backtracking` | `EventuallyCommitted` | a leader takes the number of a conflicting term for an index and sends the same request for ever |

In `backtracking` one node leads term 1 and reaches nobody, a second leads
term 2 with the vote of the third, and the first wins term 3: its log has
terms 1 and 3, the second's has term 2. `BackedUp` sets `nextIndex` to 2, the
term of the conflict, which is where it was. Every heartbeat is rejected the
same way, and re-arms the follower's timer, so the follower does not campaign
either (in the run the bound on terms keeps it from campaigning; in the code
the heartbeats do, which come more often than the timer goes off). With a larger conflict term the index lies beyond the leader's log
and `replicateTo` returns without a call. The constraints of the run
(`OneCampaign`, `FewReached`, `InTurn`) leave out other ways to term 3; the
behaviour found is one of the specification. `PrefixCatchesUp` is what holds:
progress where there is no conflict. Safety does not depend on where
backtracking goes: `LogMatching` and `CommitCovered` hold for the requests that
follow.

`ElectionSafety` and what rests on it fail, so the passing properties are the
ones the code keeps nevertheless. `VoteRegisterSpec` holds because it speaks of
the term the node is *in*. `LogMatching` is stated for terms that had one
leader. `CommittedPrefixKept` is about one node and holds because
`RaftLog.TruncateFrom` refuses; with two leaders in a term the agreement
*between* nodes is lost.

The conditions in the other properties mark behaviour a reader should know of:

* `PromisesKeptUnlessFaulty`, `MemoryOnDisk`, `RecoveredInOrder`: a crash in the
  middle of `WAL.TruncateFrom` forgets votes and acknowledged entries; a failed
  fsync leaves the record in the file, so that its index is written twice; a
  node stopped by `Server.Stop` still grants votes until gRPC closes; a refused
  truncation has already cut the file.
* `PromisesKeptUnlessFaulty` also excludes a torn record: `ReadAll` stops at it
  and leaves it in the file, where it hides what is appended later
  (`src/README.md:123` says the file is truncated there).
* `OwnWhileLeading`: a client whose leader is deposed while it waits is told
  success when another leader's entry is committed at its index.
* `ConfirmedArrives` speaks of the channel: a GET right after a confirmed PUT may
  miss it (`src/README.md:420` calls reads linearizable).
* `MapFollowsLog` asks that no entry was applied twice and no goroutine is under
  way: two goroutines with the same copies may apply an old entry after a newer
  one, and the map keeps the old value.
* `RegisteredAnswered` asks that the client is still the one registered at its
  index: a later proposal at a reused index replaces it.
* `OrderedCutsHold` excludes delays, losses and passes that came first: the first rule
  that matches wins, so an isolation after a delay isolates nothing.
* `CutsHold` of the injector: the same, so that a crashed node behind an earlier
  delay still gets calls.
* `BadOnlyAfterRefusal`: a proper PUT is answered 400 when leadership is lost
  between `IsLeader` and `Propose`, because the body is forwarded after it was
  read.
* `TickerFollows` excludes updates that overlap, and `OrderEnds` of `ConfigAPI`
  needs the coordinator's own node to run: `UpdateTimings` may block for ever
  on a stopped one.
* `TimingsPositive` allows a tiny heartbeat: an overflow may be positive.
* `SnapshotTrue` allows any of several nodes that call themselves leader.
* A campaign may take leadership after its node stepped down (the lock is free
  between counting and `becomeLeader`); nothing here asks otherwise.

Deadlock is not checked: a bounded instance stops at its bounds, and a stopped
server stops.

## 4. Fairness

* `CampaignFairness` (weak, per campaign and call): a goroutine that does not
  wait runs, handlers release `n.mu`, and `campaign` gives every call a context
  of 100 ms, so each call is answered or fails.
* `TickerFairness` (weak, per node): `run()` keeps serving the heartbeat ticker,
  and what it starts sends.
* `TimerFairness` (weak, per node): a timer that stays armed goes off. Only
  `LiveSpec`, of the violation `backtracking`, has it; in `RestartLiveSpec` a
  timer may go off at any time and owes nothing.
* `NetworkFairness` (strong, per pair): a call repeated on every tick gets
  through sometimes. It is an assumption about the network, not about the code;
  `RestartLiveSpec` and `LiveSpec` have it.
* `ApplyPipeline!FairSpec` (weak): goroutines run, the KV goroutine drains the
  channel, a stopped node's waiters see `stopCh`, and `Server.Stop` proceeds
  from its first step to the next.
* `ApiFairSpec` of `ChaosAPI` (weak): goroutines run, and a post ends after 2 s.
* `ConfigAPI!FairSpec` (weak): the coordinator's goroutines and its `run()` go
  on, and a post ends after 2 s. The other servers owe nothing.
* `ChaosInjector!FairSpec` (weak): a goroutine that sleeps wakes up and removes
  its rules. The scenario itself may stop anywhere.
* `KeyAPI!FairSpec` (weak): handlers run, a forwarding client gives up after 5 s,
  and a stopping server takes its next step (`Shutdown` has a timeout, `Stop`
  closes `stopCh`). Nothing makes a proposal commit or a leader appear.
* `EventStream!FairSpec` (weak): the ticker ticks, and every request ends after
  500 ms.

## 5. Proofs

Every safety property that a run checks is proved for all values of the
constants, the violated ones excepted. `PROJECT.json` lists the theorems.

| theorem | module | states |
|---|---|---|
| `RestartTypeCorrect` | `RaftProofs` | `RestartSpec => []TypeOK` |
| `RestartNobodySleeps` | | `RestartSpec => []NoStall` |
| `RestartVoteRegister` | | `RestartSpec => VoteRegisterSpec` |
| `RestartLogsWellFormed` | | `RestartSpec => []LogShape` |
| `RestartCommitsCovered` | | `RestartSpec => []CommitCovered` |
| `CommittedSurvivesCrash` | | `RestartSpec => CommittedPrefixKept` |
| `CommittedEntriesStay` | | `Spec => CommittedPrefixStable` |
| `LogsMatch` | | `HistorySpec => []LogMatching` |
| `NeverAhead` | `WALProofs` | `Spec => []RecoveryNotAhead` |
| `FileHasMemory` | | `Spec => []MemoryOnDisk` |
| `PromisesSurvive` | | `Spec => []PromisesKeptUnlessFaulty` |
| `ReadInOrder` | | `Spec => []RecoveredInOrder` |
| `OnlyCommittedSent`, `NoGapsEver` | `ApplyProofs` | `Spec => []OnlyCommitted`, `[]NoGaps` |
| `ConfirmedHasArrived`, `ConfirmedIsOwn` | | `Spec => []ConfirmedArrives`, `[]OwnWhileLeading` |
| `MapIsReplayed` | | `Spec => []MapFollowsLog` |
| `ViewsHold` | | `ViewSpec => []ViewHolds` |
| `ProposedOnce` | `KeyProofs` | `Spec => []AtMostOnce` |
| `AnswersTrue`, `BadAfterRefusal` | | `Spec => []AnswersAreTrue`, `[]BadOnlyAfterRefusal` |
| `AlwaysPositive`, `AlwaysFollows` | `ConfigProofs` | `Spec => []TimingsPositive`, `[]TickerFollows` |
| `ConfirmedIsSet` | | `Spec => []ConfirmedTimings` |
| `RulesAlwaysAccounted`, `OneInstance` | `ChaosProofs` | `Spec => []RulesAccounted`, `[]InstancesAgree` of `ChaosInjector` |
| `InjectedCutsHold` | | `Spec => CutsHold` of `ChaosInjector` |
| `HealsClean`, `CutsStay` | | `ApiSpec => []CleanHeal`, `[]OrderedCutsHold` of `ChaosAPI` |
| `EventsSayAll`, `SteadySnapshotsTrue` | `EventProofs` | `Spec => []EventsTellAll`, `[]SnapshotTrue` |

The assumptions are the named `ASSUME`s of the modules: sets of nodes that are
finite and not empty where a quorum is counted, bounds that are natural numbers,
a width of durations that is even. No theorem depends on a bound. `RaftProofs`
proves everything for `Spec`, the core without crashes, first; the step lemmas
of that part are what the part about restarts builds on.

### The Raft core

* `TypeOK` is inductive. `RaftLogProofs` says what the log operators return:
  a merge of two sequences of entries is one, a truncation is a prefix, and the
  minimum that `FirstDiffering` takes exists. `RaftProofs` then has one lemma
  per action.
* `NoStall` is inductive together with `TypeOK`. A step of a campaign changes
  that campaign and its node's role and timer; each way out of a pre-vote arms
  the timer or finds that the node is no longer a `PreCandidate`, and whoever
  changed that had armed it.
* The refinement needs only `TypeOK`: an action changes the term through
  `becomeFollower` (to a larger one, with no vote) or `becomeCandidate` (to the
  next one, with its own), and `HandleRequestVote` sets a vote where there was
  none, or repeats it.
* `LogInv` is `LogShape /\ CommitCovered /\ RequestsContinue`. `LogShape` alone
  is not inductive, because a merge takes entries from a request.
  `RequestsContinue` says of every request in flight that its entries carry
  consecutive indexes from `prevIndex + 1`, that their terms do not decrease,
  start no lower than `prevTerm` and do not exceed the request's term. With the
  check of `PrevLogIndex`/`PrevLogTerm` the merged log is well formed again.
  `CommitCovered` has its second half, about requests, for the same reason: the
  follower's new commit index comes from a message.
* `CommittedPrefixStable` follows from `LogInv`: a merge keeps everything below
  its first difference, a conflict at or below the commit index is refused, and
  an entry that is missing lies above it.
* A restart keeps each of these. It leaves term, vote, log and requests alone, so
  the register stutters and `LogShape` and `RequestsContinue` stay; the commit
  index 0 is below every log; the timer is armed in the step that takes the
  campaigns away. `CommittedPrefixKept` is the property of the step, and
  `restarts` tells the one kind of step that moves a commit index back.
* `LogMatching` needs more than two logs at a time. `MatchInv` says that there is
  one log `C[t]` for every term `t` up to which each term had one leader: what
  the leader of `t` has, or had when it stopped leading. Every log, and every
  request put behind its `prevIndex`, has entries of term `t` only where `C[t]`
  has them, with everything before them as in `C[t]`. A leader that appends
  extends its `C[t]`, a new one makes its log the next; a merge joins two pieces
  that the same `C[t]` cover. Where a term had two leaders there is no `C[t]`,
  so the theorem has the condition that the property has.

### The write-ahead log

* `OrderInv` (types, `Quiet`, `Chronicle`) holds through every fault: the state
  records in file and buffer are in the order in which the node had these
  states. A torn record, a lost tail and an emptied file leave a prefix of that
  order, a rewrite starts it anew with the present state, so that what is read
  back is some state that the node had. `RecoveryNotAhead` follows.
* `Sound` is for a node to which nothing happened but crashes, also within a
  rewrite, and a file closed too early: `Store` (the file is whole and its
  entries carry their positions), `Writers`, and `Mirror`, which says for every
  kind of operation under way how file, buffer and memory differ.
* `Promises` is for a node to which nothing happened but crashes outside a
  rewrite; what callers were told lies between file and memory.
* `ReadEntries` takes the n-th entry record of a file of any length. That every
  set of positions can be listed in increasing order, and that a list has one
  length, is shown in `RaftLogProofs` by least counterexamples, because there
  is no induction over data; what an append or a cut does to the entries
  read back follows from it.

### The apply pipeline

* `PipeInv` is the types (a copy in the channel or with a goroutine is a committed
  entry of the log; a goroutine's copies have consecutive indexes), `NoGaps` and
  `SendersInOrder`: whoever is about to send has been preceded by everything
  below. That another goroutine may send the same entries only repeats them.
* `CallInv` says for each client where its index stands: registered or replaced,
  waiting for its own entry as long as the node has led, answered after the
  entry was sent.
* `MapInv` has the map as what a replay of the entries applied so far makes, and
  `Attended`: if the last committed entry was not sent, a goroutine is about to
  collect or holds it.
* `ViewInv` adds what each of the three looks of a viewer found, and what may
  have become of it since; the invariants above hold with viewers too.

### The servers

* `KeyInv` says of every request that its handlers form a chain of which the last
  is at work (`Chained`), that it was proposed once at most and by the last
  handler only if at all (`AtWork`), and that no status in the chain says more
  than is so (`Truthful`). A caller that gives up becomes `done` with 502 and
  says nothing; whatever the handler behind it does is still counted.
* `TimingInv` carries two theorems about timings. Its types say that an interval
  is positive from the moment `SetConfig` has chosen it. `Handed` says where the
  interval of the configuration is on a node without overlapping updates: in
  the call that is about to send it, in the channel, or in the ticker. It needs
  that such a node has one call at a time, which holds because a second call
  puts the node into `overlapped`.
* `ConfirmInv` adds `Named` (which order a call belongs to, and that the
  coordinator never answers before its own call is done) and `LastQuiet`: if the
  last order found nothing under way, no other order can move any more, and
  `Progress` says how far each node is with its share. `ReadBack` is the
  arithmetic: milliseconds that fit come back as they were, for every width.
* `StreamInv`: while nothing has changed since a snapshot began, each answer is
  what the node would answer now, so the sum is exact; the events between two
  snapshots lead from what the one says to what the other says.

### The chaos tools

* `Book` says that the ids of one injection lie below those of all later ones,
  that an injection's rules have one action, that a timer holds ids of its own
  injection only, and `Accounted`: the rules on the proxy are those that still
  stand, in the order of their ids. `RemoveRule` with an id that is gone
  therefore takes nothing. `InstanceInv` follows the injector through the steps
  of a restart. `CutsHold` is an action property: the first rule that matches
  belongs to the cut, or to an earlier injection that shadows it.
* `ApiInv` has `QuietInv` (when an order came quietly, all earlier ones are over
  for good), `Healed`, `CutsPlaced` (a confirmed cut is in the proxy as long as
  nothing clears) and `PassesLater`: a rule that is not a cut and came quietly
  stands behind the cuts that were confirmed before it.

### Only model-checked

The liveness properties (`CampaignEnds`, `PrefixCatchesUp`,
`EventuallyApplied`, `RegisteredAnswered`, `OrderEnds` twice, `TimedHealEnds`,
`HandlersEnd`, `StopEnds`, `FramesGoOn`), because the prover has neither
fairness nor `ENABLED`; and the violations. A cluster of one node, which elects
itself and commits on its tick, is covered by the proofs but not by a run.

## 6. Not modelled, and the plan

* Metrics (they read status), the web UI, deployment and shell scripts, generated
  protobuf code, scenarios, tests and benchmarks (drivers, read for what they
  expect).
* The outbound side of the gRPC transport: the proxy check is `NetworkProxy`, the
  loss and delay of calls are the core's, the conversion copies fields; the cache
  of connections is left out.
* Flags, environment variables and output of server and client.
* The byte layout and checksum of WAL records (whole and torn records stand for
  them), and text made of log entries.

Next: a reading of the longer proofs for steps that could be shorter, and for
lemmas that two modules could share (sequences with an element more, finite
sets of numbers with their largest).
