# totpgate: a TLA+ model of the port-knocking daemon

`totpgated` keeps a TCP port shut in nftables and opens it, for a while, to the
source address of a UDP datagram that carries a valid one-time token. This
directory models the daemon as state machines, model-checks them with TLC and
proves their main properties with TLAPS. Source paths below are relative to the
repository (`src/main.c` is the daemon, `DOMAIN.md` its design document).

## 1. The system

| Part | State | Operations | Talks to |
|---|---|---|---|
| Rate limiter (`ratelimit.c`) | `g_table`: 64 slots, open addressing, per address: failures, start of the window, end and length of the block | check, fail, success | called by `handle_one_packet`; wall clock |
| Token validation (`auth.c`) | `g_replay`: 64 slots, per address: last counter, last use | validate (drift windows, replay check, record), prune | `totp.c`; `handle_one_packet`, `daemon_process`; wall clock |
| Dynamic rules (`main.c`) | 256 rule records, `num_rules`, `last_prune` | track, prune (flush both chains, put live rules back) | netlink; both clocks |
| Netlink (`netlink.c`) | a socket; in the kernel: per family a table with an `input` and an `allowed_ips` chain | init, append rules, insert, flush, cleanup | the kernel, one batch and its answers at a time |
| Daemon (`main.c`) | descriptors, signal mask, capability | setup, serve, cleanup | all of the above, epoll, signalfd |
| Event loop (`main.c`, `udp.c`) | edge-triggered UDP sockets, level-triggered signalfd | wait, drain, handle signal | everything, in one thread |
| Packet handling (`main.c`) | none of its own | `handle_one_packet`: normalise the source, rate limit, validate, insert, record | ties the first four together |
| Options, secret file (`parse_opts.c`, `main.c`) | `struct config` | one handler per option, defaults, read the file | decides what `daemon_run` gets |
| Privilege drop, seccomp (`privdrop.c`, `seccomp.c`) | process credentials | run once, after the setup | decides what the cleanup may still do |
| Client (`client.c`) | its configuration | options, decode, compute the token, send one datagram | the daemon, over UDP, with no answer |
| Secret decoding (`encode.c`), HMAC-SHA1 (`hmac.c`, `sha1.c`), TOTP (`totp.c`) | buffers of one call | hex, base32, base64; update and final; truncation | used by daemon and client |

One thread does everything, so there are no data races. What is hard is of
another kind:

- the **kernel's state outlives the process**, and is changed batch by batch,
  any of which may be refused, with a crash or a signal between any two;
- a **prune pass takes many netlink round trips**, while connections arrive,
  the clock runs and rules go on expiring;
- the two **hash tables delete by clearing a slot**, which open addressing does
  not forgive: probe loops stop at the first unused slot;
- **two clocks**: ages, windows and expiries use the wall clock, which may be
  set back; the prune interval uses the monotonic one;
- **edge-triggered** sockets with a drain loop;
- fixed **limits**: 64 slots, 256 records, 64 events, 8 ports;
- **errors that are passed over**: refused flushes, answers of the kernel that
  do not come, EPERM while privileges are dropped;
- **two programs that must agree** on a secret and a token without a word
  between them: leftover bits, padding blocks, leading zeros.

What makes each part correct: blocks stand until their time and only offenders
get them; no counter is accepted twice from an address and no good token is
refused; whoever the kernel lets in is watched by a record that runs out; no
open connection is ever cut, the gate is shut whenever the daemon serves and
harmless once it is gone; no edge, datagram or signal is missed; the daemon as a
whole lets nobody in without a recent token; it runs as it was told, with no
privilege but the one it needs; and the client's token is the one RFC 4226 asks
for, sent where the user said.

## 2. Modules

| Module | Models |
|---|---|
| `Clock` | `now` (the wall clock, may be set back by `MaxBack` seconds in total) and `Mono` (monotonic) |
| `Probe` | the probe loop both tables share: `Found`, `Gap`, `NoRoom`; the hash is a constant |
| `RateLimit` | `ratelimit.c` as `handle_one_packet` uses it |
| `RateLimitHistory` | the same with the clients' own history of failures, and the refinement mapping |
| `RateLimitSpec` | the same rule without a table: one record per address, independent of all others, none ever lost |
| `Auth` | `auth.c`: drift windows, replay table, pruning |
| `Rules` | rule records, prune passes, the `allowed_ips` chains |
| `Lifecycle` | `daemon_run` with the netlink setup and cleanup, deaths and restarts, the tables |
| `EventLoop` | `daemon_process`: epoll, drain, signal |
| `Gate` | `handle_one_packet` and `daemon_process` over `RateLimit`, `Auth` and `Rules` together |
| `Access` | the abstract promise of `Gate`: nobody gets in without a token that advances, or again after its grant |
| `Options` | `parse_opts.c`, `main`'s defaults, `read_secret_file` |
| `PrivDrop` | `privdrop.c` and `install_seccomp`, one system call a step |
| `Startup` | `main`: `Options`, then `PrivDrop` |
| `Encode` | `encode.c`: the three decoders, one step per group |
| `Hmac` | the framing of `sha1.c` and `hmac.c`, as operators |
| `Client` | `client.c` over `Encode` and `Hmac`, to `auth_parse` in the daemon |
| `MC*` | instances for TLC: model values, home slots, tokens, failure sets |
| `TableProofs` | theorems about `Clock`, `Probe`, `Auth`, `RateLimit` and its history and promise |
| `RulesProofs`, `LifecycleProofs`, `EventLoopProofs`, `GateProofs`, `StartupProofs`, `HmacProofs` | theorems about the module they are named after; `GateProofs` uses those of its parts |
| `ClientProofs` | theorems about `Encode` and `Client`, with those of `HmacProofs` |

How the state corresponds to the code. Variables have the code's names
(`g_table`, `g_replay`, `rules`, `num_rules`, `last_prune`, `g_fd`, `udp_fds`,
...). Addresses are members of a set and `ip_eq` is equality; in `Gate` a packet
comes from a source that `normalize_src` maps to an address, in `RateLimit`,
`Auth` and `Rules` that has been done. Tokens are members of a set and
`totp_generate` is the constant function `Hotp`, which need not be injective. A
kernel chain is the set of its addresses, or the sequence of its rules where
their order matters. `pc` is where the one thread is between two system calls
that something else can come between; what runs without such a call is one
action. In `Lifecycle` `pc` and `family` walk through `daemon_setup_netlink`,
`daemon_setup_epoll`, `drop_privileges`, `daemon_process`, `daemon_cleanup`.

`Gate` extends the three modules it composes and conjoins their actions: a
refused packet is a failure of the rate limiter, an accepted one is a validation
of `Auth`, a success of the rate limiter and a grant of `Rules` at once, and one
prune interval drives both prunes. That `Gate` implements `Auth` and `Rules` is
proved, so their theorems hold of the whole daemon.

In `Options` an argument is what its reader makes of it: a number is `atol`'s
result, a name its length, an address its family. In `Encode` a character is its
value in the alphabet, `Pad` or `Bad`, and `ReadAsOneString` compares the decoders,
which work group by group, with the text read as one string of bits. Which texts
are `Readable` and how they are is the dialect of `encode.c` and its test, which
is not quite that of `DOMAIN.md` section 3.1 (section 6 below). The width of an
unsigned long is the constant `LongBits`: with 32 bits, as on the i686 and ARM
machines of the releases, the first byte of a base32 group is whatever the
undefined shift makes of it (`FirstBytes`), and `ReadAsOneString` then speaks of
the other bytes, `Base32AsWritten` of all. In `Hmac` a
byte carries its origin and the pads it was xored with; a context keeps the
blocks it compressed in place of the five words `H`, so two hashes are equal in
the model exactly if the same bytes were compressed in the same order.

Data left out: the handle and family of a rule record (never read), addresses
of unused slots (never read before they are overwritten), log texts, message
bytes. All starts of `Lifecycle` use the same target port and interface.

Definitions that begin "A mutant" change one definition the way a slip in the
code would. They are used by no specification: putting one in the place of its
original makes a property fail, which shows that the property watches that code.

## 3. Runs

`tlc -config <cfg> <module>` in this directory.

| Configuration | Shows |
|---|---|
| `MCRateLimit.cfg` | addresses in home slots of their own: the table agrees with the history (`HistInv`), `BlockStands`, `OnlyOffendersBlocked`, and it implements `RateLimitSpec` |
| `MCAuth.cfg` | `AuthInv`, `AcceptedOnce`, `FreshTokenAccepted`, with colliding tokens and a clock set back |
| `MCAuthCollide.cfg` | **violated** `AcceptedOnce`: pruning one entry hides another |
| `MCRules.cfg` | `RulesInv`, `KernelRuleWatched`, `RecordsInKernel`, `BoundedOverstay` through every stage of a prune pass, with refused insertions and flushes |
| `MCRulesFlush.cfg` | **violated** `GrantHonoured`: the flush interrupts grants |
| `MCLifecycle.cfg` | `LifeInv`, `EstablishedSurvives`, `GateHolds`, `NoStaleGrants`, `ExitOpens`, `DescriptorsClosed`, `SignalEnds` |
| `MCEventLoop.cfg` | `LoopInv`, `NoLostEdge`; with unending arrivals `QueuesDrained`, `SignalSeen` |
| `MCEventLoopStranded.cfg` | **violated** `NothingStranded`: an empty datagram ends the drain |
| `MCGate.cfg` | the composition, with both tables full after one address: `GateInv`, `RecentProof`, `CleanSlate`, `BlockStands`, and it implements `Access` (`KeepsPromise`) |
| `MCStartup.cfg` | every command line of three options and every way to be started: `StartupInv`, `AsAsked`, `OneSecret`, `Confined`, `StillCapable` |
| `MCClient.cfg` | `ClientInv`, `ReadAsOneString`, `MacAsSpecified`, `TokenArrives`, `SentWhereAsked`, with longs of 64 bits |
| `MCClient32.cfg` | **violated** `Base32AsWritten`: a long of 32 bits loses the first byte of a base32 group |

A violated property states what a document of the repository says (section 6).

Bounds, and why they are enough:

- Two addresses: the hazards of the tables are between an address and a
  neighbour. Two slots or one: enough for a displaced entry and a full table.
  Addresses are not a symmetry set, for their home slots differ.
- `MaxTime`, with windows and blocks of one to three seconds, is long enough
  for a window to run out, a block to end and the next, doubled or capped, to
  begin; in `MCAuth` for four to five time steps and an entry to be pruned (its
  age of 6 s just satisfies `AgeSuffices`; the code's 3600 s does so by far).
  `MaxBack = 1` sets the clock back by less than a step and a window, which is
  where the arithmetic is delicate. `MaxHistory` bounds the failures an
  address adds up (in `MCRateLimit.cfg` the clock and the blocks bound most
  behaviours before it does).
- `MaxRules = 2` fills the records with two clients, one per family; `MaxPass =
  2` lets a prune pass take time; `MaxTime = 7` is just long enough for an
  address to overstay by all that `BoundedOverstay` allows, and a second.
- `MaxStarts = 3`: a process that dies, one that finds its tables and dies or
  leaves in turn, and one more. `MaxRefusals = 1` refusal per process: the code
  removes old grants twice, so one refusal must be harmless and two are not.
- In `EventLoop` arrivals are not bounded, only the receive buffer is (two
  datagrams, enough for something behind an empty one). `MaxEvents = 3` has room
  for two sockets and the signal, as the code's 64 events have room for eight
  sockets and the signal; the theorems about edges hold with less room, too.
- `MCGate.cfg` has tables of one slot and one rule record for two addresses, so
  that all three fill up; one second is a step, a window, a block, a grant and a
  prune interval, and three seconds see each of them run out. The clock is set
  back in the runs of the parts.
- `MCStartup.cfg`: three places for ports, so that one and two listeners meet
  the limit; numbers at both ends of a port's range and one that a cast would
  turn into a good port; names and secrets of no, one and too many bytes. Ids
  are four: root, the invoking user, the account, 65534. The namespace allows
  `setgroups` or does not.
- `MCClient.cfg`: texts with every number of characters and of pads in the last
  group, after a first group and without one, and up to one byte more than the
  buffer holds; blocks of eight bytes with digests of six, where keys are
  shorter than, as long as and longer than a block, and messages end at every
  place of a block. SHA-1's 64, 20 and 8 bytes have the same proportions.
  `MCClient32.cfg` needs one text, a group of base32.

The runs stop where a bound on time, starts or arrivals is reached, so deadlock
is not checked.

Fairness. `LifeSpec` asks weak fairness of `Setup`, `Cleanup` and
`StopOnSignal`: the process is scheduled, every netlink exchange ends (its poll
has a timeout of 100 ms), and a pending signal is looked at, as `signal_fd` is
level-triggered and each pass of the loop waits at most one second. The last is
what `EventLoop` examines: there only the process is scheduled (weak fairness of
`Process`), and datagrams may arrive for ever. A drain that never ends then
starves the signal and the other sockets: `QueuesDrained` and `SignalSeen` have
the premise `DrainsEnd`, that no single drain goes on for ever, which is a
property of the traffic and not of the code. Nothing is assumed of clients, the
clock, crashes or signals.

## 4. Proofs

Checked by TLAPS for every value of the constants, from the `ASSUME`s of the
modules and the assumptions named in the theorem.

| Theorem | Says | Assumes |
|---|---|---|
| `TableProofs!ReplayTableCovers` | `[]AuthInv` | `PerfectHash`, `AgeSuffices` |
| `TableProofs!NoReplay` | `[]AcceptedOnce` | the same |
| `TableProofs!NoFalseRefusal` | `[]FreshTokenAccepted` | the same |
| `RulesProofs!RulesAgree` | `[]RulesInv` | |
| `RulesProofs!KernelRulesWatched` | `[]KernelRuleWatched` | |
| `RulesProofs!PutBack` | `[]RecordsInKernel` | |
| `RulesProofs!OverstayBounded` | `[]BoundedOverstay` | |
| `TableProofs!TableInvariant` | entries stay at home | `NoDisplacement` |
| `TableProofs!BlocksStand` | `BlockStands` | `NoDisplacement` |
| `TableProofs!TableAgreesWithHistory` | `[]HistInv` | `NoDisplacement` |
| `TableProofs!OnlyOffendersAreBlocked` | `OnlyOffendersBlocked` | `NoDisplacement` |
| `TableProofs!PromiseKept` | the table implements `RateLimitSpec` | `PerfectHash` |
| `LifecycleProofs!TablesAsBuilt` | `[]LifeInv` | |
| `LifecycleProofs!ConnectionsSurvive` | `[]EstablishedSurvives` | |
| `LifecycleProofs!ServingGuards` | `[]GateHolds` | |
| `LifecycleProofs!FreshStart` | `[]NoStaleGrants` | `MaxRefusals <= 1` |
| `LifecycleProofs!NothingLeftShut` | `[]ExitOpens` | `MaxRefusals <= 1` |
| `LifecycleProofs!AllClosed` | `[]DescriptorsClosed` | |
| `EventLoopProofs!LoopConsistent` | `[]LoopInv` | |
| `EventLoopProofs!EdgesKept` | `[]NoLostEdge` | |
| `GateProofs!GateKeepsAuth` | `Gate` implements `Auth` | |
| `GateProofs!GateKeepsRules` | `Gate` implements `Rules` | |
| `GateProofs!GateCoherent` | `[]GateInv` | `NoDisplacement`, `AgeSuffices` |
| `GateProofs!LetInOnRecentProof` | `[]RecentProof` | the same |
| `GateProofs!SlateWiped` | `[]CleanSlate` | the same |
| `GateProofs!BlocksStandInTheGate` | `BlockStands` | the same |
| `GateProofs!PromiseOfTheGate` | `Gate` implements `Access` | the same |
| `StartupProofs!StartsInOrder` | `[]StartupInv` | |
| `StartupProofs!ConfiguredAsAsked` | `[]AsAsked` | |
| `StartupProofs!SecretAsOffered` | `[]OneSecret` | |
| `StartupProofs!ServesConfined` | `[]Confined` | |
| `StartupProofs!ServesCapable` | `[]StillCapable` | |
| `HmacProofs!HashesAsSpecified` | `AsSpecified(hmac_sha1(key, msg), key, msg)` | `key` and `msg` are sequences of bytes |
| `ClientProofs!ClientKeeps` | `[]ClientInv` | |
| `ClientProofs!ClientTyped` | `[]ClientTypeOK` | |
| `ClientProofs!DecodesAsOneString` | `[]ReadAsOneString` | |
| `ClientProofs!Base32Whole` | `[]Base32AsWritten` | `LongBits = 64` |
| `ClientProofs!TokenAsSpecified` | `[]MacAsSpecified` | |
| `ClientProofs!TokenIsRead` | `[]TokenArrives` | |
| `ClientProofs!SentAsAsked` | `[]SentWhereAsked` | |

The assumptions. `PerfectHash`: the addresses in use have home slots of their
own; `NoDisplacement`: that, or a table of one slot. Without them there are
counterexamples, for the replay table in `MCAuthCollide.cfg` and for the rate
limiter if `MCRateLimit.cfg` has `Hash <- Collide`, so they cannot be dropped:
the theorems say exactly when the tables are right. `LongBits` is 32 or 64;
`Base32Whole` needs 64, as `MCClient32.cfg` shows. `AgeSuffices`: entries outlive the windows of
their counter and all the clock may be set back. `MaxPass`, a constant of
`Rules`, bounds how long a pass of the loop takes; the code does not bound it.
The addresses that a refused flush left in a chain are remembered in `stuck` and
excepted from `KernelRuleWatched`, `BoundedOverstay` and `RecentProof`: the code
does not look at the result, and only the next flush that works removes them.
In `Lifecycle` a refusal that the process does not hear of puts its family into
`unheard`, until a deletion of the table settles it: the setup went on without a
rule that it takes for appended. `EstablishedSurvives`, `GateHolds` and
`NoStaleGrants` are about the other families, `Heard`; `ExitOpens` is about all
of them. An answer that is lost is lost for good, as the kernel drops what does
not fit into the socket; it is not read by a later exchange. The theorems about
`Startup` and `Client` hold for command lines, texts and secrets of every length
(`MaxArgs` is any number); a character is any integer, `Pad` and `Bad` included,
and a digest any twenty bytes. `Confined` promises the supplementary groups only
where the namespace allows `setgroups`: a refusal with `EPERM` is passed over.

The arguments.

- *Auth*. `AcceptedOnce` is not inductive: pruning could forget a counter. The
  invariant says that every accepted counter is either covered by its
  address's entry or *over*: so old that no window reaches it however far the
  clock may still be set back. Pruning is safe because an entry's last use is
  not earlier than its counter allows (`EntriesAreRecent`), and it is older
  than `MaxAge` when it goes.
- *Rules*. The invariant follows the prune pass: the first family's chain is
  empty, then both, then they hold what the records before `i` put back. Its
  clock part relates the last prune, the last pass and the expiries of the
  records a prune leaves, and gives the bound on the overstay.
- *Gate*. Each step of the composition is a step or a stutter of `Auth` and of
  `Rules`, so their invariants come for nothing. What remains ties them
  together: whoever is in a chain or on a record used a token, his grant ended
  no later than `Timeout` after a time at which that token was good, and an
  address with a clean slate is not in the rate limiter's table. `Gate` does not
  implement `RateLimit`: the grant that follows a success may take time, and in
  `RateLimit` a packet takes none. `BlocksStandInTheGate` is therefore proved of
  `Gate` itself: another address's packet leaves a blocked entry alone, so that a
  block can only end by the time the grant took.
- *EventLoop*. `NoLostEdge` needs to know that no event is pending while the
  process waits: then what `epoll_wait` does not report keeps its edge.
- *RateLimit*. With no displacement a walk ends at the home slot
  (the lemmas about `Probe`), so the table is a map; `fail_count` then counts the last
  failures of the history, all since `first_fail`, which bounds their distance
  in time. The refinement maps the table to that map.
- *Lifecycle*. The invariant says how complete the tables are at each step of
  the setup, that each drop rule in any table, an old process's included, comes
  after both its exceptions, and that a grant that survived the deletion of its
  table has cost a refusal, so that the flush is not refused again. `DropsGo`
  does the same for drop rules: one that survived the deletion at the start has
  cost the refusal that would be needed for `netlink_init` to fail and close the
  socket before the cleanup, and one that survived the emptying of its chain at
  the end has cost the refusal that would be needed to keep its table.
  `DescriptorsKept` says that each open port is among those counted.

- *Startup*. `AsAsked` and `OneSecret` speak of a daemon that runs; the invariant
  says the same of every stage before. `TakenSoFar`: the ports in the array are
  those asked for, and it is empty only if none was; `SecretsApart`: of a secret
  and the name of a secret file there is one at most, and the lengths tell which.
  `Confined` and `StillCapable` speak of a daemon that serves; `AsBegan`,
  `IdsDropped`, `CapsDropped` and `Guarded` say what each system call leaves to
  the next: until `setuid` the process is the one that began, and the
  capabilities are all there before `capset`, or none is and `PR_SET_KEEPCAPS`
  has failed. That is the case in which `StillCapable` makes its exception.
- *Hmac*. No induction over the message is needed, for `Hmac` treats the whole
  blocks of an update as one step. `Kept(ctx, m)` says that a context stands for
  the message `m`: the blocks it has processed are `m`'s up to its last whole
  block, the rest of `m` is at the start of the buffer, and nothing is said of
  what is behind, which may be uninitialized or left over. An update with `data`
  takes `Kept(ctx, m)` to `Kept(ctx', m \o data)`, in each of the three ways
  `sha1_update` has; `sha1_final` of such a context, in one block or two, has
  processed exactly `Padded(m)`. `hmac_sha1` is then two such chains, the second
  one starting with the buffer of the first.
- *Encode*. The decoders go group by group, `Meaning` reads the text as one
  string of bits. The invariant, `DecodeInv`: between two steps the decoder has
  read whole groups of data, and `out` is the octets of just these (`InData`); or
  it is at the end of a readable text with all of its meaning (`AtEnd`); or it
  stands behind a padded group in a text that goes on, which is then not
  readable and will be refused (`InExcess`). That `out` is these octets is
  `Alike`: of the same length, and equal where the width of a long lets a byte
  survive. The argument is about the exact octets (`Exact`), to which a group
  adds its own; `AlikeLonger` carries it over to `out`, as it is always the first
  byte of a group that is lost. `ReadAsOneString` alone is not
  inductive, for it says nothing of a decoder at work. The octets of a group are
  those of the text at its place because groups have whole octets
  (`GroupOctets`), and the bits behind the last octet of a short group are zeros
  that are filled in.
- *Client*. `ClientInv` carries the port, the server, the hash and the datagram
  from the step that made them to the one that uses them. That `auth_parse` reads
  what the client formats is arithmetic on six digits; that the datagram goes
  where it was asked is a matter of taking a text apart and putting it together.

Only model-checked: the liveness properties `SignalEnds`, `QueuesDrained` and
`SignalSeen`, as liveness is out of the prover's reach. The properties of the four
violated runs are false there; `AcceptedOnce` and `Base32AsWritten` are proved
under the assumptions that these runs break.

## 5. Not modelled

- The encoding of netlink messages and the nftables bytecode: bytes read by the
  kernel. What the rules do to packets is in `Lifecycle`.
- The compression function of SHA-1: eighty rounds on 32-bit words are beyond
  TLC; test vectors cover it better. Digests are symbolic.
- The list of system calls of the seccomp filter, a table for the kernel.
- The handle of a rule, a counter that nothing depends on, and netlink sequence
  numbers, which the code does not compare.
- Socket options, the length of datagrams beyond empty or not, the trimming of a
  secret file's text, logging.

## 6. Where code and documents differ

Shown by a run:

1. `auth_replay_prune` clears slots in the middle of probe sequences: an entry
   behind them is not found any more, and a token used seconds ago is accepted
   again (`DOMAIN.md` BR-3).
2. `base32_decode` needs 40 bits of an unsigned long. Where it has 32, as in the
   i686, armhf and armv7 builds of `release.yml`, every fifth byte of a base32
   secret is wrong (`DOMAIN.md` section 3.1), without an error.
3. A prune pass interrupts the grants that still run (`README.md`).
4. An empty datagram ends the drain (`DOMAIN.md` section 6).

Met while reading, with no run of their own:

- *Rate limiter.* `rate_limit_success` clears slots as `auth_replay_prune` does,
  and a block recorded behind one is lifted; `BlockStands` is violated if
  `MCRateLimit.cfg` has `Hash <- Collide`. Expired entries are not recycled, so that a full table records
  no new offender (`DOMAIN.md` section 8 recycles them). The failure window ends
  after more than `window` seconds, BR-8 says at `window` (`RateLimitSpec` has the
  code's rule in this and in the next point); the manual calls it
  sliding, it is fixed. With `min_block > max_block`, which nothing checks, the
  first block is not capped, BR-8 caps it. With `--rate-limit 1/...` the first
  failure never blocks.
- *Tokens.* Two counters of the drift window that share a token: the check stops
  at the first, and a fresh token may be refused. The replay check is per source
  address. A token is used up even if the insertion of its rule is refused.
- *Rules.* BR-7 names `netlink_rule_delete`, which nothing calls; the code flushes
  and reinserts. `DOMAIN.md` section 3.6 has the kernel expire rules; it does
  not. A refused flush is not noticed, and an expired address then stays. The
  inserted rule does not look at the protocol before the port.
- *Netlink.* `process_batch_replies` waits for 100 ms of silence after every
  exchange, so a prune pass with many live rules takes seconds, and does not
  compare sequence numbers. The established rule is restricted to the interface,
  `DOMAIN.md` gives it no match. When the second family's table is refused, the
  first one's stays (`QA.md`).
- *Loop.* The drain of a socket has no budget, `QA.md` asks for one. Until
  `sigprocmask` runs, SIGTERM kills the daemon with its tables in place.
- *Sizes.* `DOMAIN.md` section 7 gives other table sizes than the code.
- *Secrets.* `DOMAIN.md` gives an odd hex text an implicit leading zero; the code
  and its test put the zero behind. `DOMAIN.md` rejects invalid padding; the code
  accepts padding inside a base32 or base64 text, and less of it than a group
  lacks. `DOMAIN.md` handles white space inside base64; the code rejects it. base64
  does not look at left-over bits. A secret file with nothing in it makes a daemon with an empty secret.
- *Options.* `--port 192.168.1.1` is read as port 192.
- *Client.* Brackets are only taken off a host that has a port (`QA.md`).

## 7. Plan

Built first: rate limiter, token validation, rules, lifecycle, event loop and
their theorems. Then: refused flushes and unheard refusals in `Rules` and `Lifecycle`,
unending arrivals in `EventLoop`, the composition `Gate` with its promise `Access` and its
theorems, and the programs around it, `Options`, `PrivDrop`, `Startup`, `Encode`,
`Hmac`, `Client`. Then theorems for those: `StartupProofs`, `HmacProofs`,
`ClientProofs`.

Every safety property that a passing run checks is also the statement of a
theorem. Left to TLC is liveness.
