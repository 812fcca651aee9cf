# Address registry: formal models and proofs

TLA+ models of the account address association registry: the Cairo contract
that links Ethereum addresses to Starknet accounts, the TypeScript SDK around
it, and the parts of the repository's automation that keep state: the reviews
of pull requests, the setup of tools and the local release. TLC checks the
models on small instances; TLAPS proves every invariant and action property of
the runs that it can express for every instance (section 5 lists the rest).

To check: `tlc -config X.cfg M` for each row of "Runs" below, and `tlapm` on
`RegistryProofs`, `AttemptProofs`, `WalletProofs`, `ReaderProofs`,
`PublicationProofs`, `TurnProofs`, `SetupProofs` and `ReleaseProofs`.
`PROJECT.json` lists every component with its sources, the hazards of the code
with the properties that cover them, the source lines of each definition, and
for every property a plausible bug that breaks it.

## 1. The system

| Component | State it keeps | Operations | What is hard | What makes it correct |
| --- | --- | --- | --- | --- |
| Registry contract (`contracts/src/registry.cairo`, `state.cairo`, `interface.cairo`) | forward map, a list per account with an index per address, a nonce per address, a nonce per (account, address) pair | `link`, `move`, `unlink`, `revoke`, `invalidate_pending_incoming`, getters, pages | swap-and-pop with index repair; requests signed long before they are executed; limits of nonces and counts | forward map and lists are one relation; consent is used once, in time, under the link it was given for; events tell every change |
| Signing domain (`eip712.cairo`, `labels.cairo`, `signature.cairo`, `typed-data.ts`) | immutable domain, salt, statement hashes | hashing of a request, verification | one signature must serve one operation of one deployment | taken as ideal |
| SDK account attempts (`client.ts` `accountAttempt`) | generation, listener, the race's result | each operation of a client, up to `execute`, waiting and readback | events between two checks, the loser of `Promise.race`, failing cleanup | nothing executes or is returned after a change; a known hash is never lost |
| SDK wallet signing (`adapters.ts` `signWithProvider`) | listeners, invalidated flag | chain check, account check, `eth_signTypedData_v4`, checks again, cleanup | the wallet changes while its prompt is open; registration fails half way | no late prompt, no signature under another selection, no listener left |
| SDK submission (`client.ts`, `protocol.ts`) | expected effects | prepare, validate, simulate, execute, readback | the registry is used by others between all of these | matched, mismatch and reverted mean what the application takes them for |
| SDK queries (`queries.ts`) | authentications in flight | authenticated reads, snapshots, listings | concurrent first reads, a failed shared check, pages of changing lists, an unreliable node | results are authenticated, of one block, complete |
| Review publication (`review_ci.py`, `review_gate.py`, `reviews.yml`) | status, comments, artifacts of a run | start, prepare, review, publish, rerun, cancel | the pull request moves while its review runs; artifacts outlive attempts | green only on visible, complete, clean reviews of that revision |
| Review execution (`review_runtime.py` `execute`) | the record of a review | checks, sandbox canary, one process or turns, record | every step may fail; what is recorded must have happened | a recorded success rests on the whole prompt |
| Review turns (`review_transport.py`) | history file, event stream, process group, helper aliases | run a bounded process, validate its lines and its history, next fragment | processes that hang, fork or ignore SIGTERM; truncated or reordered streams; a rewritten history | files are read when nothing is alive; accepted streams and histories obey their grammar; the review ends |
| Tool setup (`setup.py`, `setup_reference.py`, `setup_consumer_typescript.py`) | cache, store of versions, links, an environment with its marker, a compiler with its record | download, unpack, expose, rebuild, install | killed at any step, two runs at once, what others left | nothing incomplete is exposed; what is reported is installed; refusals have a cause |
| Local release and integration (`release/local.py`, `integration/server.py`, `integration/run.py`) | plan, devnet and its private files, record | plan, build, start, declare, deploy, read back, clean up, record | signals anywhere, edits and other builds meanwhile, a taken port | a record describes what was deployed, after a cleanup that always ends |
| Example consumer, CI scope, contract evidence, repository checks, reference oracle | none beyond their input | one-shot reads and comparisons | - | see "Not modelled" |

Interactions: the SDK reads the contract through a node and submits calls
through a Starknet account; anybody changes the registry at any time in
between. Consumers call `is_associated`. Reviews, setup and release work on the
repository and are independent of the contract, except that a release deploys
it. `SubmissionSession` composes the SDK's submission with the contract itself,
`ReviewExecution` composes a review with its turns and each turn with process,
stream and history, `LocalRelease` composes the release with the deployment and
the owned devnet. The account attempt, the wallet's signing and the reader share
no state and stand alone.

## 2. Modules

### Contract

`AddressRegistry` is the contract. `members` is a record of the four membership
maps, named as in `Storage`; `ethereum_nonce` and `recipient_nonce` are the two
nonces; `events` holds the events of the last call; `signed` is the set of
requests some key has signed; `block_timestamp` is the clock. Each entry point
is one action with all its checks, in the code's order where the order shows;
a call that fails a check is a panic, which changes nothing and is therefore no
step. `insert` and `remove` are operators on the record, as the code's helpers
are. Hashes and signatures are ideal: a signature is a member of `signed`.
`Sign` and `NextBlock` are the environment.

`RegistryProperties` has the invariants and action properties, `RegistryEvents`
the property that replays the emitted events from the links and nonces before
the call and must arrive at those after it. `AssociationConsent` is what the registry
promises without nonces, lists and clock: each request goes from "future" to
"live" to "dead" and never back, a link changes only by live consent or by its
own account, and every change of a link kills the live requests of its address.
`RegistryConsent` is the refinement mapping: a request is dead once a nonce it
names has passed. `MCRegistry` names the requests of an instance.

### SDK

`AccountAttempt` is `accountAttempt` with the operations that run inside it.
`step[a]` is the call that attempt `a` awaits; `reply[a]` its answer, not yet
continued; `race[a]` is what `Promise.race` settled with, `outcome[a]` what the
caller gets. One action per callback or continuation: an answer arrives, the
code after an `await` runs, a change is emitted to the listeners, `finish()`,
the cleanup. `AttemptProperties` states what it promises.

`WalletSigning` is `signWithProvider`: installation of three listeners, any of
which may throw, every check between two calls, the race, removal of listeners.
Events queue between the wallet's change and the listener.

`SubmissionSession` EXTENDS `AddressRegistry` with one submission: prepare,
validate, simulate, execute, inclusion, rest of the block, readback. Between
any two steps the registry takes any step of its own. `expected` is what
`signedEffect` or `unsignedSubmit` computed; `interfered` is history.

`RegistryReader` is `createRegistryReader`. A block's answers are named by the
block, so that "a value read at block b" is `b`. `authenticating[b]` is the
entry of the map of the authentications in flight, named after the read that
began it; `pinned` says whether this node honours the block of a call.

### Reviews

`ReviewPublication` has the pull request, the statuses, the comments, and for
each run its phase, metadata, manifest, results of its jobs and the artifacts.
`require_current` is a step of its own and so is each write, since the pull
request can move between the two. `intent` is the status to be set; `revoke`
is the except branch of `main`. GitHub is modelled from how the workflow uses
it: runs of a concurrency group follow one another, a job with `always()` goes
on in a cancelled run, artifacts belong to the run and survive its attempts,
any job may be run again with those that need it. `given` and `late` are history.

`TurnProcess` is `run_bounded` and `capture_helper_alias`: the program, a child
that may leave its group, who holds the pipes, the clock, and the finally block
that terminates, waits half a second and kills. `TurnStream` is
`validate_events` and `TurnHistory` is `validate_history`, each as a record of
the function's locals, a guard for every kind of line or row, and what it does
to the record. `ReviewTurns` is `execute_turns`, which runs them for each
fragment; the lines and rows a program wrote are chosen when they are read.
`ReviewExecution` is `execute` around it. `PromptDelivery` is what a review
promises of its prompt: told from the beginning without a gap, and no success
before the end of it. `TurnProperties` states the grammars and the refinement
mapping; `MCTurns` has the prompts.

### Setup and release

`SetupRun` has what the runs of a script have in common: processes that begin,
are killed at any label, fail for a reason, and begin again; `met` and `litter`
are history. `ToolSetup`, `ReferenceSetup` and `ConsumerSetup` are the three
scripts over what is on disk, one action per step that another process can see
in between: a check, a rename, a symlink, the removal of one entry.
`SetupScripts` puts them together; no two of them write the same files.

`OwnedServer` is `server.py`: labels of the main thread, signal handlers, the
devnet, private files. `hit` records where a signal was taken. `LocalDeployment`
is `local_deployment` of `run.py` as the release calls it, `LocalRelease` is
`local.py` with its plan, its checks and its record, and `check_ci_records.py`.
A source tree is a name, and what is built from it has the same name.

## 3. Runs

| Run | Instance | What it shows |
| --- | --- | --- |
| registry_lists | 3 addresses, 2 accounts, room for 2 in a list, nonces to 2, everything signed | Forward map, lists and indices stay one relation through any order of appends, swaps and moves; pages of any size partition the membership; no list keeps its account from unlinking; types keep their width |
| registry_signing | 1 address, 2 accounts, nonces to 3, time to 3, 2 signatures | Consent: used in time and once, for the link it names; refinement of `AssociationConsent`; events tell each change |
| attempts | 2 attempts, 3 identities (one on another chain), 2 changes, also silent ones | Nothing executed or handed out after a change, a known hash is reported, listeners go, a change settles an attempt |
| wallet | 2 accounts, 2 chains, 3 changes | No late prompt, none under a selection known to be wrong, no listener left, events end the attempt |
| session | 2 addresses, of which one is the rival's and only linked, 2 accounts, room for 1 in a list, nonces to 3 | matched means the change is ours, a mismatch or a revert has a cause that arose outside |
| reader | a snapshot and a listing, 2 blocks, 2 queries, lists of up to 3 at 2 to a page, a node that is pinned or not | Results are authenticated and of one block; only checks in flight are shared; listings are whole, and never with a repeated or missing entry; reads settle |
| publication_reruns | 1 run, 2 attempts, 2 heads, 2 reviewers, faults | Green rests on visible clean comments of the revision; comments are truthful; at most one late write; earlier attempts do not block |
| publication_overlap | 2 runs, 2 heads, main moves once, no faults | A later run cancels the earlier at any step: a pending status does not outlive its run |
| publication_revoke | 1 run, 2 attempts, main moves once | Violation: see "Findings" |
| review_turns | deadline 3, 1 kept to stop, patience 1; prompts of 4 and 5 characters, 3 to a fragment; 2 turns; 2 threads, 2 items; 7 lines, 5 rows a turn | Files are read when nothing is alive; streams and histories obey their grammar; a success rests on the whole prompt (`PromptDelivery`); a review ends |
| tool_setup | 2 processes, 5 runs, 2 versions, 2 links | Nothing incomplete is exposed; what is reported is installed unless another run came in between; refusals have one of the causes named |
| local_release | 3 signals, 2 sources, 3 edits | A record describes what was deployed, after the cleanup, in nobody's place; the devnet and its keys go, and the handlers come back, unless a signal hit one of two places for each; the release ends |

Why the bounds are enough:

- Contract: swap-and-pop has its three cases (only entry, last entry, an entry
  that another replaces, whose index must be repaired) with two entries, and a
  third address meets a full list. An address can be linked, unlinked and linked
  again to the account it left within three nonces, and a request can name a
  past, present and future nonce. `MaxCount` and `MaxNonce` stand for the width
  of the stored integers: the guards `has_next_count` and `has_next_nonce` are
  the code's own, so the limit itself is reached. `ListsMirrorLinks` and
  `PagesPartitionMembership` are proved for lists of any length.
- SDK: away and back takes two changes. Sharing an authentication takes two
  reads, of which one begins before and one after it settles. Listings of two
  pages have a full first page and a short second one. With room for
  one in a list, the account's is full once the rival address is linked to it,
  between validation and inclusion too. The constraint `RivalOnlyLinks` leaves
  out submissions for the rival address and what happens to its link afterwards:
  its lists and nonces are other ones, and room that comes back helps the call.
- Publication: two heads with different reviewers, so that an artifact of one
  can be mistaken for one of the other.
- Turns: a prompt for one message, one for two fragments, one with a byte too
  many. The second turn is the one that resumes a history. Two items can
  interleave; seven lines hold two items with a start each and an update. A row
  more than a turn needs leaves room for one that must be refused. `MaxEvents`
  and `MaxRows` only leave out streams that could no longer end in time.
  Names of threads, items and turns are used in order, as only equality counts.
- Setup: a kill, a run that meets what it left, one that overlaps, and one after
  both: four runs, and one to spare.
- Release: two edits are needed to change the source and change it back; the
  third is the one that no check of the code can see (see "Findings").
  The first signal leads to the cleanup, the second and third interrupt it.

Symmetry is used where addresses and accounts are interchangeable and only
safety is checked in that run (`registry_lists`, `session`); no run with a
liveness property uses it. The zero values are never permuted.

`CHECK_DEADLOCK FALSE` is in every configuration: attempts, sessions, reads,
runs, reviews and releases are used once and then rest, and the contract's
bounds on nonces, counts and time let an instance come to an end.

## 4. Fairness

The contract has safety properties only: nobody is obliged to call it. For
attempts and the wallet only the continuations that settle a race are weakly
fair, which is the event loop running what is due; nothing makes a wallet or a
node answer. `CancellationSettles` and `EventSettles` therefore hold although a
prompt may stay open for ever. The reader has no time limit of its own: its
`ReadsSettle` assumes of the transport that each call is answered or fails, and
shows that the reader adds no wait of its own. `PendingSettles` assumes that
GitHub runs the jobs that are due and, with `Faults = FALSE`, that its calls
succeed; it speaks of a pull request that stays where it is and of a run whose
start job has ended.

`ReviewEnds` assumes that time passes and that the runner takes the steps that
its deadlines force; the program and its child need never do anything. The one
process of a short prompt is bounded by `subprocess.run`'s own timeout, hence the
fairness of `Execute`. `ReleaseEnds` assumes that the steps of the release are
taken or fail, as its commands have timeouts; the devnet need not heed SIGTERM,
and no signal is ever obliged to come.

## 5. Proofs

Each proof module has one inductive invariant, a lemma per action, and the
theorems that follow.

`RegistryProofs`, the contract: `IInv == TypeOK /\ ListsMirrorLinks`. The parts
need each other: `remove` reads the index of an address, which must be right
(`ForwardReachesList`) for the swap to leave an exact list
(`ListReachesForward`), whose cleared tail (`RemovalLeavesNothing`) is what the
next insertion relies on. They are restated as `Consistent(m)` of a record
(`Reached`, `Held`, `Clear`, `NonZero`), so that lemmas about `insert` and
`remove` on any record serve `link`, `move`, `unlink` and `revoke` alike, and
`move` is their composition. For the pages, `OnePage` finds the page of an index
by division, and a page's entry by the remainder; that no address is on two of
them is `ListReachesForward`. `RegistryOwnersPass` is what can be proved of
`OwnerCanAlwaysLeave`: the linked account passes every check of `unlink`.
`RegistryCountIsMembership`: as list and index are inverse to each other, the
count is the cardinality of the set of linked addresses, so the limit of the
u64 is a limit on links.

Its consent: `StepKinds` says that each step relinks one address with
its nonce and pair nonces advanced (`Relinked`), advances one pair nonce
(`Cancelled`), or leaves membership and nonces alone. From it, `StaleForever`,
`ChangeRetiresConsent`, `NewOwnerWasConsented`, and `RegistryImplementsConsent`:
`Spec => Consent!Spec`, the initial states and each step under the mapping.
`RegistryExecutionRetires` adds that a call makes the consent it presents stale
(also the revoke of an address without a link, which changes no link), and
`RegistryNoReplay` that what is stale is never executed again.

Its events: a call emits one, three or four of them, and `ReplayOne`,
`ReplayThree` and `ReplayFour` say what replaying so many gives. `LinkDescribed`,
`MoveDescribed` and `DropDescribed` compare that with what the operations
store. As a call emits so few, unfolding the recursion is enough.

Submissions: `SessionInv` measures how far the registry is from what the session
expects. What is submitted is a request of its kind that was signed and names
the account in use (`SubmissionOK`), what is expected belongs to that call and
fits its width (`ExpectedOK`). Until the call is included the registry is
one step before what is expected, or past it because somebody interfered
(`BeforeCall`); afterwards it is there or past it (`AfterCall`). Nonces never go
back, so whatever others do stays visible for good: some watched nonce is past
its value (`Passed`) exactly if there was interference or a switched wallet, and
none is behind (`Reach`). That is `MatchedIsOurs` and `MismatchExplained`. For
`RevertExplained`, `UndisturbedSucceeds` goes through the checks of the call one
by one: undisturbed, each still holds but for the deadline and a full list, and
the removal cannot fail by `ListsMirrorLinks`. `SessionUsesTheRegistry`,
`SessionSpec => Spec`, carries over every theorem about the contract.

`AttemptProofs`: `AttemptInv` adds to typing that a captured generation is never
ahead of the current one; that what was read of the wallet still holds
while the generation is the captured one (`ReadIsCurrent`: the reason why
comparing generations also catches a change away and back); that an attempt not
begun has no state (`NotStarted`); that the loser of a race is voided before
`finish()` (`LoserIsVoid`: why the background cannot execute); that a tracked
transaction is closed to changes (`TrackedIsClosed`); that the outcome follows
the race (`OutcomeLast`); and that listeners belong to attempts that have yet to
remove them (`ListenerOwned`). From it, besides the properties of the runs,
`AttemptVoidIsDecided` (a change decides the race of what it voids, whatever
never answers) and `AttemptDecidesOnce` (reason, race and outcome are set once).

`WalletProofs`: `WalletInv` says which listeners the wallet may hold at each
step of the attempt (`Listening`), what the race and the outcome say of each
other (`Settling`), and that what was read of the wallet, an account or a chain,
still holds or an event that says otherwise is queued or was heard
(`KnownAccount`, `KnownChain`). Listeners are removed, and prompts are opened and
signatures returned under the selection, whatever fails. `WalletVoidIsDecided`
and `WalletDecidesOnce` say the same as for the client's attempts, and that a
voided attempt never ends in a signature.

`ReaderProofs`: `ReaderInv` follows a read: it is joined to an authentication of
its own block or one in flight (`Joins`, `Flying`), a decision says what the
block holds (`Verdicts`), values of a snapshot are of its block (`Values`), and
what a listing has so far is a prefix of the list, without a repeated entry
(`Pages`), which the count then makes the whole of it (`PageOfList`).
`ReaderNobodyStranded` says that whatever a read joined can still wake it: it is
over, it has its verdict, or a query of it is with the node. With `Open`, by
which a listing between its pages lacks an entry, `ReaderNeverReturns` is the
variant of a read (`Onwards`).

`SetupProofs`: what is exposed is complete because of what a run has established
by each label it reaches (`Progress`), and because no step takes away from a
complete version or a verified archive. `RunInv`, for each of the three scripts,
says what a run that met no other may rely on at each label (`ToolAlone`,
`ReferenceAlone`, `ConsumerAlone`), and that whatever makes a later run refuse
is explained by `litter` or by a run under way (`ToolTraces`, `ReferenceTraces`,
`ConsumerTraces`). As every step of a run leaves at most that one alone
(`MoveKeeps`), refusals have their causes and reports are of what is there.

`ReleaseProofs`: the cleanup follows from what each label says of handlers,
files and devnet (`Handlers`, `Cleanup`) as long as no signal hit one of the two
places; that the handlers come back, from what `previous` and the handlers are
there (`Restorable`), also after a signal between `Popen` and the assignment. The
record follows from counting edits: what was built, hashed and looked at can
differ only by an edit in between, and to see the same source twice takes
another one (`Once`, `Twice`). `ReleaseNeverReturns` numbers the
labels, and within a label what the loops over the two signals have done, which
gives 168 positions (`Position`) through which a release only goes forward.

`PublicationProofs`: `ReviewInv`. A job knows the revision it works on, and a
reviewer that of its context (`RevisionsKnown`); a report in an artifact or a
download was given by its reviewer for the revision it names, unless it says
incomplete (`ReportsAreGiven`); a run that has written about a revision that is
gone is on a path on which it must find that out before it writes again
(`LateStops`); comments of a run are of attempts up to its own, those of its own
attempt are on reviewers it is done with, and there are none before it comes to
its comments (`CommentsFollowTodo`: why a rerun is not blocked by what earlier
attempts wrote, and why a reviewer has one comment of each attempt); and a
publisher that means to set the status green has found
every routed report clean and commented on it (`SuccessIsEarned`). Each step
is one of the pull request or of one run (`StepCases`), and what it leaves of the
others is shown once (`OthersStay`). For the end of a run, `StartsAreFresh` (while
the start job is under way its result is not yet a success) leaves the write of a
verdict as the only step that can end a started run about the current revision
when calls do not fail: `PublicationEndsSettled`. `PublicationNeverReturns` is
its variant: phases in their order, and within the matrix and the loop over the
comments the reviewers still to be waited for or written about. By
`PublicationMatrixRuns` the matrix always has somebody to wait for: all of the
reviewers are to be run before it begins (`Unreviewed`), and whoever runs jobs
again picks one of the context (`Runs`).

`TurnProofs`: `GroupInv` for the process group. `StreamInv` relates the record of
`validate_events` to the lines it has read (`Frame`, `Mentioned`, `Ordered`,
`Finished`, `Pending`, `LastMessage`); every line that fits keeps it (`FrameRead`,
`ItemRead`), and at the end it is the grammar (`EndIsFinished`). `HistoryInv` does
the same for `validate_history`: `BookAgrees` says what its locals mean of the
rows read so far, that every completed turn delivered its fragment under its
grant (`Delivered`) and that the counters count since the last start (`Reading`).
A row within a turn, one that starts it and one that completes it each keep that
(`RowWithin`, `RowStarts`, `RowCompletes`), and an accepted history is whole
(`Accepted`). How many turns that are follows from the helper directories, one
for each turn (`HelpersCounted`).

`TurnsImplementDelivery`, `Spec => DeliverySpec`, is the refinement of
`PromptDelivery`. While rows are read, messages are of fragments up to the one
in progress and never of an earlier one than the message before
(`InSequence`); with each of them told once, the place of a message among the
messages is the number of its fragment (`InOrderTells`), so an accepted history
tells the first fragments, one for each turn (`Tells`). By division the
fragments follow each other without a gap up to the last character
(`FragmentsCover`). `DeliveryInv` carries this from turn to turn and says that a
success is only on its way when all of the fragments were told (`Concluded`).

What the abstract specification promises carries over: `TurnEveryCharacterTold`
is proved of `PromptDelivery` alone, whose successes have told every character
in exactly one message, and holds of the program by the refinement.
`TurnNeverReturns` is the variant of the runner: its places are numbered within
a turn (`Stage`), and there are at most three turns (`TurnsBounded`).
`TurnDeadlineStops` adds that with the margin left none of them holds the runner
while it has a process: the limits it waits for are never behind the deadline
less the margin (`WaitsFor`).

Assumptions: zero values are members of their sets and bounds are naturals
(`ZeroAssumption`, `BoundAssumption`), requests have the fields of their kind
(`RequestAssumption`), attempts that submit are attempts and the trusted
identities are identities (`AttemptAssumption`), placeholders are none of the
values (`WalletAssumption`, `ReaderAssumption`, `LinksAssumption`,
`RunAssumption`, `ReferenceAssumption`), a page has room, lists have no
repeated entries and an authentication asks something (`ReaderAssumption`), the
placeholder of the reviews is no run or revision (`ReviewAssumption`) and that of
the sessions no outcome (`ResultAssumption`). TLC evaluates all of them.

Only model-checked, because out of the prover's reach: liveness and `ENABLED`.
Of each such property a part that is safety is proved: what was decided stays
decided, and each step of a component leads towards its end. That a fair step is
possible until the end is reached, and so the conclusion, rests on the small
instances:

| Only checked | Proved of it |
|---|---|
| `CancellationSettles` | `AttemptVoidIsDecided`, `AttemptDecidesOnce` |
| `EventSettles` | `WalletVoidIsDecided`, `WalletDecidesOnce` |
| `ReadsSettle` | `ReaderNobodyStranded`, `ReaderNeverReturns` |
| `PendingSettles` | `PublicationEndsSettled`, `PublicationNeverReturns`, `PublicationMatrixRuns` |
| `ReviewEnds` | `TurnNeverReturns`, `TurnDeadlineStops` |
| `ReleaseEnds` | `ReleaseNeverReturns` |
| `OwnerCanAlwaysLeave` | `RegistryOwnersPass` |

Whatever else the runs check is proved.

## 6. Findings

`publication_revoke`. `scripts/review_ci.py:228`: "A failed publisher must
revoke any earlier green status for the same head." The branch calls
`set_status`, which starts with `require_current`, and that refuses once main
has moved. After a green first attempt main moves and somebody runs the publish
job (or one reviewer) again: the publisher fails, and the head, still that of
the open pull request, stays green.

Observations that are no findings; the properties say them in their exceptions:

- `matched` after `invalidatePendingIncoming` may be due to a cancellation by
  the same account elsewhere, so `MatchedIsOurs` leaves it out.
- Between `require_current` and a write the pull request may move, so one write
  about a superseded revision is possible (`OneLateWrite`). A run cancelled
  between setting the pending status and uploading its metadata leaves the
  status pending; `PendingSettles` starts after that upload.
- A signal between `Popen` and the assignment of its result, or in the finally
  block before both signals are ignored, can leave the devnet and its private
  files (`CleanupUnlessInterrupted`); `server.py:1` promises the cleanup without
  this exception. One in the finally block can leave both signals ignored, and
  one while the handlers are being installed can leave a handler whose
  predecessor was not stored (`HandlersReturn`, part of the same property).
- A source edited after it was looked at, and edited back before it is
  looked at again, is not seen: with three edits a record's source can differ
  from what was built (`RecordIsTruthful`).
- A setup killed between the symlink and the replacement leaves a temporary link
  that makes every later setup refuse; one killed between making and marking the
  compiler's directory, or while an environment is removed whose marker went
  first, leaves what later runs refuse as foreign (`RefusalExplained`), though
  `setup_reference.py:93` means interrupted builds to be replaceable.
- Two setups at once: the reference's may report an environment without
  packages, those of different versions may leave `npm` of one and `npx` of
  the other (`ReportedIsInstalled`). `installation.json` outlives a package that
  a killed reinstallation removed.
- A child that makes itself a session of its own survives the turn. The one
  process of a short prompt is killed without its children.
- `review_runtime.py:407` changes the record inside the block of the private
  directory: if the removal of that directory fails, the record says success
  while the log says the review is incomplete.
- Histories are validated again with more prompts after each turn; an
  earlier row that happens to equal a later fragment is then refused.

## 7. Not modelled

- Hashes, signature recovery, typed-data encoding, address formats and JSON:
  data that no property looks into; with them the constructor, which checks the
  chains and the label and stores the domain. That domains and statements keep deployments
  apart is a fact about hashes, which golden tests of the repository check.
- A batch of several requests: batches refuse a repeated address, so what a
  batch expects of one address involves no other one, and its calls are one
  transaction.
- `compareLinkedAddresses`, a filter of a finished listing. Pages with repeated
  entries inside one page: no list of the contract holds one.
- Deleted or edited comments, and people with write access to statuses.
- SIGKILL of the release or of the reviewer's own process, which nothing
  answers. A kill of a turn's group is taken to act at once, and one of the devnet
  within the five seconds of `server.wait`. Private directories
  below TMPDIR, where no aliases are looked for. Prompts of three fragments: the
  code allows them, the second turn already has all that the third has.
- Two first setups of the compiler that race for one `mkdir`: one step of
  `Claim`. A devnet that finds its port taken is assumed to exit at once.
- The lifecycle and consumer part of the integration run, and what a readback
  and an identity consist of. Sandbox settings, credentials and diagnostics of a
  review.
- The example consumer reads `is_associated` once and keeps an address; CI
  scope selection, coverage and resource checks, generators, repository checks
  and the reference oracle are one-shot comparisons or computations without
  state.
