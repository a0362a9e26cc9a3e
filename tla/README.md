# A formal model of the DHCP scope management API

TLA+ modules, TLC runs and TLAPS proofs about `src/`: a FastAPI service that
Crossplane's provider-http drives to create, read, update and delete scopes of a
Windows DHCP server, one PowerShell script at a time, over PSRP or locally.

## 1. The system

| Component | State | Operations | What is hard | What makes it correct |
| --- | --- | --- | --- | --- |
| Request handlers (`app/services/scope_service.py`) | none of its own; coroutines between awaits | `create_scope`, `get_scope`, `update_scope`, `delete_scope`, `list_scopes` | a write is a dozen scripts with no transaction; each can fail, time out, run twice, run late; the process may restart | a 200 carries what was asked; a 204 means gone; an interrupted write is repaired by the next; no half-done relationship |
| Per-scope locks (`app/utils/locks.py`) | a lock per scope | `lock` | released on every path; relationships, which scopes share, have none | one writer per scope; everyone waiting is served |
| State assembly (`app/services/ps_parsers.py`) and payload rules (`app/models/`) | none | `assemble_scope_state`, the validators | the rules for request bodies are applied to the observed state too, so a half-written scope may be unreadable | what was written reads back as asked |
| DHCP server and failover partner (external) | scopes, options, exclusions, relationships, the partner's copy | the DhcpServer cmdlets | refuses ranges that neither contain nor are contained in the present one | — |
| PowerShell executor (`app/services/ps_executor.py`) | a semaphore | `run_ps` | error kinds told apart by markers in the text | at most `POWERSHELL_MAX_CONCURRENCY` scripts |
| PSRP session pool (`app/services/psrp_pool.py`) | LIFO queue of parked sessions | checkout, run, checkin, discard, close | sessions die unnoticed; a timed-out script cannot be cancelled; closes run in the background; opens and closes fail | a session has one user; none is left behind untried; a script runs at most twice |
| Local transport (`app/services/ps_transport.py`) | a subprocess per script | `execute` | the process may exit, or its script take effect, as the timeout strikes | a script runs once, and never after its call |
| Environment guard and `/healthz` (`app/services/dhcp_service.py`) | a cached verdict under a lock | `validate_dhcp_environment` | cold start under load; negative caching; a probe of several checks between which the host may fail | one probe at a time; recovery without restart |
| Error translation (`app/exception_handlers.py`) | none | one handler per error | — | the status tells the client whether to create, retry or give up |
| Values validator (`scripts/validate_dhcp_values.py`) | none | CI checks of the values files | restates the API's rules, defaults and Helm's merge | passes what the API accepts, as the very payload the API makes of it |
| Changed-cluster selection (`scripts/validate_changed_clusters.py`) | none | which files a branch has validated | files are inherited; a branch adds, changes, deletes and moves, and git names only one end of a move | nothing a branch affects goes unvalidated |
| Crossplane's provider-http (external) | a managed resource per scope | GET, then POST, PUT or DELETE until what is read is what is wanted | gives up and sends again while the API is still at work; several resources share a relationship | what is wanted comes to be, and stays |

A write takes its scope's lock, reads the scope in one script, compares it with the
body, issues the cmdlets that differ, has the partner replicate, and reads the scope
again for its response. Every script passes the environment guard, the semaphore and
the transport. GET and the listing take no lock. Nothing is stored in the service:
the DHCP server is the only memory, so whatever a failed request leaves there is all
the next one has to go by.

`PROJECT.json` lists what can go wrong in the code under `hazards`, each at its
line, with the properties that watch it.

## 2. The modules

```
DhcpServer ── ScopeState ── ScopePlan ─┬─ ScopeService ─┬─ ScopeProperties ── MCScopes
    (external server)  (reading)  (cmdlets)  (handlers)  ├─ ScopeReads ── MCScopeReads
                                       │                 └─ Reconciler ── MCReconciler
                                       └─ Convergence ── MCConvergence
Transport ◁─(refinement)─┬─ PsrpPool ── PsrpPoolProperties ── MCPsrpPool
                         └─ LocalTransport
EnvGuard ── MCEnvGuard
PayloadRules ─┬─ WireForms ──┬─ ValuesRepo ── MCValuesRepo
              └─ ValuesRules ┘

ScopeServiceProofs ── ScopePropertiesProofs ── ScopeWritesProofs ── ScopeClientsProofs
PsrpPoolProofs      LocalTransportProofs      EnvGuardProofs      ValuesRepoProofs
```

**DhcpServer** is not code of this repository: it says what each cmdlet answers
and changes, as `scope_service.py` issues it and as its comments record Windows'
behaviour (the range rule, the removal of options, the error numbers). `Cmdlet`
is the set of command lines the service can issue and `Run` the server's answer
to one.

**ScopeState** is `assemble_scope_state`: `Assembled` is the payload read from a
scope, and `Reading` how the attempt ends: the scope is missing, has no DNS
servers (a conflict), breaks a rule of the pydantic model (an unhandled error),
or is read.

**ScopePlan** is the diff: the sequence of cmdlets a create, a converge or a delete
issues, each with the errors the call site tolerates (the policy flags of
`_run_ps`). A batch is a loop over a set of exclusions in any order; a lookup is
`_fetch_failover_by_name`, whose answer decides the cmdlet behind it. The plan is
computed once, from the state read under the lock, exactly as the code does.

**ScopeService** is the concurrent system. `queue` is `ScopeLockManager`, `pc` and
`todo` the coroutine of each request, `reply` its response. One action is one
script awaited, with what the coroutine does up to its next await; `Release` is
the end of `async with`. The faults are described at the head of the module, and
`Transport` says which of them the transport can produce: a script given up on, by
its caller or for its retry, may have run, or run later, whatever the request is
told of it (`LeaveBehind`). A scope starts absent or laid out as some payload asks.

**ScopeReads** puts the two scripts that read, for one scope and for all, among the
writes of `ScopeService`, one cmdlet at a time: `snapshot` is what a script has
gathered, `stage` and `left` where it has come to. History variables record which
scopes changed (`touched`) or were absent (`lost`) while it ran, and which writes
were at work (`writers`). `ScopeService` itself reads a scope in one step, under
the lock or without; `QuietScopesReadTrue` is what justifies that for a scope
nobody is writing, and says what GET of one that is being written is worth.

**Reconciler** is the client the service was made for, as README.md and
`docs/dhcp_values.md` describe it: a loop per managed resource that reads the scope
and sends the verb the answer calls for. A resource may lose patience (`GiveUp`)
and send again while the handler of its last request still runs.

**Convergence** does a whole write in one step and nobody else about, over many
more payloads: the moves from any payload to any other.

**PayloadRules** is `app/models` and the request dependency: what a body must
satisfy, what is filled in (the defaults of a failover) or derived for it (mask,
gateway, range), and the order of the two validations. Addresses are numbers and a mask is the size of its subnet, so the
rules are the code's arithmetic with `BlockSize` for 256. **WireForms** is the way
back: what the parsing makes of durations and failover relationships as the server
serialises them. **ValuesRules** is the second copy of these rules that CI keeps,
with the merge of the inheritance chain, and **ValuesRepo** the repository of
values files on which it acts: a branch writes and deletes files, `Passes` is the exit
code of `validate_changed_clusters.py`, and what passes is merged. `git diff
--name-only` lists a file that git takes for renamed by its new name only, and git
judges by likeness of contents, which the trees here do not have. So any file that a
branch deletes may be taken for one (`renamed`): the new name is one of the paths or
lies outside them.

**PsrpPool** is `PsrpTransport` behind the semaphore of `run_ps`: both ends of a
session (`idle`, `local`, `closing` on this side, `shells` on the server's), the
scripts that outlive the use of their session (`late`), and the single retry. The
server may drop a shell unasked, which this side sees as a run that fails; but a run
may fail on a live shell as well, a close that fails is swallowed, and an open may
fail once the shell is made. `shells` are those that the server may still hold, and
`strays` those of them that nobody here knows of any more: they end by the server's
idle timeout (`expire`), and a script on one may yet run.
`execute` goes from the semaphore to the worker thread in one action, since nothing
in between gives way; waiting for a dead session's close does, and is a state of
its own (`dead`, `broken`). **LocalTransport** is the other transport: a process
per call, killed and waited for when it takes too long. **Transport** is what
callers may assume of either.

**EnvGuard** is `validate_dhcp_environment`: the lock, the cache with its two
lifetimes, and the probe: one script over PSRP, or three checks in a row, between
which the host may fail.

Operators named `Wrong_…` stand before the definition they distort. They are no
part of the model: each is what a plausible slip would make of the code, and the
property named for it in `PROJECT.json` fails when it is put in place.

## 3. What is checked

Passing runs:

| Run | Instance | Shows |
| --- | --- | --- |
| `Writes` | 1 scope, 2 requests of any verb, 6 payloads, up to 2 faults of any kind but `late` (`Next`, which `LateNext` adds the scripts to that are given up and may run later) | writes exclude one another; without faults they never end in an error, answer with what was asked, leave no empty relationship, and the partner follows; with faults, a 200 still carries the scope as asked, a 204 still means gone, and no relationship lists a scope that is gone |
| `Convergence` | 4 ranges × gateways × boot options × exclusions × failover | every move ends in what was asked with no cmdlet refused; asking for what is held issues none; the pool stays between the two ranges |
| `Reconcile` | 2 resources, 1 relationship, 3 request slots, 1 fault that fails a step, makes a script late or restarts the API, or 1 loss of patience, fair | each resource comes to be what is wanted and stays so, while they join and leave the relationship; every request is answered |
| `Reads` | 1 read of a scope or of all, 2 scopes, 2 writes, 3 payloads | a scope nothing happens to is reported as it is; missing is said only of a scope that was missing; a write is not reported done before it is |
| `Values` | 2 sites, 1 MCE each, 2 clusters each, 2 edits, any deletion perhaps a rename, about 1,100 texts of one file | main stays valid though CI looks only at what a branch touches, if git sees no rename in it, and if it does, nothing goes wrong but for clusters that inherit from a renamed file; for the others, what passes CI the API accepts, as the same payload, and what was applied reads back unchanged; CI refuses nothing else |
| `Pool` | 3 callers, 2 slots, 3 sessions, fair | one user per session, no shell forgotten but by an open or a close that failed, order and size of the pool, every call answered, the refinement of `Transport` |
| `Guard` | 3 callers, TTL of 2 ticks, both transports, fair | one probe at a time, no refusal older than the TTL, no probe sooner, recovery, every call leaves the lock |

Runs that end in a violation, each a disagreement between the code and what the
repository says of it, quoted in `PROJECT.json`:

| Run | What TLC finds |
| --- | --- |
| `PartialCreate` | a create that dies after `Add-DhcpServerv4Scope` leaves a scope that no later request can read, repair or delete |
| `PartnerStale` | a replication that failed is never retried: the retry finds nothing changed and answers 200 |
| `Orphan` | a delete that failed after the detach leaves an empty relationship behind for good |
| `SharedPeer` | two resources that share a relationship are given a new mode: each leaves it, finds it kept by the other, and joins it again in its old mode, for ever |
| `RenamedParent` | a branch whose deletion of a parent `values.yaml` git takes for a rename passes, and no cluster below it is validated |

Other departures from the text the models reach, with no run of their own: a write
that dies between options 66 and 67, or between the range and the exclusion over the
gateway, ends like `PartialCreate`; GET answers 409 while a create is under way, and
a GET or listing that falls into a write may report a payload that never was the
scope's (README.md calls it "the current canonical state"); a listing fails as a
whole when a scope goes away while it is gathered; a script given up on may run
after its lock is released; a relationship found empty may be joined by another
scope before it is removed; a session being closed in the background counts against
no slot, and one whose close or open failed is not counted anywhere until the server's idle
timeout, so the server may hold more shells than `POWERSHELL_MAX_CONCURRENCY`
(the docstring of `PsrpTransport` has at most that many "ever live"); a session parked while a dead one is being closed is thrown away with the older ones
(`_discard_idle` says all are older); a probe that ends in a raw transport exception
is not cached; the guard's docstring calls a failure final, which it is not, and
`routers/health.py` calls the answer current, which a remembered success is not; a
lease of less than a day that comes as an object reads as eight days (the API itself
never asks for one). Of the values files: a cluster that inherits all of
`dhcp_values` is skipped by CI; CI insists on `dns.servers` where `dns.extraServers`
would do; two branches that each pass may break main together, since each is
compared with the main it started from.

**Bounds.** Two requests suffice for one to hold the lock while the other waits,
reads, or meets what the first left; three callers of the pool for two to use it
while one waits; three of the guard for one to probe, one to wait and one to
arrive. Two faults (`MaxFaults`) let both requests fail, or one fail twice; every
finding needs one at most. Six addresses let ranges widen, narrow, overlap and be
disjoint with a gateway and an exclusion on either side. `Reconcile` has two
resources, as many as it takes to share a relationship, and the first has two
request slots, so that it can send again; its starts are the three in which the
relationship is won and lost. Creation with a fault is not among them: it is
`PartialCreate`, from which nothing converges. `Reads` has two writes, so that one
may undo what the other did between two cmdlets of the script, and no faults: a
half-done write that stops looks to a read like one that goes on. In `Values`,
blocks of 8 addresses stand for 256 and masks of half and twice the size for the
others; one file takes every combination of its address fields, and separately of
its other fields, between the edges at which the rules change their answer; two
sites tell a target that is too narrow from one that is not. Ages in `PsrpPool` and
`EnvGuard` are told apart up to the limit (`MaxIdle`, `TTL`), which is all the code
asks. The pool has three sessions: two in use or parked, and one being closed or forgotten;
while more shells are held, an open waits for one to end.
`SYMMETRY` is used in safety runs only, over requests, which nothing orders.

**Deadlock.** The runs of `ScopeService`, and the reads among them, switch deadlock
checking off: each request is made once, and the system stops when all are
answered. So do `Reconcile`, where a resource that is gone as wanted stops polling,
and `Values`, where a branch is merged once. The other modules' clients come back,
and deadlock is checked.

**Fairness.** `Reconcile`: weak fairness of each request's handler, since `run_ps`
bounds every script with a timeout and the event loop runs every coroutine that is
ready, and of each resource's polling; nothing obliges a script given up on to run,
or a fault to happen. `Pool`: worker threads run, and what they wait for ends by the
WinRM timeouts; nothing obliges a background close to run or a forgotten shell to end. `Guard`: checks have a timeout, and time passes.

## 4. What is proved

For every value of the constants that meets their assumptions, with TLAPS:

- `ScopeServiceProofs`, of the plans: `RunType`, that a cmdlet takes a server to a
  server and answers one of the outcomes the service knows, by cases over the cmdlets.
  `RangeStepsAccepted` and `RangeStepsStayBetween` are what the docstring of
  `_range_transition_steps` argues, for all ranges; `PlanTypes`; and
  `NothingToDoIffEqual`: a converge issues no cmdlet exactly when what is held is what
  is desired, which is what makes repeated requests idle.

  Of the handlers: `TypeCorrect` and `MutualExclusion`, of `Spec` and of `LateSpec`.
  `OneWriterPerScope` is not inductive by itself: that a request is past
  the lock says nothing about the queue. The invariant adds that whoever is past the
  lock stands at the head of its scope's queue (`HolderHeadsQueue`), that a stage
  agrees with the request's verb (`StageMatchesRequest`), and the types (`DataType`,
  `ControlType`). Heads are unique, so two holders are one; only the holder's own
  answer, or a restart, takes a head away.
- `ScopePropertiesProofs`: `OkMeansAsAsked` (`ConfigIsRequest`), `GoneMeansGone`
  (`DeletedMeansGone`) and `NoGhostMembers` (`MembersExist`), of `Spec`, with every
  fault but scripts that run after they were given up: with those none of the three
  holds, since a script that runs after its lock was released can undo what another
  request was told. A property of
  the last step of a plan has to be carried back to the first, so the invariant `PInv`
  relates what the server holds to what the plan of the lock's holder has still to do:
  each field of the scope either is as the body asks or is set by a step ahead, and no
  step ahead sets it to anything else (`Towards`, field by field; of the range, that
  the last write is the one asked for); a delete has detached the scope from every
  relationship it found by the time it removes it (`Deleting`). Beside it, a scope is
  in one relationship at most (`OneRelationship`), without which a detach could miss
  one, and a member exists (`AllMembersExist`). One lemma per cmdlet shows that
  running it, once or twice, or failing before or after, keeps to that; one, that the
  steps of other scopes' requests disturb none of it. `OrphansComeOfFaults`
  (`OrphansTakeFaults`) holds of `LateSpec` too, from an invariant of its own (`OInv`):
  whoever leaves a relationship looks it up next, unless a fault intervenes, and an
  empty one is always about to be looked at or removed by somebody.
- `ScopeWritesProofs`: what `Spec` promises as long as nothing fails. No write ends in
  an error (`FaultlessSucceed`), the body of a 200 is what was asked for, failover
  included (`OkBodyIsRequest`), and it is given only once the partner has the scope as
  it is (`PartnerToldFirst`). They hold for any number of scopes and of requests at
  once, under one condition: no two scopes share a relationship. `owner` says whose each
  relationship is; `MembersOwn(server, owner)` that it lists nobody else to begin with,
  and `[]RequestsOwn(owner)` that no request for another scope names it. The condition is
  needed: nothing holds a lock on a relationship, so of two scopes that share one, the
  first may look it up, find it there, and be refused when it joins, because the second
  has left it and removed it meanwhile; and either may change the other's mode. (`Writes` with
  two scopes that share a relationship, and no faults, violates each of the three.) With
  one scope it is no condition, and `AloneAllSucceed` has the three without it.

  The invariant is `FInv`. None of the three is inductive, since they are about answers
  and what matters is why the next cmdlet is not refused. `WriteFits` says that the steps
  a create or converge has still to take fit the server as it is: no exclusion is added
  that is there, none removed that is not, but where the step tolerates it; each range
  contains or is contained in the one before it, the first of them and the one held; the
  relationship to be left is the scope's own, and the one a lookup did not find is still
  not there (of a scope's own relationships, those it is not in do not exist); each part
  of the scope is as asked or set by a step ahead, and after the last change comes a
  replication (`Follows`). `DeleteFits` says the same of a delete. Between writes a
  scope is `Rested`: absent or readable, known to its partner as it is, listed
  by its relationships. The plan made from a rested scope fits (`ConvergeStarts`,
  `CreateStarts`, `DeleteStarts`), each step of it leaves the rest fitting
  (`StepFits`), the steps of other scopes' writes disturb neither (`WriteFitsSame`, where
  the condition is used), and a plan that is through leaves its scope rested. The order
  of the steps enters too (`InOrder`): a cmdlet may only break what no later step needs.

  The module begins with what holds whatever fails, that no step of a plan undoes what is
  as it was asked for already (`Minds`); `EarlySuccessIsTrue` below rests on it.
- `ScopeClientsProofs`, of `ScopeReads`: `ReadsTypeCorrect`, `QuietScopesAreReadTrue` and
  `MissingScopesWereMissing`, for any number of scopes and of writes beside the read,
  each with every fault but a late script. The invariant `ReadsInv` says what a script
  knows in the middle of its work: of a scope nothing has happened to since it began,
  exactly the fields its cmdlets have shown so far (`QuietScopesKnown`); what it does not find
  is on record as lost (`AbsencesLost`); and how the scopes left fit its stage
  (`Progress`).

  `EarlySuccessIsTrue` (`NoEarlySuccess`) is about the plan of the write as well: a
  script sees each field at another moment, so that what it reports may be a state the
  scope was never in. It is still right when it is what the only writer asks for,
  because no step of a plan undoes what is as it was asked for already. `Towards` says
  so of most fields; `Minds` adds the range (a plan widens it first, but not one that
  is as asked) and the relationship (the one that is joined or tuned is the one asked
  for, none is left after another was joined, and the one asked for is never left),
  and that every plan minds, at its start (`ConvergeMinds`, `CreateMinds`) and after
  each step of its own or of another's (`MindsAdvances`, `MindsElsewhere`).
  A cmdlet of such a plan, run once, twice or not at all, keeps each field that is as
  asked (`TookKept`). So what a script has seen of the scope, and was as the only
  writer asks, is so still (`SoFar`), field by field as the fields are seen, and at
  the answer that is all of them.

  Of `Reconciler`: `ReconcilerTypes` (`ReconcilerTypeOK`), and `ResendingExcludes`, that
  `OneWriterPerScope` holds of `ReconcilerSpec` as well. Its clients do what those of
  `Spec` do not: they use the slot of an answered request again, and send while a handler
  they gave up on is at work. The invariant is that of the handlers with the types of the
  loop (`ClientInv`); one lemma (`RequestArrives`) serves the arrival of either client's
  requests.
- `ValuesRepoProofs`, for any sites, MCEs, clusters, texts, block size and number of
  edits, and any choice of the deletions that git takes for renames: `MainIsAlwaysValid`
  (`MainStaysValid`), that main is valid as a whole unless the merged branch had a
  rename; `OnlyMovesAreMissed` (`OnlyMovesSlip`), that even then no cluster is invalid
  but one that inherits from a renamed file; and `InheritorsAreValidated`, which says of a
  branch without a rename what `RenamedParent` refutes of one with. The invariant is
  `Sound`: main keeps both promises, and what git takes for renamed is gone from head.
  Main stays valid because the targets of the changed files cover every cluster whose
  chain of files a branch can have altered (`PassingBranchIsValid`); and the file of a
  cluster that is still there is itself no renamed one, so that with a rename only its
  parents can be hidden.
  `WhatPassesApplies` (`AppliesAsValidated`), `CiRefusesNothingElse`
  (`RefusesNothingElse`) and `AppliedReadsBack` (`ReadsBackUnchanged`) rest on the
  agreement of the two copies of the rules, rule by rule and then as a whole
  (`RulesAgree`), for well-typed trees (`RepoInv`).
- `PsrpPoolProofs`: every safety property of the pool, `TypeOK`, `NoSharedSession`,
  `NothingStranded`, `OldestFirst` and `PoolWithinLimit`, and that the pool
  implements `Transport`. The invariant `PoolInv` adds, to make these inductive:
  calls queued at the semaphore wait there, once each (`Queued`); a call has a
  session exactly in the stages that use one (`Holds`); a session that is parked, held,
  about to be closed or forgotten may have a shell still (`Backed`), without which a
  newly opened one could be one already in use, and each shell has such a place
  (`Placed`); the sessions about to be closed are none of the forgotten (`Apart`); how
  often a script has run, and may run yet, by each stage (`Runs`), which bounds the
  retry; a script given up is on a session given up (`LateAlone`); and parked sessions
  with the calls under way fit the slots (`Room`), which is stronger than
  `PoolWithinLimit`: a call that is between two sessions counts already. One lemma per
  conjunct, by cases over the steps; `StepKinds` first sets aside those that move no
  session. The refinement maps each step to one of `Transport` or to a stutter
  (`StepsMap`).
- `EnvGuardProofs`: `TypeCorrect`, `OneProbe`, `FreshRefusals` and `ProbesBackOff`,
  for any number of callers and any TTL. The invariant `GuardInv`: pending callers
  queue at the lock once each (`Queued`), and whoever probes is the head of that
  queue (`ProberHeadsQueue`), which gives one probe; what is left of the TTL and the
  age of the failure add up to the TTL while a failure is cached (`Clock`), which
  gives both the freshness of a refusal and the back-off.
- `LocalTransportProofs`: `NoLateScript`, that no process outlives its call, and
  `LocalImplementsTransport`. A process is alive only while its call is
  communicating or has just timed out; the two ways out of the timeout, killed or
  already exited, both end it.

The assumptions the proofs rest on are named in the modules that declare the
constants, and TLC evaluates each: `None` is none of the values it stands beside
(`AbsentIsNoValue`, `ServiceAssumption`, `ReadsAssumption`), numbers are natural, every
scope has a resource that starts and ends with a payload or none
(`ReconcilerAssumption`), and the texts from which files are made are well-typed
(`TextAssumption`, `RepoAssumption`).

Model-checked only:

- `Convergence`: its plans are folded over sequences, and what a fold computes for every
  sequence needs induction over data, which the provers here cannot instantiate. What its
  run shows of a write performed in one step, `FaultlessSucceed` and `OkBodyIsRequest`
  prove of the same plans performed cmdlet by cmdlet.
- The liveness of `Reconciler`, which is its point, and every other liveness property:
  ENABLED and fairness are beyond the proof system.

Proved only: the local transport.

## 5. What is left out

- Name, lease and description are one value in `ScopeState` and the modules above
  it, as are DNS servers and domain, and peer, mode and role: each group is written
  by one cmdlet and compared as one. `PayloadRules` and its users have the fields
  apart, but for description and DNS domain, which no rule relates to anything.
  `None` and `Null` stand for every empty form.
- Values of a wrong type, which both copies of the rules refuse field by field;
  masks that are no prefix, which both refuse (or, for a host mask, both accept).
- What the chart renders lies in another repository: `Rendered` takes from it the
  names it fills in and the lists it joins, as the comments of the script describe
  them.
- A directory of the values repository that only a `.gitkeep` keeps alive: deleting
  it is a change that selects nothing.
- The guard's 503 is not among the outcomes of `ScopeService`: it precedes a script
  and has no effect on the server, like `failed`.
- `Transport` lets a script be run again and then fail; `ScopeService` has the rerun
  end in the second answer, since further faults are bounded in any case.
- `aclose` and the change of event loop, authentication, logging, quoting and the test
  environment: shutdown, wiring and pure text.

## 6. The plan

Done: DhcpServer, ScopeState, ScopePlan, ScopeService, Convergence, Transport,
PsrpPool, EnvGuard, and then Reconciler, ScopeReads, PayloadRules with WireForms,
ValuesRules, ValuesRepo, and LocalTransport.

Proved since: the safety of each of them, but for `Convergence` (section 4).

What would come next: the properties of section 4 that ask for no late script, with late
scripts whose scope nobody else writes meanwhile; and what two scopes that share a
relationship and agree on its settings can still rely on.
