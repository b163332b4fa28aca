# Verification of dcc-mcp-gimp

TLA+ models of the GIMP adapter, checked with TLC. Every safety property that a
passing run checks is also proved with TLAPS for all values of the constants; liveness is
model-checked. The reference is the code under `src/`; line numbers below are the
ones of this commit.

## The system

`dcc-mcp-gimp` lets an MCP client drive GIMP 3. It has two halves that run at
different times.

```
 MCP client -> MCP server -> skill script -> GimpBridge.call           (bridge.py)
                                                | one TCP connection per call
                                                v
        _Server thread -> _Handler thread -> _dispatch                 (GIMP process,
                                                | GLib.idle_add          dcc_mcp_gimp.py)
                                                v
                           GLib main thread: run_on_main -> GIMP

 dcc-mcp-gimp install|upgrade|uninstall|verify|status                  (install*.py)
        plan -> replace tree and receipt -> verify -> commit | rollback
        over the GIMP profile and ~/.dcc-mcp/receipts/gimp.json
```

### Inventory

| component | state it keeps | operations | what is hard | what makes it correct |
|---|---|---|---|---|
| bridge request path (`_Server`, `_Handler`, `_dispatch`) | two semaphores, one `_PendingCommand` per request, the idle sources of GLib | accept, read, post, wait, cancel, run, answer | server, handler and main threads interleave; timeouts race the start and the end of a command; the host may end at any time | a command runs at most once, what the caller hears is true, nothing lent is lost |
| bridge client (`GimpBridge`) | none between calls | `call` | its timeout is not the one of the bridge | every call ends; a lost connection is never taken for a refusal |
| install and upgrade | the profile tree, the receipt, private stage, backup, failed and recovery trees | `plan`, `_begin_replace_plugin`, `commit`, `rollback` | a dozen file operations, each of which may fail; several installers; kills; stale plans | one failed operation leaves what was there; the last copy is kept; one winner |
| uninstall | the same, a quarantine and a recovery copy | `_execute_uninstall` | the same | receipt and tree go together or stay together |
| receipt file | the receipt and private tombstones | replace, move, unlink by identity | a file is moved away before the new one is linked | the old or the new receipt has the name, foreign files are kept |
| tree renames (`_replace_path_owned`) | a tombstone | rename without replacing, bound to an identity | the source or the destination is swapped meanwhile | a foreign tree is neither promoted nor lost |
| verification (`verify_install`) | none | probes of artifact, import, identity, readiness | what was read is stale when it is used | usable means all of it was true of one GIMP |
| `paint_shape` | GIMP's selection, a saved channel, the context stack | save, push, select, fill, restore | each GIMP call may fail; cleanup may fail too | selection and context are as before, or the report names the channel that holds them |
| `export_preview` | a private directory, the published file, a duplicate image, a pushed context | stage, duplicate, save, clean up, publish | a cleanup that fails after a failure; an artist who edits the source; a destination that appears | the file or nothing, GIMP as it was found, or a report that says what is left |
| image commands | GIMP's images and layers, the displays the adapter owns | create, open, import, place, remove, flatten, save, export, close | a later call fails on what was just created; the artist edits and closes the same images | the adapter closes what it owns and nothing else, and no unsaved work without consent |
| bridge token | `gimp-bridge-token` | create or read | several GIMP processes; a kill before the write | everybody uses the same token |
| bootstrap log | the log and its rotations | append, rotate | several processes append and rotate | bounded, and the last error is readable |
| MCP server and skills | the running server | start, stop | in `dcc_mcp_core` | - |
| host probing, Windows handles, tooling | - | - | platform calls | - |

The last two rows are not modelled: the first belongs to a library outside the
repository, the second are inputs of the other parts (probe results), a second
implementation of the same contract (Windows), or static checks.

## Modules

| module | what it is |
|---|---|
| `HostCall` | abstract specification: what the bridge promises about a call |
| `BridgeDispatch` | the request path of the plug-in with its callers; implements `HostCall` |
| `InstallTransaction` | install and upgrade by any number of installers |
| `UninstallTransaction` | extends `InstallTransaction` by uninstallers of the same profile |
| `PaintShape` | the command `paint_shape`, called repeatedly |
| `ImageStore` | GIMP's images and layers, and the displays the adapter owns |
| `ImageCommands` | the commands that change images, call by call, over `ImageStore` |
| `ExportPreview` | `export_preview` among the commands of `ImageCommands` |
| `BootstrapLog` | the log of failed starts, written by several GIMP processes |
| `PluginStart` | the start of the bridge: token file and port, over `BootstrapLog` |

Each of `BridgeDispatch`, `InstallTransaction`, `UninstallTransaction`,
`PaintShape`, `ImageCommands`, `ExportPreview` and `PluginStart` has an instance
for TLC in a module named `MC...` (the one of `ImageCommands` is run by
`delete_group`, on `CommandSpec`, the commands without previews). The theorems
about a module `M` are in `M_proofs`.

Operators introduced as "Mutant of X" are X with one plausible bug. They are
not part of any specification; substituting one for X shows that the property
named for it can fail.

### BridgeDispatch

A request is one connection and at most one command, as in `GimpBridge.call`.
The variables are the ones of the code: `connFree` and `pendingFree` are the
two `BoundedSemaphore`s, `started`, `cancelled`, `completed` and `result` the
fields of `_PendingCommand`, `idle` the sources queued by `GLib.idle_add`,
`handler[r]` the place of the thread that serves `r`. `client[r]` is the call
as its caller sees it, and `runs[r]` counts how often the host began it.

Each action is one atomic step of one thread. The two sections that hold
`_PendingCommand.lock` (2157-2160 and 2175-2180) are one action each; everything
between them may interleave, in particular `completed.wait` returning False
(`WaitTimesOut`) and the section that follows it (`Cancel`, `ReportUnknown`),
and `completed.set()` and the release of the slot (`MainComplete`,
`MainRelease`). A timeout is a choice that is open while the command is
unfinished, so every order of the timeout and the command is covered. GLib
dispatches idle sources of one priority in order, one at a time.

What a command does to GIMP is one step, `MainExecute`, that returns or raises.
Tokens, sizes and parameters are abstracted to four kinds of request: a command,
a command whose `timeout_secs` is out of bounds, a request that is refused before
dispatch, and a connection on which no complete line arrives. The end of the
host process drops its threads, queue and semaphores at once.

`HostCall` says what a caller may rely on: the host begins a command at most
once and one command at a time, "done" is heard after the command ended,
"refused" means that it never will run, and anything else promises nothing.
`ImplementsHostCall` maps `runs`, `result` and `response` to the phases of
`HostCall`, and the end of the call to its outcome.

### InstallTransaction

The disk is the plug-in directory (`target`), the receipt, and four private
trees per installer, whose names carry a uuid. A tree has a content and an
identity: `by` tells an original from a copy, which has the same bytes and
another inode. Each installer runs `plan` in two reads, checks its plan again,
stages, moves the target aside, publishes the stage, replaces the receipt,
validates, verifies, and commits or rolls back, one file operation at a time.
A receipt is replaced under a lock of its directory, so that the comparison
with the planned identity and the replacement are one step for other writers;
readers take no lock and may find no receipt meanwhile (`Readable`). Renames do
not replace an occupant. What `verify_install` finds is a choice among usable,
not ready (possible only if the artifact is this installer's) and failed.

Failures are of three sorts, each bounded by a constant. `MaxFaults`: an
operation fails and leaves the disk alone, except the removal of a backup, which
may leave it damaged. `MaxCrashes`: an installer is killed, perhaps while the
receipt has no name. `MaxInterrupts`: a rename or a receipt write is done and
the step fails before the attribute that records it is set, because of Ctrl-C or
because the re-check of the root after the rename fails.

`outcome` is how an installer ended, and `Told` what its user hears of it. The two
differ when a rollback fails. `run` rolls back with its verdict in hand and adds
that the rollback failed (install.py 152-171, 191-195, 211-215): the outcome is
`stranded`. `_begin_replace_plugin` (install_files.py 4384-4387) and
`_rollback_preserving`, for `commit` (4055-4059), raise the failure they roll back
for and drop the second one: the outcome is `swallowed`, and the user hears
`failed`, as after a rollback that succeeded. In `Stranded` the two cases are told
apart by whether the verdict was already there when the rollback began.

Not in this module: foreign processes other than installers, the steps inside a
single rename or receipt write, and several profiles. Uninstallers join in
`UninstallTransaction`.

### UninstallTransaction

`uninstall --yes` beside installers on one profile. `at[r]` is where a remover
is, `answer[r]` what its user is told, and `job[r]` what it has: the planned tree
and receipt, the captured tree (`held`, the bytes in memory), the private copy
(`snapshot`), and what it moved into its private quarantine (`box`,
`boxedPaper`). The actions follow `_execute_uninstall` and, after any failure,
`_restore_owned_bytes`, one file operation at a time: capture, copy, move the
tree and then the receipt into the quarantine, record, check, remove; and back:
remove what stands at the target if it is the captured tree, rebuild it from
memory, write the receipt, validate.

The module extends `InstallTransaction`, so that installers and removers meet at
`target` and `receipt` in every order, and `Locked` gives the lock of the
receipt's directory to either side: the installer's receipt steps are taken only
while no remover holds it. The bounds on failures, kills and unrecorded moves
count for all processes together. An unrecorded move is one whose re-check fails
after the rename.

### PaintShape

`BridgeDispatch` takes a command for one step; `PaintShape` opens the one command
that borrows state of the artist. Each action is one call into GIMP (the four
settings of `Configure` and the two of `MakeExact` are evaluated together in the
code and are one action each), and each has an alternative in which it fails,
be it by returning false or by raising. A failed call has no effect, with three
exceptions that the code itself allows for: some of several settings may be
made, a failed fill may have painted, a failed restoration may leave any
selection. `told` collects what the error message is composed of; an empty
`told` leads to `Flush` and the result. `original` and `start` are history
variables that the actions never read.

Calls follow each other on the same image, so that a call may begin with the
selection, the extra channel or the extra context that a failed one left. The
model assumes that nobody else changes the selection during a call, and that an
artist who wants a retained mask back does so outside of the instance.

### ImageStore, ImageCommands, ExportPreview

`ImageStore` is the part of GIMP that the commands touch, modelled from how they
use it: images that are open, dirty and shown, layers with their place in the
tree, and `owned`, the adapter's table of displays. `ImageCommands` runs one
command of `_execute_command` at a time, as the main thread does, and takes one
call into GIMP per step. Each call may fail by returning false or by raising,
which the code treats alike in some places and differently in others; the helpers
`Refuse` and `Abandon` stand for the two ways out. Between two calls the artist
may change an image, close it, or undo: the plug-in is a process of its own, and
GIMP's windows go on working while a command runs. `told`
collects what the answer says. `alter` stands for the four commands that set
something on a layer and have nothing to undo; commands that only read are left
out, and so are names, colours and coordinates.

`ExportPreview` opens the one command with cleanup obligations of its own:
fingerprint, private staging directory, pushed context, duplicate image, save,
cleanup, second fingerprint, publication by link or by replacement. Another
program may create the destination at any time. `drift` says whether the source
differs from the first fingerprint, `picture` whether it did when it was
duplicated, so that a change which the artist undoes is not lost to the model;
`swings`, `start` and `excused` are history variables that no action reads.
Modelled on POSIX. The layers of the duplicate and a swap of the directories
that the code holds open are left out.

### BootstrapLog, PluginStart

`PluginStart` is `_run_bridge` in every GIMP process of one user: the token file
is created exclusively or read (with retries while it is short), the port is
bound, the process serves, quits or is killed. A start that fails goes through
`BootstrapLog`: `_capture_bootstrap_error` looks at the log, appends to the file
it looked at, or rotates it by staging, moving aside, linking and checking, and
undoes that on failure. Files are told apart by the process that made them, and
records have one size. `work[p]` holds the local variables of a capture. `alone`
and `earlier` are history: they mark a capture that no other overlapped, and what
it found.

Left out: the Windows branch, an inode number that is used again, the link
checks, an interrupt between two statements, a token given by the environment,
and the reader of the log in `install_host.py`.

## Runs

| run | instance | what it shows |
|---|---|---|
| `bridge_queue` | 3 commands, 2 connections, 1 slot, no stops | types, slot accounting, truth of responses, justified waits, no late start |
| `bridge_faults` | 2 requests of all four kinds, 1 connection, 1 slot, 1 stop, fair threads | refinement of `HostCall`, connection accounting, liveness |
| `bridge_timeout_bound` | 2 requests | violation: a request with a rejected timeout runs |
| `install_pair` | 2 installers, 2 faults, 1 kill, 1 unrecorded change, five starting profiles | types, one failure restores, acknowledged installs stay, one winner, last copy kept |
| `install_interrupted` | 1 installer, 1 unrecorded change | violation: a reported rollback that destroys the previous plug-in |
| `install_swallowed` | 1 installer, 2 faults | violation: an ordinary failure is reported and nothing is restored |
| `install_repair` | 1 installer | violation: `install --yes` refuses what the manual sends to it |
| `uninstall` | 1 installer, 2 removers, one failure, kill or unrecorded move in all | types, failed removals restore, captured bytes survive, foreign trees are only moved, no receipt vouches for what was removed, an acknowledged removal is final |
| `paint_calls` | 3 calls, every GIMP call may fail | types, no mask lost, true reports on selection, pixels and context |
| `image_commands` | 3 commands of any kind, 2 images, 3 layers, a limit of 2 nodes, 2 changes by the artist; every GIMP call may fail | types, owned displays, undone creations, consent to close; for previews: true reports, nothing replaced unasked, cleanup before publication, a picture of the source |
| `delete_group` | 3 commands, 1 image, 2 layers, no changes by the artist | violation: `delete_layer` takes the last layers of an image with their group |
| `startup` | 2 processes, a log of 3 records of which 2 are kept, 2 tries, 2 failures, 1 kill, fair processes | types, log bound, atomic capture, shared token, every start ends |

**Bounds.** Three commands with one slot and two connections are the smallest
case in which one command runs, one waits in a handler and one is refused, and
in which a cancelled command is still queued while its slot is wanted. One
connection and one slot make every leak visible as a stuck instance. The
theorems below remove these bounds. Two installers with two faults reach every
pair of a failure and a failing rollback; with a third one two losers may restore
into each other's way, which the theorems cover (three without failures were also
explored). Three calls of
`paint_shape` let a third one begin after two failed ones; the theorems cover
any number. Two removers and an installer are the smallest profile in which a
remover rebuilds a tree that another process has meanwhile replaced or removed;
`OneFailure` limits the failures of all three to one, because the restoration is
what the first failure starts. The properties of `uninstall` were also explored
with one remover, one installer, two failures, a kill and an unrecorded move, and
with one remover and two installers that do not fail. In `image_commands` three
commands suffice to create, save and close with a fourth party, the artist,
changing an image twice (a change and its undo); a limit of two nodes with three
layers lets a command go past the limit. `startup` has a log that is full after
three records, so that appending, rotating and a rotation under another's append
occur; with three processes the invariants were explored without liveness.

**Deadlock.** `CHECK_DEADLOCK FALSE` is set because every instance ends: when all
calls or installers are done nothing is left to do.

**Fairness.** `ThreadFairness` is weak fairness of the server thread and of every
handler thread: the operating system schedules them, and each of their waits is
bounded by a socket timeout (2195) or by `completed.wait(timeout)` (2174). Nothing
is assumed of callers or of the GIMP main thread; `LoopFairness`, that the main
loop goes on, is a hypothesis of `SlotsComeBack` only. `SlotsComeBack` and
`ConnectionsComeBack` say that what is lent is free for good in the end, which
is meaningful because an instance makes finitely many calls. In `PluginStart`,
`Fairness` is weak fairness of each process's `StartStep`: the operating system
runs every process, and no step of a start waits for another process (the retries
on a short token file are counted). Nobody has to quit or be killed.

## What the checks say of the code

* The race of the timeout with the start of a command is decided by
  `_PendingCommand.lock` and nothing else; without the flag or the check
  (`CancelForgotten`, `MainBeginAnyway`) answers are false.
* A request whose `timeout_secs` is out of bounds is queued first (2170) and
  refused afterwards (2174). It runs, and nobody hears of its result.
* Installers are serialised by the receipt alone. Of those that planned on one
  receipt one succeeds (`OneWinner`), and the last copy of an installed plug-in
  survives every failure and kill (`LastCopyKept`). But losers publish into gaps
  that others left: three installers without any fault can leave an
  acknowledged installation in a private backup, with rollbacks that are
  reported as failed, and two can leave a tree without a receipt while both
  report a restored failure. `AcknowledgedStays` therefore has two parts. Always,
  whatever failed and whoever was killed, a plug-in whose transaction was closed is
  on disk. And when all are through, one is in place with its receipt, provided
  that nobody was killed and no rollback failed. `RollbackFailed` counts every
  failed rollback, also the ones that were not reported.
* A failed rollback is not always reported. The manual promises that the previous
  plug-in and receipt are restored if the replacement fails, and `FailureRestores`
  takes it at its word for every run that is told to have merely failed; the
  finding is that a second failure, in a rollback that began inside
  `_begin_replace_plugin` or `commit`, breaks it silently. `OneFailureRestores` is
  what does hold: after one failure the report is true, wherever it was; after
  several it is true unless the rollback's failure was dropped, and then the
  previous tree is still in the profile.
* Recording a rename after it is done (`previous_moved`) is not enough: see the
  finding on `RollbackRestores`.
* `paint_shape` keeps every mask under any pattern of failures: the selection is
  restored or a channel holds it, and the report says which. The one thing a
  report may leave out is the name of a channel whose removal raised (1769)
  rather than returned false.
* A rollback that fails in turn leaves a `partial` or `repair` profile, and no
  command accepts one.
* After a failed removal the restoration removes what stands at the target,
  intact or not, before it rebuilds the tree from memory (install_files.py
  4493-4506). An installer may publish into that gap; the rebuilding then fails
  and the captured bytes end with the process. An installer that puts back a tree
  it moved aside, without ever publishing, may offer it to a remover that has gone
  on: with three installers and three removers a single kill then loses the bytes.
  `Undisturbed` excludes both gaps, and `CapturedBytesSurvive` holds otherwise.
* An installer that moved a tree aside before it was removed brings it back when
  it gives up after the removal was acknowledged. One that published into the place
  of the removed tree, got no receipt for it and fails to roll back leaves its tree
  beside the acknowledged removal, and may report an ordinary failure.
  `RemovalIsFinal` includes that case and names it: what was removed is not back,
  and tree and receipt are gone or belong to each other, or the tree is that
  publication and there is no receipt. Outside its premise are kills and unrecorded
  changes, a remover that could not restore, an installer that moved a tree aside
  and gives up, and one that had written its receipt and failed to roll back.
  `RemovedIsForgotten` holds in all of these.
* A receipt that was moved into the quarantine without being recorded makes the restoration refuse: the remover
  owns up to it, and the private snapshot stays.
* `delete_layer` counts nodes, not what remains: deleting the only top-level group
  empties the image (the finding on `DeletionLeavesALayer`).
* Groups and texts are undone when their creation fails; `create_layer`,
  `create_image` and `import_layer` leave the layer or the image after some
  failures, and `export_layer` ignores whether its isolated image was deleted.
* `save_image` marks the image clean before it looks at the written file;
  `ClosedWithConsent` names the cases in which unsaved work may go for that reason.
  `save_image`, `export_image` and `export_layer` check the destination and let
  GIMP write later, so that a file which appears meanwhile is overwritten;
  `export_preview` closes this gap.
* `export_preview` compares the source before and after: an artist who changes
  the image before the duplication and undoes the change afterwards goes unnoticed.
  `PictureIsOfTheSource` excludes that case and holds otherwise.
* A kill between creating and writing the token file leaves it short for good:
  every later start ends, but fails, until somebody removes the file.
* The log of failed starts may pass its limit by one record per other process,
  and a failed append cuts the file back to the size it had, with the records that
  others appended meanwhile. A capture that no other overlaps loses nothing.

## Proofs

`BridgeDispatch_proofs` proves, for every finite set of requests and all limits:

| theorem | statement |
|---|---|
| `TypeCorrect` | `Spec => []TypeOK` |
| `StagesInOrder` | `Spec => []Stages` |
| `StagesHold` | `Spec => []IInv`, with `IInv == TypeOK /\ Stages` |
| `ResponsesAreTrue` | `Spec => []ResponseIsTrue` |
| `WaitsAreJustified` | `Spec => []WaitIsJustified` |
| `BoundsHold` | `Spec => [](SlotsAccounted /\ ConnectionsAccounted)` |
| `ConnectionsHold` | `Spec => []ConnectionsAccounted` |
| `NoStartsAfterAnswers` | `Spec => NoLateStart` |
| `BridgeImplementsHostCall` | `Spec => ImplementsHostCall` |

The argument. None of the properties is inductive. `Stages` adds what relates
the threads: a request is in at most one place of the backlog and of the idle
queue (`Admission`, `IsInjective`), a command has left no trace before it is
posted and is somewhere while it is watched (`Watch`), the flags agree with the
place of the main thread (`Execution`), and each answer is backed by a flag that
never changes again (`Evidence`). `TypeOK` alone is not inductive because the
semaphores are naturals only as long as a slot that is given back was taken.
The step proof goes by client, server, handler, main thread and host; queues
need three facts about the range of `Append` and `Tail`, proved from the
definition of injectivity. Accounting follows from one lemma: when a set of
holders gains or loses one member and the counter moves the other way, the sum
stays (`UnitMoved`). Refinement is proved step by step under `IInv`, where most
actions stutter. The proofs assume `RequestsAssumption`, `KindsAssumption` and
`LimitsAssumption`, which TLC evaluates in every run.

`PaintShape_proofs` proves, for any number of calls:

| theorem | statement |
|---|---|
| `CustodyHolds` | `Spec => []IInv` |
| `PaintTypeCorrect` | `Spec => []TypeOK` |
| `NoMaskIsLost` | `Spec => []EveryMaskKept` |
| `ReportsAreTrue` | `Spec => [](SelectionIsReported /\ PaintIsReported)` |
| `PaintReportsAreTrue` | `Spec => []PaintIsReported` |
| `ContextsAreKept` | `Spec => []ContextIsKept` |

`EveryMaskKept` alone is not inductive: it does not say that the channel which
`RemoveSaved` removes is no longer needed. `Custody` says at each point where the
mask of the current call is and which errors there can be; `Earlier` reduces the
masks of earlier calls to this one or to channels that later calls do not touch;
`Stack` bounds the stack from below, without which `PopContext` could empty it;
`Exactness` is the reason why a restoration is exact. The assumptions are
`BoundAssumption` and `MasksAssumption`.

`InstallTransaction_proofs` proves, for any number of installers, failures, kills
and unrecorded changes:

| theorem | statement |
|---|---|
| `InstallTypeCorrect` | `Spec => []TypeOK` |
| `OneWinnerHolds` | `Spec => []OneWinner` |
| `AcknowledgedHolds` | `Spec => []AcknowledgedStays` |
| `LastCopyHolds` | `Spec => LastCopyKept` |
| `RestoresWhenAlone` | `Spec => []OneFailureRestores` |

`OneWinner` follows from `Receipts`: no receipt is written twice, because a
receipt names its writer and the writer is past the point of writing (`Stems`),
and the receipt is never one on which an installer that counts (`Live`) had
planned. `LastCopyKept` is about a step, and needs an invariant that says where a
content is safe: in the profile, staged, parked, or kept by an installer that is
not about to remove what it keeps (`Safe`, `Kept`). That in turn needs what an
installer keeps at each of its points (`Privates`), that a tree no receipt vouches
for is never moved (`BrokenStays`), and that a backup which was moved aside is the
only one of its content until it is copied (`Lineage`): otherwise an installer
that withdraws its stage could take a last copy of somebody else. Their
conjunction with `TypeOK` is `IInv`. Every step is first classified by what it
does to the trees (`Pace`, `Withdraw`, `Discard`, `Carries`, lemma `Effects`), so
that each part of the invariant is proved over four kinds instead of forty
actions. `RestoresWhenAlone` rests on `Solos`, a description of tree and receipt
at each point of an installer that started alone, and of where the
previous tree is when a second operation has failed.

`AcknowledgedStays` has an invariant for each part. For what is always on disk it
is `Lasting`: who closed its transaction never rolls back, who is acknowledged has
closed it, and one of the closed plug-ins is `Firm`, in place or kept by an
installer that is not about to remove what it keeps. A tree stops being firm only
when another transaction closes, whose own tree is then in place (`FirmStep`). For
the end, when all are through, `Overlap` follows receipts and trees. The receipt names an installer, or whoever replaced it may yet put that one
back (`Claim`). As long as nobody was killed and no rollback failed (`Calm`), the
tree of a settled installer with a claim is under the name, or kept by one that
will put it back unless the receipt can come back to nobody else (`Backed`); who
gave its receipt back has no claim (`Given`); and while an acknowledged or
undecided installer is left, the receipt names an installer (`Chain`), whose tree
is in place when all are through. The assumptions are `ContentsAssumption` and
`BoundsAssumption`.

`UninstallTransaction_proofs` proves, for any number of installers and removers:

| theorem | statement |
|---|---|
| `RemovalTypeCorrect` | `RemoverSpec => []RemovalTypeOK` |
| `ForeignTreesAreKept` | `RemoverSpec => ForeignKept` |
| `RemovalRestoresWhenAlone` | `RemoverSpec => []RemovalFailureRestores` |
| `RemovedStaysForgotten` | `RemoverSpec => []RemovedIsForgotten` |
| `CapturedBytesKept` | `RemoverSpec => []CapturedBytesSurvive` |
| `RemovalsAreFinal` | `RemoverSpec => []RemovalIsFinal` |

The module extends `InstallTransaction_proofs`: a step of an installer is one of
that module, and its type lemmas are used as they are. `RInv` adds to the types
what is in a quarantine before anything is moved and when it is removed, which is
all that `ForeignKept` needs. `RemovalRestoresWhenAlone` rests on `Lones`, the
counterpart of `Solos`.

`RemovedIsForgotten` holds for any number of failures and kills, and its invariant
`Papers` is the reason: each content that a receipt can vouch for is in one place,
in the receipt, with a remover that set it aside, or with an installer that
replaced it and may put it back (`Hand`, `Unshared`). Every step passes such a
content on, takes it up or lets go of it (`Passes`), because a receipt is moved or
replaced only if it is the planned one (install_files.py 1713); a new one names an
installer of which no receipt has been heard (`Heard`). Who acknowledges a removal
keeps what it set aside, so nobody else can write it again.

`CapturedBytesSurvive` has a premise on the whole history: one failure, and no
installer that published or gave back a moved tree. The invariant `SInv` says what
such a history leaves possible (`World`): there is nothing to capture (`Unowned`);
or a snapshot, a backup or a finished removal accounts for the bytes (`Saved`); or
the tree stands untouched (`InPlace`), is being rebuilt by the remover that used
up the failure (`Rebuilding`), or has been rebuilt (`Rebuilt`), and every
installer that could move a tree aside has planned on this one (`PlannedOld`).
Steps are first classified by what they do to the tree (`Meanwhile` for an
installer, `Hauls` for a remover), then each phase is shown to lead to itself or
to a later one. That the premise can only become false is a lemma of its own
(`MarchesCalmly`, `RemoverCalmly`).

`RemovalIsFinal` speaks of the end, when all are through, and of tree and receipt
together, which every transaction changes one after the other. Its invariant `FInv`
says what holds until then. Its premise is `Orderly`: no kill, no unrecorded change,
no remover that could not restore, no installer that moved a tree aside and gave up,
none that wrote its receipt and failed to roll back. What went before an orderly state was
orderly, and every orderly step is of one of six kinds (`OrderlySteps`): an
installer or a remover looks, changes the tree, or changes the receipt.

* A party *needs* a receipt (`Needs`) if it cannot end well unless that one is in
  place: an installer that moved a tree needs the one it planned on, one whose
  publication is not in place needs the one it wrote, and a remover that has
  captured needs the one it planned on until it is set aside or written anew. A
  receipt that was read and replaced never comes back (`Sealed`,
  `NoReceiptReturns`), and the first of two that need the same one takes it from
  the other. So a state is `Hopeless` for good (`HopelessStays`) once somebody
  needs a receipt that is gone or two need the same: it ends with a failed
  rollback or a mover that gives up. At the end nobody needs anything.
* Where there is hope, `Trust` holds. A receipt in place has the tree it was written
  for, or somebody needs it, owes another one, or waits to find a tree to the
  receipt it has restored (`Accounted`); a tree of the receipt's content is that
  very tree, unless somebody needs the receipt (`Placed`); where there is no
  receipt there is no tree, or a publication without receipt that a rollback withdraws or
  failed to withdraw (`Occupies`), or somebody owes a receipt (`Open`). The other conjuncts carry this through the steps between: what
  a remover captured is the receipt's tree even when it had planned on none
  (`Matches`, `Misses`), what it rebuilt is its own (`Finds`), what was moved aside
  has not come back meanwhile (`Strips`, `Vacates`), and an installer that may put
  a receipt back does not find that receipt's tree (`Recalls`).
* `TrustStays` has one lemma per conjunct. `Unshared` of `Papers` and the rivalry
  over needs exclude the interference; the receipt's own moves are `Passed`, the
  tree's `TreeMoves`. A profile whose tree no receipt explains satisfies `Stuck`
  instead: nobody gets past the preconditions.

At the end `Accounted` and `Open` make tree and receipt belong to each other, but
for a publication that was not withdrawn, and
`RemovedIsForgotten` with `Matches` excludes what was removed. Each conjunct of
`Trust` but the direct ones (`Attests`, and the half of `Strips` about the tree) was
tried with TLC before it was proved, without a violation: one installer with two
removers and two failures, one with three removers, two with one and two failures,
two with two. The assumptions of the module are `RemoversAssumption` and those of
`InstallTransaction`.

`ImageCommands_proofs` and `ExportPreview_proofs` prove, for any bounds on
images, layers, nodes, commands and changes, all that `image_commands` checks:

| theorem | statement |
|---|---|
| `ImagesHold` | `Spec => []IInv`, with `IInv == CommandInv /\ PreviewInv` |
| `ImagesTypeCorrect` | `Spec => []TypeOK` |
| `DisplaysStayOwned` | `Spec => []DisplaysAreOwned` |
| `CreationsAreSettled` | `Spec => []CreationIsUndone` |
| `PreviewReportsAreTrue` | `Spec => []PreviewReportIsTrue` |
| `ConsentToClose` | `Spec => ClosedWithConsent` |
| `NothingReplacedUnasked` | `Spec => NeverReplacedUnasked` |
| `CleanBeforePublished` | `Spec => PublishedAfterCleanup` |
| `PicturesAreOfTheSource` | `Spec => PictureIsOfTheSource` |

`CommandInv` (in `ImageCommands_proofs`) says what a command has in hand at each
point: which errors it can have told (`Points`), what is displayed and owned
(`Displays`), which images are clean without a file (`Savings`), where the layer
it creates is (`Creations`). Its lemmas are about one step of a command or of the
artist and do not mention the specification, so that `ExportPreview_proofs` uses
them for its larger state: a step of a command leaves the preview alone, and a
step of a preview is shown to keep `CommandInv`. `PreviewInv` adds which cleanup
is still owed (`Cleaning`), what the flags say of it (`Reporting`), and when drift
can be excused (`Drifting`). The assumptions are `StoreAssumption` and
`CommandsAssumption`.

`PluginStart_proofs` proves, over the lemmas of `BootstrapLog_proofs`, for any
number of processes, limits, failures and kills, every safety property of
`startup`:

| theorem | statement |
|---|---|
| `StartTypeCorrect` | `Spec => []TypeOK` |
| `TokenSharing` | `Spec => []TokenShared` |
| `LogStaysBounded` | `Spec => []LogBounded` |
| `CapturesAreAtomic` | `Spec => []CaptureIsAtomic` |

`TokenInv`: one process at most is about to write, and only while the file is
short; whoever is past the token holds the one in the file, which nobody can
change any more. The log enters only through `CaptureMoves`: a capture moves among
its own points and touches neither token nor port. For the log, `Fresh` says that
a process which has not made its file has none, `Looked` what a capture remembers
of the log it looked at, and `Room` counts: a file holds one record at most for
each capture that is done with appending (`Spent`) beyond the first, which has
found it below its limit (`Limit`). The bound follows because each process
captures once. `Lone` describes log, backup and name at every point of a capture
that nobody overlaps, from the look to the end or the kill. Both modules need a
fact about records read from a file that has been cut meanwhile (`ReadLinesType`).
The assumptions are `LogAssumption`, `FaultAssumption` and `TokenAssumption`.

**Only model-checked.** Liveness (`EveryCallEnds`, `ConnectionsComeBack`,
`SlotsComeBack`, `EveryStartEnds`), which needs ENABLED and is out of the prover's
reach.

## Not modelled

* The steps inside a rename bound to an identity (`_replace_path_owned`) and inside
  the receipt file's primitives. They are one step each in the transactions, with
  the outcomes that matter there: done, refused, failed, done and not recorded,
  and the gap in which the receipt has no name. What is left out is a foreign
  program that swaps a tree between check and rename.
* `verify_install`: its verdict is an input. Its probes are subprocesses and a
  live bridge, and what it reads may be stale by the time of the verdict.
* The Windows implementations of the file primitives, a second realisation of the
  contract that the modules take from the POSIX path.
* The MCP server's life cycle and the skills, which belong to `dcc_mcp_core`; host
  and interpreter probes; the repository's own tooling.

## Plan

1. `OwnedRename` and `ReceiptStore`: the steps inside the file primitives with
   foreign processes, shown to implement the atomic steps that the transactions
   use.
2. `VerifyInstall`: the order of the probes against a profile that changes.
