# Verification of cloud-boot/uki

`cloud-boot` is a command that prepares network-booted machines: it assembles
UEFI images (`build`), and pushes kernels, boot plans and multi-architecture
indexes to an OCI registry (`push ...`). Shell scripts create the disk a booted
machine caches kernels on and put a machine back to its menu; Taskfile tasks
string the commands together. Paths below are relative to `src/`.

The Go code has no goroutines. What is hard about it lies between processes and
runs: several of them share a registry, a work directory or a disk, they stop at
any point, and the next one finds what is left.

## Inventory

| Component | State it keeps | Operations | Talks to | Hard behaviour | Correct when |
|---|---|---|---|---|---|
| `push artifact`, `plan` (`cmd/cloud-boot/push/artifact`, `plan`) | nothing; descriptors collected in a run | config blob, layer blobs, manifest | registry | interruption, lost answers, other pushes | a manifest appears whole or not at all |
| `push index` (`push/index`) | entries collected in a run | describe each spec, put the index | registry | tags move between the lookups | it lists manifests that exist, for the right platform |
| `push multi` (`push/multi`) | specs collected in a run | one artifact per platform, then index | the two above | stops between platforms; finds its own pushes again by tag | its index lists what it pushed |
| flags of `push multi`, `index` (`multi/cmd.go`, `index/cmd.go`) | lists of platform and value | Set, Replace, GetSlice; split and glue texts | the two above | separators inside the texts | what is pushed is what was typed |
| registry (external) | blobs, manifests, tags | PUT, GET, HEAD | all pushes | checks nothing | manifests outlive their tags |
| `internal/fakereg` | the registry the tests run against | the same; fail at one stage | the tests | answers for a tag nobody pushed | it is a registry, and fails where the test says |
| `build` (`build/`, `internal/uki`) | files of a work directory, the ISO | init, initramfs, ZFS bundle, UKI, ESP, ISO | `go`, mtools, xorriso | reuse of `--work`, failure and kill in any step | the ISO is what the flags say |
| `scripts/make-cache-disk.sh` | the disk image | check, format, GPT, stamp | the machine's reboot sink | dies between two writes, is run again over a disk in use | ready disks are usable, used disks are safe |
| `push modpack` | an archive | walk a tree, write cpio through gzip | - | ignored close error, links, output inside the tree | the archive is complete or the command fails |
| `scripts/reset-cloud-boot.sh` | UEFI boot variables | delete an entry | firmware, reboot sink | two deletions, one failing | the next boot is the menu |
| Taskfile `push:*`, `fetch:*` | cached downloads | fetch unless present, convert, label | network, `label` | a file that exists but is not complete | a cache hit is a complete file |
| Taskfile `iso`, menu and kernel tasks | registry container, files | start, wait, push, build, boot | all of the above | waiting without a bound, fixed names | the machine that boots sees this run's artifacts |
| `label` | a disk image | read or write the label | ext4 library | - | an image is handed on with its label |
| command tree, `test-qemu.sh`, example plans | - | - | - | - | - |

The hazards of each, at their lines, are in `PROJECT.json`, with the properties
that cover them.

## Modules

| Module | What it is |
|---|---|
| `Registry` | the registry: repositories, blobs, manifests, tags |
| `Push` | processes that run the four subcommands against one registry |
| `Catalogue` | what a puller is promised: whole releases only |
| `PushCatalogue` | the refinement mapping from `Push` to `Catalogue`, and what has to be so for it |
| `Lexical` | the order of texts and of paths |
| `Flags` | the repeated flags of `push multi`, and the texts they become |
| `FakeReg` | the tests' registry and a test, mapped to `Registry` |
| `ModPack` | `push modpack` over a directory that changes |
| `CacheDisk` | runs of `make-cache-disk.sh` on one path |
| `BootChain` | `reset-cloud-boot.sh`, the menu and the firmware, composed with `CacheDisk` |
| `IsoBuild` | processes that run `build` |
| `FetchCache` | the Taskfile's cached downloads and conversions |
| `MenuRun` | the menu tasks and the registry container they share |
| `PushProofs`, `BootChainProofs`, `IsoBuildProofs`, `ModPackProofs`, `FlagsProofs`, `FakeRegProofs`, `FetchCacheProofs`, `MenuRunProofs` | theorems about them; those about `Catalogue` are in `PushProofs`, those about `CacheDisk` in `BootChainProofs`, those about `Lexical` in `ModPackProofs` |
| `MCPush`, `MCFlags`, `MCFakeReg`, `MCModPack`, `MCCacheDisk`, `MCBootChain`, `MCIsoBuild`, `MCFetchCache`, `MCMenuRun` | instances for TLC |

### Registry and Push

`blobs`, `manifests` and `tags` are the registry. A digest is modelled by the
content it identifies, so two pushes of the same content are the same blob.
`StoreBlob` and `StoreManifest` are the two writes, `Resolve` the lookup
(`DescribeManifest`). A PUT is unconditional, as in `fakereg`; where `fakereg`
answers a GET of an unknown tag with the last manifest, the model gives an error.

`job[j]` is a process. A command line is one action (`ArtifactRun`, `PlanRun`,
`IndexRun`, `MultiRun`) which refuses the request or turns it into work; from
there all four commands share the steps, because `multi.Run` calls
`artifact.Run` and `index.Run`:

| Action | Code |
|---|---|
| `RejectPlatform` | `derivePerArchRef` fails inside the loop, multi/cmd.go:131-134 |
| `PushConfig` | the config blob, artifact/cmd.go:77-87, plan/cmd.go:53-58 |
| `PushLayer` | one `add` or `PushBlob`, artifact/cmd.go:89-130, plan/cmd.go:60-63 |
| `PushManifest` | artifact/cmd.go:132-143; in multi also the spec for the index, multi/cmd.go:145 |
| `Describe` | one turn of the loop in index/cmd.go:87-102 |
| `PutIndex` | index/cmd.go:104-112 |
| `Fail` | an unreadable file, an error of the registry, a kill |

Each step that writes has two outcomes, because the answer of a request that took
effect may be lost (`Settle`). A tag is a sequence of parts, so that
`derivePerArchRef` is `Append`. An index spec is a tag, or the digest it named
when the command was typed (`Pinned`), as the comment in index/cmd.go:17-18
suggests. Kernel, initrd and so on are opaque contents.

### CacheDisk

Sizes are in MiB, geometry in sectors with the script's own formulas. The disk
has six parts: protective MBR, primary header and entries, secondary entries and
header, file system. A part holds the run and the size it was written with, which
stand for the random GUIDs and the block addresses that must agree. `Format` is
the FAT image in a temporary file, `Truncate` the `truncate` of the disk,
`WritePart` one of the five writes of the Python program, `StampBegin` and
`StampEnd` the `dd`. `Die` stops a run between any two of them; `cut` remembers
whether one has died after it wrote the partition's name. `Stage` is external: a
machine that writes a kernel to the file system it finds by partition name.

### IsoBuild

`files` holds, per directory, what the four intermediate files contain: `init`
its architecture, `initramfs` the sequence of archives concatenated, `uki` and
`esp` a record of the parts. `isos` holds the outputs. Directories are pairs, one
member telling where the path is resolved: `buildInit` runs `go build` with
`cmd.Dir = initDir` (build.go:205), so a relative `--work` names another
directory there than in the rest of `Build`. Every file is opened by
truncating it, except the initramfs when the ZFS bundle is appended. `Fail` is an
error return, after which the deferred `RemoveAll` runs, `Kill` a signal, after
which it does not; either leaves the file of the step under way as it was or
torn. The content of an empty file is `Empty`, and `Embedded` drops it, as
`len(planHCL) > 0` does. `--uname` and the OS release of the UKI are left out.

### Flags and Lexical

`Push` takes a request as given; `Flags` is how it comes about. A text is a sequence
of tokens, its separators with their ASCII codes, so that splitting at the first `=`
or `/` and gluing with `-` and `=` are what they are in the code. `Flag` is one call
of `PathList.Set`, `Run` the checks, `PushOne` one turn of multi's loop, in which the
index entry is written out as a text and set again, `PushIndex` the parsing of the
entries by `index.Run`. `Replace` and `GetSlice` are the two methods pflag asks for.
`DerivePerArchRef` appends `-` and what follows the first slash of the platform, so
that `linux/arm/v7` gives a tag in `-arm/v7`; what `oci.ParseRef` drops (scheme,
digest) is not in the text. `Before` of `Lexical` is the order of `sort.Strings` here
and of `filepath.WalkDir` in `ModPack`.

### FakeReg

The handlers of `fakereg.go` are the operators `HasBlob`, `KeepBlob`,
`KeepManifest` and `Answer`; the actions are the requests the client library makes
for one `artifact.Run`. `failOn = 0` is the server of `Start`, any other number
that of `StatefulFailReg`, which answers no GET, remembers no blob and fails one
upload. `R` maps the first to `Registry`: its manifests are those the map of
`Start` still holds. A GET of a tag that was never pushed is answered with the
manifest PUT last (`Answer`), and a second PUT to a tag overwrites the first
(fakereg.go:61-67), where a registry keeps both. The mapping therefore holds for
whoever asks only for tags that exist and pushes each tag once, as the tests do; the
step excepted in `WritesOfRegistry` is the second PUT and nothing else.

### ModPack

`tree` is the directory, a function from paths to nodes. `todo` are the paths the
walk has listed and not yet visited, with the kind `ReadDir` reported, which may
be out of date at the visit. `written` are the records handed to the cpio writer,
`stored` how many of them have left gzip's buffer. `Create` truncates the output,
which may lie inside the tree; `Lead`, `Visit` and `End` write; `Close` is the
deferred `gz.Close`, whose error is dropped. `Change` is another program,
`DiskFills` the disk. A directory that was listed may have become a link when the
walk comes to it; `os.ReadDir` and `os.ReadFile` follow it, so what is found
behind a link (`Through`, `Found`, `Entries`, `Contents`) may be anything. Hard
links, sizes and permission bits are left out. `--src` ends in the name of a release,
as pack.go:16-17 asks: with `--src .` the root of the archive is `lib/modules`, which
is then written twice.

### BootChain

`entries` and `order` are the variables `Boot####` and `BootOrder`; no number is twice
in `order`, so that `Without` takes out one place. `Redirect` is
the menu's reboot sink as lines 2-20 of the script describe it, for a target that
is `staged` on the disk of `CacheDisk`; `Reboot` is the firmware, `Wipe` a reset of
the NVRAM from outside, `Install` another program that adds an entry. The script is
`StartReset` to `Say`, with efibootmgr or with `rm`, and `Stop` between any two
commands. An entry is not installed after the script's last write: nobody could
announce the next boot then. `ChainNext` interleaves all of this with the steps of
`CacheDisk`; what connects the two is that only the menu stages (`DiskNext`), that
an entry is written for what is staged, and that the entry stays in the NVRAM while
`make-cache-disk.sh` runs again on the disk.

### FetchCache

A task is a list of steps, translated line by line from its recipe (`Recipe`); a
file has the release it comes from, its label, and in `cut` the interruptions it
suffers from: the steps, as task and step, that were cut short while they wrote
it or what it was made from. A step
that writes has a start, after which its file is there, and an end. `Cached` is
`[ -s file ]`, with the age for the step that converts. `newer` is the comparison
of the two files' times. `Release` moves the mirror on, `Clean` is a user who
removes a file, `CutShort` an interruption, of any step that writes.

### MenuRun

Each terminal runs a task, a list of steps (`Recipe`). `EnsureRegistry` is `docker
ps | grep || docker run`, `AwaitRegistry` the `until curl` loop, `PushArtifact` a
push of an artifact or plan. `push index` is one `Describe` per reference, in order,
and then `PushIndex`, as the requests of index/cmd.go:86-112 are separate: the
registry may be replaced between any two of them, and the index is stored with what
the earlier one had. `PushFails` is any error of a push, also while the registry is
up. The container has no volume, so `tags` are gone when it is (`Lost`, in
`StopRegistry` and `GoAway`). `finished` (the multi-arch tasks that have succeeded)
and `outlived` (the pushes whose lookups a registry answered that has gone) are
history. `BootMenu` is the moment the menu appears, where the properties look at
`PlanReferences`, all that the OCI targets of plan-vz-test.hcl name. `calm` is chosen
at the start: a calm machine's `docker run` succeeds and nobody stops the registry.

## Runs

| Run | Question | Expected |
|---|---|---|
| `push_shared` | two processes, all four subcommands, the same tags: is the registry consistent, and does it change only by whole releases? | yes |
| `push_own` | two `multi` processes with tags of their own: does an index list what its run pushed, does every command end? | yes |
| `push_same_arch` | one release for `linux/amd64` and `freebsd/amd64`: does each get its own artifact? | no: one tag for both |
| `cachedisk_unstamped` | runs of `make-cache-disk.sh` die anywhere: is a disk that is reported ready usable? | no: it may have no file system |
| `bootchain` | both scripts, the menu and the firmware, everything stopped anywhere: do the disk's structures fit, is a disk in use safe, is it usable unless a run died after it named the partition, is what the firmware boots staged on it, does `reset-cloud-boot.sh` keep its promise where there is no efibootmgr? | yes |
| `build_own` | a reused, a temporary and a relative work directory, failures and kills: is a success the ISO that was asked for, and is scratch removed? | yes; a build whose directory is always named by a relative path finds no init and fails |
| `flags_lists` | well-formed and malformed words: is what is pushed what was typed, and does the index name it? | yes |
| `fakereg` | pushes to two tags of the tests' registries: is the one a registry as long as each tag is pushed once, and does the other fail at the stage the number names? | yes |
| `modpack` | the tree changes, the output lies in it, the disk fills up: can what is written be unpacked, is a success the archive of what was there, in order, and is a failure visible? | yes; behind a link anything may be packed |
| `fetchcache_cuts` | every task, any step cut short, while releases appear: whose torn files are used, and is the labelled image of the release of its download? | only those of steps that keep their own output; yes |
| `menu` | all registry tasks in two terminals: does a menu find what its task pushed, what of the plan resolves after both multi-arch tasks, when is an index without its images, do all tasks end, and what do they wait for when the registry is stopped? | yes; all but `primary` and `rescue`; only if the registry is replaced while the index is assembled; yes; only for the registry |
| `menu_targets` | the same tasks: does the menu of `qemu:arm64:menu` find the targets its comment names? | no: their multi-arch indexes were not pushed |

The "no" answers are recorded as findings with the lines they contradict.

**Bounds.** Push: two processes, two repositories, two contents, four platforms
(two of one architecture, one malformed), requests of at most two files and two
platforms; one process assembles an index in the second repository over images of
the first. Two processes are enough for every race the code has, since a step
involves one process and the registry; two platforms are enough for "between two
platforms", two files for "between two layers", two contents to tell an old from
a new one. Processes repeat commands without a bound. CacheDisk and BootChain: one
run of each script at a time, repeated without a bound, sizes 1 (which `mformat`
refuses), 2 and 3 MiB, so that a run may grow or shrink what an earlier one left;
two targets, entries of two other programs in every order, with and without
efibootmgr, any of three numbers; no bound on reboots. IsoBuild: two
processes, two architectures, one request that the flag checks refuse; one
process reuses its directory, the other has temporary ones, with and without
`--keep`, or one that is always named by a relative path, and both write one output path. Flags: up
to four flags (`MaxGiven`) out of eight words, four of them malformed and one with a
second slash in its platform, enough for two platforms in three lists and for one
platform given twice to one flag. FakeReg: two tags, artifacts of up to
three blobs of which two are equal; the first, second or third upload fails, or
none. ModPack: three names
on two levels, every kind of node, at most two changes during a run
(`MaxChanges`), enough for a node that goes and comes back as another kind.
FetchCache: one task (chosen at the start), any number of runs,
three releases (`MaxRelease`): the one in the cache, the one fetched next, and a
newer one. MenuRun: two terminals with any number of tasks; the pushes of
`alpine`, `debian`, the live image and the plan. No run constrains the state space.

**Fairness.** `FairSpec` of `Push` asks that a process that
has started keeps taking its own next step: every HTTP request
returns, with success or an error. Nothing asks a process to start or forbids
failures. The programs are sequential and take no locks, so
weak fairness per process is all there is. The registry client has no timeouts in
this repository; that its requests return is the assumption. `IsoBuild` states no
liveness: its straight line of steps ends if each tool does.

`Spec` of `MenuRun` asks that a shell runs its next command, that a command
returns, and that a registry that was started begins to answer. It does not ask
that a registry is started: the task asks for that once and ignores the answer,
so the task may poll for ever, which no property forbids. `TasksEnd` therefore is about
a `calm` machine; `WaitsOnlyForRegistry` says what is left elsewhere.

**Mutants.** Each module has a few operators commented "Mutant": a definition
with a bug the code could plausibly have had (a dropped check, a swapped order, a
wait that is missing). `PROJECT.json` pairs each property of a passing run with
one; with the mutant in place of the definition TLC finds the property violated,
so the property depends on that piece of code.

**Deadlock** is checked wherever a command can be typed again. `flags_lists` stops
when its one command has ended; in `menu` and `menu_targets` every terminal may wait
for a registry nobody starts.

## Proofs

TLAPS proves, for every number of processes and every set of requests, sizes,
platforms and repositories:

* `PushProofs`: `Typing`, `Completeness`, `NoDanglingEntry` and `Invariance`
  (`Inductive`). The invariants are not inductive alone: that a manifest is stored
  with its blobs depends on what a process between two requests relies on. So
  `Inductive` adds `ProcessInv` (the config and the layers collected so far are in
  the repository, what is still to push are files of the artifact, the entries
  collected are stored manifests) and `TagsStored` (a tag names a manifest of its
  repository, which is what `Describe` needs). The argument: the registry
  only grows, so a step of one process keeps what the others rely on (`Step`);
  one lemma per kind of write keeps the registry's part; one lemma per action
  shows the process that moves satisfies its part again.
* `PushProofs`, what a command has done:
  * `SuccessPublishes` (`OkMeansPublished`), without assumptions. Its invariant is
    `Publication`: the manifests of the artifacts a process has finished are in the
    registry, the layers collected and those to push make up the artifact under way,
    and platforms with a spec, under way and left to do are those of the request.
    `Sorted` gives the order, by the number of smaller elements, with no induction.
  * `PlatformsAgree`: an index lists each platform with its own manifest, under
    `OneOwner`, no tag is used for two platforms. The requests of `push_shared`
    satisfy that, those of `push_same_arch` do not. The argument follows a platform
    from the tag it is pushed under to the entry of the index.
  * `MultiIndexIsOwn` (`MultiIndexOwn`): `multi.Run` finds its own pushes again by
    tag, and they are still its own if `OwnTags`: the tags it derives differ from each
    other and from those of the other processes. Without it another push may take
    the tag between the push and the lookup. Added invariants: the process carries
    out one of its requests (`RequestInv`), and each tag it has pushed to names the
    manifest it pushed (`KeepsTags`).
  * `PushesAreReleases` (`ReleasesAreWhole`): `Push` implements `Catalogue`. Every
    step but two is invisible (`QuietSteps`); storing a manifest or an index is a
    release of all that can be pulled after it (`AsSeen`), or invisible.
    `IndexesAtHome` is needed: `push index` copies digests only, so an index in
    another repository names images that are not there (index/cmd.go:96), and would
    become available, with no push of its own, when somebody pushes them there. The
    assumption excludes just that: an index is next to its images or where no
    artifact ever is.

  `OwnTags` and `IndexesAtHome` are about the requests alone; TLC finds
  `IndexesAtHome` true of the requests of all the runs and `OwnTags` of those of
  `push_own`.
* `BootChainProofs`, about the disk: `Typing` and `Geometry` for any number of runs at once.
  `Survival` and `Retry` assume `Alone`, one run at a time, since the script has no
  lock. `Survival` needs `WriteOrder` (`Ordered`): a run that has passed the check
  works on a disk without the name until it writes it, and there is no file system
  before there is a name. `Retry` is about disks on which no run has died after it
  wrote the partition entries, and is false of others (`cachedisk_unstamped`).
* `BootChainProofs`, for any entries, order, number, targets and sizes: `Announced`,
  without assumptions; the invariant (`OrderGone`) is that the script without
  efibootmgr leaves no `BootOrder`, from its removal to the reboot. `Halfway`
  (`DanglesOnlyHalfway`), without assumptions; it needs that no number is twice in
  `BootOrder` (`OrderOnce`), or taking out one place would leave another.
  `BootsStaged` under `Alone`: what the firmware boots is staged on a complete disk.
  It joins `WriteOrder` and `Survival`'s argument with two invariants, that a disk
  with a file system is complete (`Stamped`) and that every target in an entry is
  staged (`EntriesStaged`).
* `IsoBuildProofs`: `Typing` and `NoScratch` without assumptions. `FaithfulIso`,
  `FaithfulWork` and `StaysOnCourse` assume `OwnDirectories`: no two processes share
  a work directory, none is relative, plan and key files are not empty; without the
  last two they are false. The invariant is `OnCourse`: from each step on, the files
  later steps read are those this build wrote.
* `ModPackProofs`, for every tree and every sequence of changes: `Typing`,
  `Unpacking`, `Failing` and `Reproduces`; `Mirrors` under `Plain`, that `--src` is no
  link. `Mirrored` itself is about a disk with room, since the command is silent about
  gzip's last write, and says nothing of where the tree had a link (`Linked`), since
  the walk may have followed it. `Unpackable` and `Reproducible` rest on the walk's
  order: every path still in `todo` comes after every record written and is an entry
  of a directory packed already (`InOrder`). `Mirrored` needs where a node is that
  lasted throughout: in the archive, in `todo`, or below a directory in `todo`
  (`Covered`), and where a record and a listed path come from: the tree at some time,
  or a link (`Genuine`, `Listings`).
* `FlagsProofs`, for all texts and any number of flags: `Requests`, `SpecsMatch` and
  `RoundTrips`, without assumptions. The invariant of `Requests` (`Looped`, `Taken`)
  relates the lists to the flags read so far, and the platforms left to those pushed.
* `FetchCacheProofs`, for any number of releases and any tasks:
  * `NothingTorn` (`TornByCachedOnly`), without assumptions: whichever steps are cut
    short, a torn file that is handed on comes from a step outside `Harmless`, one
    that takes its own output for good when it is there. The steps in `Harmless` make
    their output anew in every run, or write the ISO that a later step refuses. The
    invariant (`Sound`) says per step of a recipe which files are free of harmless
    tears (`Trusted`) and per recipe which may have them (`Doubtful`); one lemma per
    recipe shows that they fit (`Sane`).
  * `OneRelease` (`UpToDate`), whichever steps are cut short: an image is of the
    release of a download that is not newer than it (`LabelDated`). It is about
    `label:debian:cloud` only.
* `MenuRunProofs`, for any number of terminals: `OwnPushes`, `PlanResolves` and
  `WholeIndexes`, from one invariant (`Steady`, `InStep`): a terminal's `todo` is the
  rest of its recipe; what a push has looked up is there unless the registry that
  answered has gone (`Assembly`); and on a calm machine all references before `todo`, and
  those of the tasks that have finished, are in the registry. Starting a container
  empties the registry, so it matters that `docker run` comes only after `docker ps`
  has found none, and that none holds no tags. `PlanResolves` is exact: it also says
  that `primary` and `rescue` do not resolve. `IndexesWhole` is a property of the step
  that stores an index, since images and index are lost together later.
* `FakeRegProofs`, for any tags, artifacts and numbers of the stage that fails:
  `ReadsAgree` and `WritesAgree` (Start's registry is a `Registry` for whoever asks
  for tags that were pushed and pushes each tag once) and `FailsWhereAsked`. The
  invariant (`Serving`): what is left to push is the end of the artifact (`Rest`),
  Start has what comes before it (`Uploaded`), and in a first push StatefulFailReg has
  counted one upload for each blob before it (`Counted`), since it never says that it
  has a blob.
* `ModPackProofs`, `Lexical`: `Before` is total and transitive (`Total`, `Transitive`),
  from the first place at which two texts differ, and a path comes before what lies
  below it.

The assumptions on constants (the `...Assumption`s of each module) say
that names are different, requests well-formed, directories trees; TLC evaluates
them in the passing runs.

**Only model-checked:** the liveness properties `EveryRunEnds`, `TasksEnd` and
`WaitsOnlyForRegistry`; the three runs that end in a violation. TLAPS handles neither
liveness under fairness nor `ENABLED`, nor induction over data or `RECURSIVE`
operators; no module here uses the latter. Nothing is proved about the effect of
`SelectSeq`, which is recursive: `Without` of `BootChain` is written with `SubSeq`.

## Not modelled

* The command tree has no state. `test-qemu.sh`, the `qemu:*` and `vfkit:*` tasks of
  single targets and the kernel task start one program each. `iso` calls `build`.
* The example plans are read by the init, which lives in another repository, as do
  the registry client and the ext4 library behind `label`. `Flags` takes from
  `oci.ParseRef` only that a host and a tag must be there: schemes and digests are
  left out.
* Byte formats (cpio, PE sections, FAT, ISO 9660, GPT checksums, `uki.Copy`) are
  abstracted to their parts, permission bits and the contents of the apkovl left
  out.
* Builds in one work directory, and files changed by hand while a script runs:
  the code neither prevents them nor promises anything.

Met while modelling, and excluded by a condition or an assumption of the
properties, since the code permits it:

* `push index` resolves a reference in whatever repository it names and puts the
  digest into the index of another (index/cmd.go:96); in `push_shared` such an index
  never counts as available.
* `linux/arm/v7` splits at the first slash, so its tag ends in `-arm/v7`
  (multi/cmd.go:165), which is no tag: `PushesRequested` and
  `SpecsMatchPushes` follow the text, and no property says that it is a tag.
* A relative `--work` lets the build embed the init an earlier one left
  (build.go:205), and an empty `--plan-file` or `--cosign-key` is dropped
  (build.go:261): `OwnDirectories`.
* Two runs of `make-cache-disk.sh` at once: the second formats a disk in use
  (`Alone`).
* The deferred `gz.Close` of modpack drops its error (pack.go:36): on a full disk a
  truncated archive counts as a success. A link given as `--src` is packed as a link,
  and a directory that becomes a link to another is packed with the other's entries
  (pack.go:46).
* curl, tar and qemu-img write cached files in place, and the next run takes an
  interrupted download or conversion for a cache hit (Taskfile.yaml:395-403, 494-498,
  646-649, 704): `TornByCachedOnly` says that these are the only steps with that effect.
  Kernel and initrd are cached one by one (395, 494), so a task may push those of two
  releases; `UpToDate` does not speak of them.
* With efibootmgr `reset-cloud-boot.sh` keeps the entries of other programs
  (line 81), so the announced default loader is not what boots next: `AnnouncedBoot`
  is about the script without it.
* The menu tasks push per-arch tags, while the plan's targets name multi-arch
  references (Taskfile.yaml:905), which is the finding of `menu_targets`;
  `ResolvedAfterMulti` says when they resolve, and that `primary` and `rescue`
  (plan-vz-test.hcl:241-251) never do. The tasks wait without a bound for a registry
  that may not start (902).
* A registry that is replaced between the lookups of `push index` and its PUT gets an
  index without images (index/cmd.go:86-112): the exception in `IndexesWhole`.
Also met: a second path for one platform in one list is dropped silently
(`PathFor`); `PlatformList.Set` accepts an empty platform or reference and leaves
the error to the loop; the note at Taskfile.yaml:372-375 describes an earlier
state of the task; a debian-live ISO that was cut off is refused by every later
run, but never fetched again.

## Plan

Done: `Registry`, `Push`, `Catalogue`, `CacheDisk`, `IsoBuild`, `Flags`, `ModPack`,
`FetchCache`, `BootChain`, `MenuRun`, `FakeReg`, and the proofs above. Left:

1. The converse of `TornByCachedOnly`: a counterexample for every step outside `Harmless`,
   to show that none of them is listed there without need.
