------------------------------- MODULE MCPush -------------------------------
(***************************************************************************)
(* Small instances of Push: one repository, and a second for an index over *)
(* images of the first; the requests of a team that publishes a multi-arch *)
(* kernel, a boot plan and now and then a single architecture.             *)
(***************************************************************************)
EXTENDS PushCatalogue

CONSTANTS r1, r2, old, new, j1, j2

amd64 == [os |-> "linux", arch |-> "amd64"]
arm64 == [os |-> "linux", arch |-> "arm64"]
bsd64 == [os |-> "freebsd", arch |-> "amd64"]
noarch == [os |-> "zos", arch |-> ""]       \* --kernel zos=...: no arch
MCPlatforms == {amd64, arm64, bsd64, noarch}
MCRank == [p \in MCPlatforms \cup {NoPlatform} |->
    CASE p = bsd64 -> 1 [] p = amd64 -> 2 [] p = arm64 -> 3 [] p = noarch -> 4
      [] OTHER -> 5]

Tag(repo, parts) == [repo |-> repo, tag |-> parts]
MCRepos == {r1, r2}
MCIndexTags == {Tag(r, <<v>>) : r \in MCRepos, v \in {"6.6", "6.7"}}
MCImageTags == {Tag(t.repo, Append(t.tag, a)) : t \in MCIndexTags, a \in {"amd64", "arm64", ""}}
               \cup {Tag(r1, <<"plan">>)}
MCContents == {old, new}

Kernel(c) == [k \in {"kernel"} |-> c]
KernelAndInitrd(c) == [k \in {"kernel", "initrd"} |-> c]
Shared(c) == [k \in {"cmdline"} |-> c]
None == [k \in {} |-> {}]

V66 == Tag(r1, <<"6.6">>)
V67 == Tag(r1, <<"6.7">>)
Both == {amd64, arm64}
MultiReq(ref, platforms, files, shared) ==
    [files |-> [p \in platforms |-> files], shared |-> shared, ref |-> ref]
Spec2(ref) == [i \in 1 .. 2 |->
    LET p == <<amd64, arm64>>[i] IN
    [platform |-> p, ref |-> DerivePerArchRef(ref, p)]]
MCJobs == {j1, j2}
NoReqs == [j \in MCJobs |-> {}]

\* Both processes push to the tags of one release, and one of them assembles
\* the index in another repository.
SharedArtifactReqs == [j \in MCJobs |->
    {[platform |-> amd64, files |-> KernelAndInitrd(new), ref |-> DerivePerArchRef(V66, amd64)],
     [platform |-> noarch, files |-> Kernel(new), ref |-> DerivePerArchRef(V66, amd64)]}]
SharedPlanReqs == [NoReqs EXCEPT ![j2] = {[file |-> new, ref |-> Tag(r1, <<"plan">>)]}]
SharedIndexReqs == [j \in MCJobs |->
    {[specs |-> Spec2(V66), out |-> IF j = j1 THEN V66 ELSE Tag(r2, <<"6.6">>)],
     [specs |-> <<>>, out |-> V66]}]
SharedMultiReqs == [j \in MCJobs |->
    {MultiReq(V66, Both, Kernel(old), Shared(old))}]

\* Each process has a release of its own and publishes it again and again.
OwnMultiReqs == [j \in MCJobs |->
    IF j = j1 THEN {MultiReq(V66, Both, Kernel(c), None) : c \in {old, new}}
    ELSE {MultiReq(V67, {amd64}, KernelAndInitrd(new), Shared(old)),
          MultiReq(V67, {noarch, amd64}, Kernel(new), None)}]

\* One release for two operating systems of the same architecture.
SameArchMultiReqs == [j \in MCJobs |->
    {MultiReq(V66, {amd64, bsd64}, Kernel(old), None)}]

\* Index requests keep to their repositories in all instances, multi requests
\* have tags of their own where each process has a release of its own.
ASSUME InstancesAssumption ==
    IndexesAtHome /\ (MultiReqs = OwnMultiReqs => OwnTags)
=============================================================================
