------------------------------ MODULE MCFlags ------------------------------
(***************************************************************************)
(* Small instances of Flags: well-formed and malformed words, values with  *)
(* separators in them, up to four flags.                                   *)
(***************************************************************************)
EXTENDS Flags

amd64 == 101
arm == 102
arm64 == 103
k1 == 104
k2 == 105
linux == 106
repo == 107
host == 109
tag66 == 110
v7 == 111

Platform(arch) == <<linux, Slash, arch>>
Words66 == {Platform(amd64) \o <<Equals, k1>>,
            Platform(amd64) \o <<Equals, k2, Equals, k1>>,  \* a path with "="
            Platform(arm64) \o <<Equals, Slash, k1>>,
            <<linux, Slash, arm, Slash, v7, Equals, k1>>,   \* an arch with a variant
            <<linux, Equals, k1>>,                          \* no arch
            <<Equals, k1>>,                                 \* no platform
            Platform(amd64) \o <<Equals>>,                  \* no path
            Platform(amd64)}

Ref66 == <<host, Slash, repo, Colon, tag66>>
MCRefs == {Ref66, <<repo, Colon, tag66>>}
=============================================================================
