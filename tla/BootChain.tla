----------------------------- MODULE BootChain -----------------------------
(***************************************************************************)
(* scripts/reset-cloud-boot.sh and what it undoes: the menu stages a       *)
(* target on the disk that make-cache-disk.sh creates, and makes the       *)
(* firmware boot it, until the script, run from the target, removes the    *)
(* boot entry again.                                                       *)
(*                                                                         *)
(* The menu's reboot sink, the firmware and the other programs that write  *)
(* boot entries are external: they do what lines 2-25 of the script and    *)
(* lines 5-10 of make-cache-disk.sh say of them.  Both scripts may stop    *)
(* between any two commands.                                               *)
(***************************************************************************)
EXTENDS CacheDisk, Sequences

CONSTANTS
    Own,        \* number of the entry the menu writes: Boot0001
    Others,     \* numbers of entries other programs write
    BootNums,   \* values of BOOTNUM the script is called with
    Tools       \* whether efibootmgr is installed: a subset of BOOLEAN

ASSUME NumbersAssumption == Own \notin Others /\ BootNums \subseteq Others \cup {Own}
ASSUME TargetsAssumption == {"menu", "other"} \cap Targets = {}

Numbers == Others \cup {Own}

VARIABLES
    entries,    \* Boot#### variables: number -> what it loads
    order,      \* BootOrder; empty when there is no such variable
    running,    \* what was booted
    at, num, tool,  \* the script, its BOOTNUM, whether it uses efibootmgr
    said        \* whether it has announced the default loader for the next boot
bootVars == <<entries, order, running, at, num, tool, said>>

-----------------------------------------------------------------------------
\* BootOrder names no number twice (OnlyOnce), so that there is at most one
\* place to remove.
OnlyOnce == \A i, k \in DOMAIN order : order[i] = order[k] => i = k
Places(n) == {i \in DOMAIN order : order[i] = n}
Without(n) ==
    IF Places(n) = {} THEN order
    ELSE LET i == CHOOSE i \in Places(n) : TRUE
         IN  SubSeq(order, 1, i - 1) \o SubSeq(order, i + 1, Len(order))

\* The firmware loads the first entry of BootOrder that exists, and without
\* one the default loader of the boot media, which is the menu.
Bootable == {i \in DOMAIN order : order[i] \in DOMAIN entries}
First == {i \in Bootable : \A k \in Bootable : i <= k}
NextBoot == IF First = {} THEN "menu" ELSE entries[order[CHOOSE i \in First : TRUE]]

\* The variables a machine comes with.
BootInit ==
    /\ \E had \in SUBSET Others :
          /\ entries = [n \in had |-> "other"]
          /\ order \in UNION {[1..k -> had] : k \in 0..2} /\ OnlyOnce
    /\ running = NextBoot
    /\ at = "idle" /\ num = Own /\ tool = FALSE /\ said = FALSE

\* The sink, with the files staged, writes Boot0001, puts it first, and reboots.
Redirect(t) ==
    /\ running = "menu" /\ t \in staged
    /\ entries' = [n \in DOMAIN entries \cup {Own} |-> IF n = Own THEN t ELSE entries[n]]
    /\ order' = <<Own>> \o Without(Own)
    /\ running' = t
    /\ at' = "idle" /\ said' = FALSE
    /\ UNCHANGED <<num, tool>>

\* The user reboots, at any time, or the machine loses power.
Reboot ==
    /\ running' = NextBoot
    /\ at' = "idle" /\ said' = FALSE
    /\ UNCHANGED <<entries, order, num, tool>>

\* Another program adds an entry of its own and puts it last, but not once the
\* script is about to announce the next boot.
Install(n) ==
    /\ running # "menu" /\ ~said /\ at # "say"
    /\ n \notin DOMAIN entries
    /\ entries' = [m \in DOMAIN entries \cup {n} |-> IF m = n THEN "other" ELSE entries[m]]
    /\ order' = Append(Without(n), n)
    /\ UNCHANGED <<running, at, num, tool, said>>

-----------------------------------------------------------------------------
(* The script.                                                             *)

\* It is called from a staged target; the usage, root and mount checks end it
\* before it has done anything.
StartReset(n, has) ==
    /\ running \in Targets /\ at = "idle"
    /\ at' = IF has THEN "efibootmgr" ELSE "rm entry"
    /\ num' = n /\ tool' = has /\ said' = FALSE
    /\ UNCHANGED <<entries, order, running>>

\* Mutant: the number stays in BootOrder.
EfibootmgrEntry ==
    /\ entries' = [m \in DOMAIN entries \ {num} |-> entries[m]]
    /\ UNCHANGED order

\* efibootmgr -b NNNN -B
Efibootmgr ==
    /\ entries' = [m \in DOMAIN entries \ {num} |-> entries[m]]
    /\ order' = Without(num)

\* Without an entry of that number efibootmgr fails, and `set -e` ends the
\* script.
UseEfibootmgr ==
    /\ at = "efibootmgr"
    /\ IF num \in DOMAIN entries THEN Efibootmgr /\ at' = "say"
       ELSE at' = "idle" /\ UNCHANGED <<entries, order>>
    /\ UNCHANGED <<running, num, tool, said>>

RemoveEntry ==
    /\ at = "rm entry"
    /\ entries' = [m \in DOMAIN entries \ {num} |-> entries[m]]
    /\ at' = "rm order"
    /\ UNCHANGED <<order, running, num, tool, said>>

\* Mutant: an entry that is not there leaves nothing to be done.
ClearedUnlessGone == IF num \in DOMAIN entries THEN <<>> ELSE order
Cleared == <<>>

RemoveOrder ==
    /\ at = "rm order"
    /\ order' = Cleared
    /\ at' = "say"
    /\ UNCHANGED <<entries, running, num, tool, said>>

Say ==
    /\ at = "say"
    /\ said' = TRUE /\ at' = "idle"
    /\ UNCHANGED <<entries, order, running, num, tool>>

\* A command that fails, a signal.
Stop ==
    /\ at # "idle"
    /\ at' = "idle"
    /\ UNCHANGED <<entries, order, running, num, tool, said>>

\* NVRAM is reset from outside: the hypervisor's file is removed.
Wipe ==
    /\ entries' = [n \in {} |-> "other"] /\ order' = <<>>
    /\ running' = "menu" /\ at' = "idle" /\ said' = FALSE
    /\ UNCHANGED <<num, tool>>

BootNext ==
    \/ \E t \in Targets : Redirect(t)
    \/ Reboot \/ Wipe
    \/ \E n \in Others : Install(n)
    \/ \E n \in BootNums, has \in Tools : StartReset(n, has)
    \/ UseEfibootmgr \/ RemoveEntry \/ RemoveOrder \/ Say \/ Stop

\* The disk may be made anew at any time; only the menu stages.
DiskNext == Next /\ (staged' \subseteq staged \/ running = "menu")

ChainInit == Init /\ BootInit
ChainNext == \/ BootNext /\ UNCHANGED vars
             \/ DiskNext /\ UNCHANGED bootVars

ChainSpec == ChainInit /\ [][ChainNext]_<<vars, bootVars>>

-----------------------------------------------------------------------------
(* Properties.                                                             *)

\* Where the script works without efibootmgr: once it has announced it, the
\* next boot is the default loader, whatever entries there were and whichever
\* runs of it stopped before.
AnnouncedBoot == said /\ ~tool => NextBoot = "menu"

Dangling == {n \in Numbers \ DOMAIN entries : \E i \in DOMAIN order : order[i] = n}

\* BootOrder comes to name an entry that is gone at one place only: between
\* the two removals of the script without efibootmgr.
DanglesOnlyHalfway == [][Dangling' \subseteq Dangling \/ at = "rm entry"]_bootVars

\* The boot entry outlives every run of make-cache-disk.sh: what the firmware
\* boots next, if it is a target, is staged on a disk that is complete.
NextBootStaged == NextBoot \in Targets => NextBoot \in staged /\ Whole
=============================================================================
