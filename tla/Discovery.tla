------------------------------ MODULE Discovery ------------------------------
(***************************************************************************)
(* How a request finds a VM, its disks and the repository of each disk, in *)
(* the files that the ovs-agent keeps (internal/vms.go, internal/repos.go).*)
(* Nothing is cached: a request for the details of a VM reads the          *)
(* repositories three times, and so does a create, which first looks       *)
(* whether every disk can be cloned and then resolves the disks afresh to  *)
(* clone them; a list of all VMs reads them twice for every VM.  The       *)
(* administrator of the host may change what is read in between.           *)
(***************************************************************************)
EXTENDS Integers, Sequences, FiniteSets, Functions

CONSTANTS
    Repos, Chars, Names, VMs,
    Mount,        \* the mount point of each repository
    Filesystem,   \* and its kind
    ObjectType,   \* what each image is, as repository metadata would have it
    Config,       \* the disk lines of each VM's vm.cfg
    Home,         \* the repository that each VM is in at first
    Nil,
    MaxChanges    \* bound: changes to the environment

(***************************************************************************)
(* A disk line is an image file in three fields, a physical disk, or cut   *)
(* short.  A path is the directory and the name of what it leads to.       *)
(***************************************************************************)
Line == [kind : {"file", "phy", "short"}, dir : Seq(Chars), name : Names]
Disk == [name : Names, repo : Repos \cup {Nil}, type : {"unset", "VIRTUAL_DISK", "VIRTUAL_CDROM"}]

FileLines(v) == {l \in Range(Config[v]) : l.kind = "file"}
AllLines     == UNION {FileLines(v) : v \in VMs}

HasPrefix(s, p)  == Len(p) <= Len(s) /\ \A n \in 1 .. Len(p) : s[n] = p[n]
Inside(dir, top) == HasPrefix(dir, top) /\ (Len(dir) = Len(top) \/ dir[Len(top) + 1] = "/")
NamesIn(r)       == {l.name : l \in {m \in AllLines : Inside(m.dir, Mount[r])}}

\* Mount points and images are named by identifiers of one length, so that
\* neither a mount point nor a directory beside it extends a mount point, and no
\* name occurs in two repositories.
ASSUME DiscoveryAssumption ==
    /\ IsFiniteSet(Repos) /\ IsFiniteSet(VMs) /\ Nil \notin Repos /\ MaxChanges \in Nat
    /\ Mount \in [Repos -> Seq(Chars)] /\ Config \in [VMs -> Seq(Line)]
    /\ Home \in [VMs -> Repos \cup {Nil}]
    /\ ObjectType \in [Names -> {"VIRTUAL_DISK", "VIRTUAL_CDROM"}]
    /\ \A r, s \in Repos : r # s => ~ HasPrefix(Mount[r], Mount[s])
    /\ \A l \in AllLines, r \in Repos : HasPrefix(l.dir, Mount[r]) => Inside(l.dir, Mount[r])
    /\ \A l, m \in AllLines : l.name = m.name => l.dir = m.dir

VARIABLES
    present,   \* the repositories in the ovs-agent's database
    meta,      \* the images that each repository's .ovsmeta lists
    where,     \* the repository that has the directory of each VM
    changes,
    pc,        \* what the request does next
    goal,      \* find, describe, check or clone: what it reads the repositories for
    op, vm,    \* show, create or list, and the VM it is about or has come to
    order,     \* the repositories that ParseRepos returned
    k,         \* the one that a loop has come to
    todo,      \* the VMs that were found, and that a list has not come to yet
    listed,    \* the list so far: each VM and whether it can be snapshotted
    i,         \* Disks: the line it has come to
    disks,     \* Disks: its result so far
    reply,
    unsure     \* history: the VMs that the last search for VMs may be wrong about, as
               \* they, or the repository they are in, were moved since or missed by it

env  == <<present, meta, where, changes>>
loop == <<order, k, i, disks>>
list == <<todo, listed>>
vars == <<env, pc, goal, op, vm, loop, list, reply, unsure>>

Init ==
    /\ present = Repos /\ meta = [r \in Repos |-> NamesIn(r)]
    /\ where = Home /\ changes = 0
    /\ pc = "idle" /\ goal = "find" /\ op = "show" /\ vm = Nil
    /\ order = << >> /\ k = 1 /\ i = 1 /\ disks = << >>
    /\ todo = << >> /\ listed = << >> /\ reply = "none" /\ unsure = {}

-----------------------------------------------------------------------------
(***************************************************************************)
(* The request.                                                            *)
(***************************************************************************)
Ask ==
    /\ pc = "idle"
    /\ \/ op' \in {"show", "create"} /\ vm' \in VMs
       \/ op' = "list" /\ vm' = Nil
    /\ pc' = "repos" /\ goal' = "find" /\ listed' = << >> /\ reply' = "none"
    /\ UNCHANGED <<env, loop, todo, unsure>>

\* A function that returns takes its local variables with it.
Return == order' = << >> /\ k' = 1 /\ i' = 1 /\ disks' = << >>

Answer(code) ==
    /\ pc' = "idle" /\ goal' = "find" /\ reply' = code /\ Return /\ todo' = << >>
    /\ UNCHANGED <<env, op, vm, listed, unsure>>

\* The repositories of v are read for the next purpose.
Proceed(v, g) ==
    /\ pc' = "repos" /\ goal' = g /\ vm' = v /\ Return
    /\ UNCHANGED <<env, op, listed, reply, unsure>>

Orders(S) == {o \in [1 .. Cardinality(S) -> S] : Range(o) = S}

\* The Berkeley DB gives its records in no particular order, and an error of the
\* cursor is taken for the end of them.
ParseRepos ==
    /\ pc = "repos"
    /\ \E S \in SUBSET present :
         /\ order' \in Orders(S)
         /\ unsure' = IF goal = "find" THEN {v \in VMs : where[v] \in present \ S} ELSE unsure
    /\ pc' = IF goal = "find" THEN "scan" ELSE "resolve"
    /\ UNCHANGED <<env, goal, op, vm, k, i, disks, list, reply>>

\* Fault: every repository starts the list of VMs again.
ScanRepo_Forgets ==
    /\ pc = "scan" /\ k <= Len(order)
    /\ todo' \in Orders({v \in VMs : where[v] = order[k]}) /\ k' = k + 1
    /\ UNCHANGED <<env, pc, goal, op, vm, order, i, disks, listed, reply, unsure>>

\* ListVMs of one repository.
ScanRepo ==
    /\ pc = "scan" /\ k <= Len(order)
    /\ \E found \in Orders({v \in VMs : where[v] = order[k]}) : todo' = todo \o found
    /\ k' = k + 1
    /\ UNCHANGED <<env, pc, goal, op, vm, order, i, disks, listed, reply, unsure>>

\* GetVM, when ListAllVMs has listed them all.
GetVM ==
    /\ pc = "scan" /\ k > Len(order) /\ op # "list"
    /\ \/ /\ vm \in Range(todo)
          /\ Proceed(vm, IF op = "show" THEN "describe" ELSE "check") /\ todo' = << >>
       \/ vm \notin Range(todo) /\ Answer("nosuchvm")

\* Fault: the last VM of the list is left out.
NextVM_OneShort ==
    /\ \/ pc = "scan" /\ k > Len(order) /\ op = "list"
       \/ pc = "next"
    /\ \/ Len(todo) > 1 /\ Proceed(Head(todo), "describe") /\ todo' = Tail(todo)
       \/ Len(todo) <= 1 /\ Answer("listed")

\* Fault: the list does not get past its first VM.
NextVM_Same ==
    /\ \/ pc = "scan" /\ k > Len(order) /\ op = "list"
       \/ pc = "next"
    /\ \/ todo # << >> /\ Proceed(Head(todo), "describe") /\ UNCHANGED todo
       \/ todo = << >> /\ Answer("listed")

\* ListVirtualMachines goes through what ListAllVMs returned.
NextVM ==
    /\ \/ pc = "scan" /\ k > Len(order) /\ op = "list"
       \/ pc = "next"
    /\ \/ todo # << >> /\ Proceed(Head(todo), "describe") /\ todo' = Tail(todo)
       \/ todo = << >> /\ Answer("listed")

(***************************************************************************)
(* VMConfig.Disks: for every line, the repositories in turn.               *)
(***************************************************************************)
Current == Config[vm][i]
AtLine  == pc = "resolve" /\ i <= Len(Config[vm])

\* Fault: the loop over the lines ends at one it cannot use.
SkipLine_Breaks ==
    /\ AtLine /\ Current.kind # "file"
    /\ i' = Len(Config[vm]) + 1
    /\ UNCHANGED <<env, pc, goal, op, vm, order, k, disks, list, reply, unsure>>

SkipLine ==
    /\ AtLine /\ Current.kind # "file"
    /\ i' = i + 1
    /\ UNCHANGED <<env, pc, goal, op, vm, order, k, disks, list, reply, unsure>>

\* Fault: the index is advanced by the body of the loop and by its head.
Found_Twice(repo, type) ==
    /\ disks' = Append(disks, [name |-> Current.name, repo |-> repo, type |-> type])
    /\ i' = i + 2 /\ k' = 1
    /\ UNCHANGED <<env, pc, goal, op, vm, order, list, reply, unsure>>

Found(repo, type) ==
    /\ disks' = Append(disks, [name |-> Current.name, repo |-> repo, type |-> type])
    /\ i' = i + 1 /\ k' = 1
    /\ UNCHANGED <<env, pc, goal, op, vm, order, list, reply, unsure>>

\* Fault: the loop does not get past a repository that is not the disk's.
NextRepo_Stays == k' = k /\ UNCHANGED <<env, pc, goal, op, vm, order, i, disks, list, reply, unsure>>

NextRepo == k' = k + 1 /\ UNCHANGED <<env, pc, goal, op, vm, order, i, disks, list, reply, unsure>>

\* Fault: the arguments of the prefix test are swapped.
TryRepo_Swapped ==
    /\ AtLine /\ Current.kind = "file" /\ k <= Len(order)
    /\ LET r == order[k] IN
       \/ Current.name \in meta[r] /\ Found(r, ObjectType[Current.name])
       \/ HasPrefix(Mount[r], Current.dir) /\ Found(r, "unset")
       \/ ~ HasPrefix(Mount[r], Current.dir) /\ NextRepo

\* The metadata of the repository may list the image; if it does not, or cannot
\* be read, the path may start with the mount point.
TryRepo ==
    /\ AtLine /\ Current.kind = "file" /\ k <= Len(order)
    /\ LET r == order[k] IN
       \/ Current.name \in meta[r] /\ Found(r, ObjectType[Current.name])
       \/ HasPrefix(Current.dir, Mount[r]) /\ Found(r, "unset")
       \/ ~ HasPrefix(Current.dir, Mount[r]) /\ NextRepo

\* A disk in no repository keeps the zero Repo and no type.
NoRepo ==
    /\ AtLine /\ Current.kind = "file" /\ k > Len(order)
    /\ Found(Nil, "unset")

\* Fault: the kind of the file system is not looked at.
CanClone_AnyFilesystem(d) == d.repo # Nil /\ d.type # "VIRTUAL_CDROM"

CanClone(d) ==
    /\ d.repo # Nil /\ Filesystem[d.repo] = "ocfs2"
    /\ d.type \in {"unset", "VIRTUAL_DISK"}

AllCloneable == \A n \in DOMAIN disks : CanClone(disks[n])

\* VMConfig.CanClone has answered.
Verdict(ok) ==
    \/ op = "show" /\ Answer(IF ok THEN "compatible" ELSE "incompatible")
    \/ /\ op = "list" /\ pc' = "next" /\ Return
       /\ listed' = Append(listed, [vm |-> vm, ok |-> ok])
       /\ UNCHANGED <<env, goal, op, vm, todo, reply, unsure>>
    \/ op = "create" /\ ok /\ Proceed(vm, "clone") /\ UNCHANGED todo
    \/ op = "create" /\ ~ ok /\ Answer("badrequest")

\* What Disks returned is put into the reply, looked at by VMConfig.CanClone, or
\* cloned; Disk.CreateSnapshot looks again at each disk.
Resolved ==
    /\ pc = "resolve" /\ i > Len(Config[vm])
    /\ \/ goal = "describe" /\ Proceed(vm, "check") /\ UNCHANGED todo
       \/ goal = "check" /\ Verdict(AllCloneable)
       \/ goal = "clone" /\ Answer(IF AllCloneable THEN "accepted" ELSE "badrequest")

\* The repositories cannot be read, or one of them has no directory of VMs, or a
\* vm.cfg that cannot be parsed.  CanClone takes this for a disk it cannot clone.
\* The identifiers of the snapshots, read for the details of a VM, may fail as well.
ReadFails ==
    \/ pc \in {"repos", "scan"} /\ goal # "check" /\ Answer("error")
    \/ pc = "repos" /\ goal = "check" /\ Verdict(FALSE)
    \/ pc = "resolve" /\ i > Len(Config[vm]) /\ goal = "describe" /\ Answer("error")

Advance == ParseRepos \/ ScanRepo \/ GetVM \/ NextVM \/ SkipLine \/ TryRepo \/ NoRepo \/ Resolved

-----------------------------------------------------------------------------
(***************************************************************************)
(* The administrator.                                                      *)
(***************************************************************************)
Change(concerned) ==
    /\ changes < MaxChanges
    /\ changes' = changes + 1
    /\ unsure' = unsure \cup concerned
    /\ UNCHANGED <<pc, goal, op, vm, loop, list, reply>>

\* A repository is presented to the host or taken from it.
PresentRepo(r) ==
    /\ Change({v \in VMs : where[v] = r})
    /\ present' = (present \cup {r}) \ (present \cap {r})
    /\ UNCHANGED <<meta, where>>

RefreshMeta(r) ==
    /\ Change({})
    /\ \E names \in SUBSET NamesIn(r) : meta' = [meta EXCEPT ![r] = names]
    /\ UNCHANGED <<present, where>>

\* A VM is created, deleted, or moved to another repository.
MoveVM(v) ==
    /\ Change({v})
    /\ \E r \in Repos \cup {Nil} : where' = [where EXCEPT ![v] = r]
    /\ UNCHANGED <<present, meta>>

Next ==
    \/ Ask \/ Advance \/ ReadFails
    \/ \E r \in Repos : PresentRepo(r) \/ RefreshMeta(r)
    \/ \E v \in VMs : MoveVM(v)

Spec == Init /\ [][Next]_vars

\* The goroutine of the request is scheduled, and no read blocks for ever.
FairSpec == Spec /\ WF_vars(Advance)

-----------------------------------------------------------------------------
(***************************************************************************)
(* Properties.                                                             *)
(***************************************************************************)
Codes == {"none", "nosuchvm", "error", "badrequest", "compatible", "incompatible", "accepted", "listed"}

\* Every variable has its type, and a loop that indexes stays within bounds.
TypeOK ==
    /\ present \subseteq Repos /\ meta \in [Repos -> SUBSET Names]
    /\ where \in [VMs -> Repos \cup {Nil}] /\ changes \in 0 .. MaxChanges
    /\ pc \in {"idle", "repos", "scan", "next", "resolve"}
    /\ goal \in {"find", "describe", "check", "clone"} /\ op \in {"show", "create", "list"}
    /\ vm \in VMs \/ (goal = "find" /\ pc # "resolve" /\ (op = "list" \/ pc = "idle"))
    /\ order \in Seq(Repos) /\ k \in 1 .. Len(order) + 1
    /\ todo \in Seq(VMs) /\ listed \in Seq([vm : VMs, ok : BOOLEAN])
    /\ i \in Nat \ {0} /\ (pc = "resolve" => i <= Len(Config[vm]) + 1)
    /\ disks \in Seq(Disk) /\ reply \in Codes /\ unsure \subseteq VMs

\* Disks finds the right repository of every disk that is in one the host has,
\* in whatever order they come and whichever metadata is there to be read.
ResolvedRight ==
    pc = "resolve" => \A n \in DOMAIN disks, l \in FileLines(vm) : l.name = disks[n].name =>
        IF disks[n].repo = Nil THEN \A r \in Range(order) : ~ Inside(l.dir, Mount[r])
                               ELSE Inside(l.dir, Mount[disks[n].repo])

\* Disks leaves out no disk: those it has been through so far are the lines it
\* can use, in their order.
FilesUpTo(n) == {m \in 1 .. n : Config[vm][m].kind = "file"}
NoDiskLost ==
    pc = "resolve" =>
        /\ Len(disks) = Cardinality(FilesUpTo(i - 1))
        /\ \A n \in FilesUpTo(i - 1) : disks[Cardinality(FilesUpTo(n))].name = Config[vm][n].name

\* A VM with an image that is not on OCFS2 is never snapshotted nor shown as fit for
\* it, although the disks are resolved anew for every purpose and repositories
\* and metadata change in between.  Of its physical disks this says nothing.
Supported(l) ==
    l.kind = "file" /\ \E r \in Repos : Inside(l.dir, Mount[r]) /\ Filesystem[r] = "ocfs2"
ImagesAreSupported ==
    /\ reply \in {"compatible", "accepted"} => \A l \in FileLines(vm) : Supported(l)
    /\ \A n \in DOMAIN listed : listed[n].ok => \A l \in FileLines(listed[n].vm) : Supported(l)

\* Every disk attached to a VM that is accepted can be cloned, as the comments of
\* VMConfig.CanClone and SnapshotManager.CreateSnapshot have it.
Attached(v) == {l \in Range(Config[v]) : l.kind \in {"file", "phy"}}
AllDisksSupported ==
    reply \in {"compatible", "accepted"} => \A l \in Attached(vm) : Supported(l)

\* A VM is reported missing only if it is in none of the host's repositories, or it
\* was moved, or its own repository was missed, presented or taken, meanwhile.
MissingIsMissing == reply = "nosuchvm" /\ vm \in VMs \ unsure => where[vm] \notin present

\* The list has every VM of the host once, and no other, whatever happens meanwhile
\* to other VMs and repositories.
ListIsComplete ==
    reply = "listed" => \A v \in VMs \ unsure :
        /\ where[v] \in present <=> \E n \in DOMAIN listed : listed[n].vm = v
        /\ \A m, n \in DOMAIN listed : listed[m].vm = v /\ listed[n].vm = v => m = n

(***************************************************************************)
(* What bounds a request, from the most significant: whether it still has  *)
(* to look for VMs, the VMs of a list it has not come to, the purposes it  *)
(* reads the repositories for, and the loops over lines and repositories.  *)
(***************************************************************************)
Finding  == pc \in {"repos", "scan"} /\ goal = "find"
Purposes == CASE pc = "idle"                        -> 0
              [] pc = "next"                        -> 1
              [] pc \notin {"idle", "next"}         ->
                   [clone |-> 2, check |-> 3, describe |-> 4, find |-> 5][goal]
Phases   == [repos |-> 2, scan |-> 1, resolve |-> 1, next |-> 0, idle |-> 0]
Left     == << IF Finding THEN 1 ELSE 0,
               IF Finding THEN 0 ELSE Len(todo),
               Purposes,
               Phases[pc],
               IF pc = "resolve" THEN Len(Config[vm]) + 1 - i ELSE 0,
               Len(order) + 1 - k >>

Less(a, b) == \E n \in DOMAIN b : 0 <= a[n] /\ a[n] < b[n] /\ \A m \in 1 .. n - 1 : a[m] = b[m]

\* Whatever a read returns, and whatever the administrator has changed since the one
\* before, each step of a request leaves it less to do: no VM is described twice, and
\* no purpose is gone back to when the repositories are read afresh.
LessToDo == Advance \/ ReadFails => Less(Left', Left)
RequestsComeToAnEnd == [][LessToDo]_vars

\* Every request is answered.
Answered == pc # "idle" ~> pc = "idle"
=============================================================================
