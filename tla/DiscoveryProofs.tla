--------------------------- MODULE DiscoveryProofs ---------------------------
(***************************************************************************)
(* Proofs about discovery, for any repositories, VMs and changes to them:  *)
(* Disks finds the right repository of every image and loses none, a VM    *)
(* with an image that is not on OCFS2 is never accepted, and a VM is       *)
(* called missing, or left out of the list of all, only for a reason.      *)
(***************************************************************************)
EXTENDS Discovery, FiniteSetTheorems, SequenceTheorems, TLAPS

\* Metadata lists images of its own repository only.
MetaInv == \A r \in Repos : meta[r] \subseteq NamesIn(r)

\* The repositories that were tried for the current line do not have it.
TriedInv ==
    AtLine => /\ Current.kind # "file" => k = 1
              /\ \A n \in 1 .. k - 1 : ~ HasPrefix(Current.dir, Mount[order[n]])

\* Every line that is done with and is a file has its disk.
DoneInv ==
    pc = "resolve" => \A n \in 1 .. i - 1 : Config[vm][n].kind = "file" =>
        \E m \in DOMAIN disks : disks[m].name = Config[vm][n].name

\* No loop is running yet.
RestInv ==
    pc \in {"idle", "repos", "next"} =>
        order = << >> /\ k = 1 /\ i = 1 /\ disks = << >>

\* A request that is being served has not been answered.
ServedInv == pc # "idle" => reply = "none"

DiscoveryInv ==
    /\ TypeOK /\ RestInv /\ ServedInv /\ MetaInv
    /\ TriedInv /\ DoneInv /\ ResolvedRight /\ ImagesAreSupported

-----------------------------------------------------------------------------
LEMMA OrderOK ==
    ASSUME NEW S \in SUBSET Repos, NEW o \in [1 .. Cardinality(S) -> S]
    PROVE  o \in Seq(Repos)
  <1>1. Cardinality(S) \in Nat
    BY DiscoveryAssumption, FS_Subset, FS_CardinalityType
  <1> HIDE DEF Cardinality
  <1>2. o \in [1 .. Cardinality(S) -> Repos]
    OBVIOUS
  <1> QED  BY <1>1, <1>2

\* The VMs in a repository, in any order.
LEMMA FoundVMsOK ==
    ASSUME NEW S \in SUBSET VMs, NEW o \in [1 .. Cardinality(S) -> S]
    PROVE  o \in Seq(VMs)
  <1>1. Cardinality(S) \in Nat
    BY DiscoveryAssumption, FS_Subset, FS_CardinalityType
  <1> HIDE DEF Cardinality
  <1>2. o \in [1 .. Cardinality(S) -> VMs]
    OBVIOUS
  <1> QED  BY <1>1, <1>2

LEMMA LineOK ==
    ASSUME TypeOK, AtLine
    PROVE  /\ vm \in VMs /\ i \in DOMAIN Config[vm] /\ i \in Nat
           /\ Current \in Line
           /\ Current.kind = "file" => Current \in FileLines(vm) /\ Current \in AllLines
  <1>1. vm \in VMs /\ Config[vm] \in Seq(Line) /\ i \in Nat \ {0} /\ i <= Len(Config[vm])
    BY DiscoveryAssumption DEF TypeOK, AtLine
  <1>2. i \in DOMAIN Config[vm]
    BY <1>1
  <1>3. Current \in Line
    BY <1>1, <1>2 DEF Current
  <1>4. Current \in Range(Config[vm])
    BY <1>2 DEF Current, Range
  <1> QED  BY <1>1, <1>2, <1>3, <1>4 DEF FileLines, AllLines

LEMMA AppendOK ==
    ASSUME NEW S, NEW t \in Seq(S), NEW x \in S
    PROVE  /\ Append(t, x) \in Seq(S)
           /\ DOMAIN Append(t, x) = DOMAIN t \cup {Len(t) + 1} /\ Len(t) + 1 \notin DOMAIN t
           /\ Append(t, x)[Len(t) + 1] = x
           /\ \A n \in DOMAIN t : Append(t, x)[n] = t[n]
  BY AppendProperties, LenProperties

-----------------------------------------------------------------------------
LEMMA NamesOK ==
    \A r \in Repos : NamesIn(r) \subseteq Names
  <1>1. \A l \in AllLines : l \in Line
    BY DiscoveryAssumption DEF AllLines, FileLines, Range
  <1> QED  BY <1>1 DEF NamesIn, Line

LEMMA EmptyOK ==
    /\ << >> \in Seq(Repos) /\ << >> \in Seq(Disk) /\ 1 \in 1 .. Len(<< >>) + 1
    /\ << >> \in Seq(VMs) /\ << >> \in Seq([vm : VMs, ok : BOOLEAN])
    /\ DOMAIN << >> = {}
  OBVIOUS

LEMMA DiscoveryInit ==
    Init => DiscoveryInv
  <1> SUFFICES ASSUME Init PROVE DiscoveryInv
    OBVIOUS
  <1>1. \A r \in Repos : NamesIn(r) \subseteq Names
    BY NamesOK
  <1>2. /\ present \subseteq Repos /\ meta \in [Repos -> SUBSET Names]
        /\ where \in [VMs -> Repos \cup {Nil}] /\ changes \in 0 .. MaxChanges
    BY <1>1, DiscoveryAssumption DEF Init
  <1>3. /\ order \in Seq(Repos) /\ k \in 1 .. Len(order) + 1 /\ disks \in Seq(Disk)
        /\ todo \in Seq(VMs) /\ listed \in Seq([vm : VMs, ok : BOOLEAN])
    BY EmptyOK DEF Init
  <1>4. /\ pc = "idle" /\ goal = "find" /\ op = "show" /\ i \in Nat \ {0} /\ reply \in Codes
    <2>1. i = 1 /\ reply = "none"
      BY DEF Init
    <2> QED  BY <2>1 DEF Init, Codes
  <1>5. unsure \subseteq VMs
    BY DEF Init
  <1>6. TypeOK
    BY <1>2, <1>3, <1>4, <1>5 DEF TypeOK
  <1> QED
    BY <1>6, EmptyOK DEF Init, DiscoveryInv, RestInv, ServedInv, MetaInv, TriedInv, AtLine, DoneInv,
       ResolvedRight, ImagesAreSupported

\* The request is outside of Disks.
LEMMA Returned ==
    ASSUME DiscoveryInv, UNCHANGED env, Return, pc' \in {"idle", "repos", "next"},
           goal' \in {"find", "describe", "check", "clone"}, op' \in {"show", "create", "list"},
           vm' \in VMs \/ (goal' = "find" /\ (op' = "list" \/ pc' = "idle")),
           todo' \in Seq(VMs), listed' \in Seq([vm : VMs, ok : BOOLEAN]),
           reply' \in Codes, unsure' \subseteq VMs, ServedInv', ImagesAreSupported'
    PROVE  DiscoveryInv'
  <1>1. order' \in Seq(Repos) /\ k' \in 1 .. Len(order') + 1 /\ disks' \in Seq(Disk)
    BY EmptyOK DEF Return
  <1>2. /\ present' \subseteq Repos /\ meta' \in [Repos -> SUBSET Names]
        /\ where' \in [VMs -> Repos \cup {Nil}] /\ changes' \in 0 .. MaxChanges
    BY DEF DiscoveryInv, TypeOK, env
  <1>3. i' \in Nat \ {0}
    BY DEF Return
  <1>4. TypeOK'
    BY <1>1, <1>2, <1>3 DEF TypeOK
  <1> QED
    BY <1>4 DEF DiscoveryInv, RestInv, Return, MetaInv, env, TriedInv, AtLine, DoneInv, ResolvedRight

LEMMA AskInv ==
    ASSUME DiscoveryInv, Ask
    PROVE  DiscoveryInv'
  <1>1. Return
    BY DEF Ask, DiscoveryInv, RestInv, loop, Return
  <1>2. todo' \in Seq(VMs) /\ listed' \in Seq([vm : VMs, ok : BOOLEAN]) /\ DOMAIN listed' = {}
    BY EmptyOK DEF Ask, DiscoveryInv, TypeOK
  <1>3. reply' = "none" /\ unsure' \subseteq VMs
    BY DEF Ask, DiscoveryInv, TypeOK
  <1>4. ServedInv' /\ ImagesAreSupported'
    BY <1>2, <1>3 DEF ServedInv, ImagesAreSupported
  <1> QED  BY <1>1, <1>2, <1>3, <1>4, Returned DEF Ask, Codes

\* A step that ends the request, with no answer that accepts the VM.
LEMMA AnswerInv ==
    ASSUME DiscoveryInv, NEW code \in Codes, Answer(code),
           code \in {"compatible", "accepted"} => \A l \in FileLines(vm) : Supported(l)
    PROVE  DiscoveryInv'
  <1>1. todo' \in Seq(VMs) /\ listed' \in Seq([vm : VMs, ok : BOOLEAN])
    BY EmptyOK DEF Answer, DiscoveryInv, TypeOK
  <1>2. ServedInv' /\ ImagesAreSupported'
    BY DEF Answer, ServedInv, DiscoveryInv, ImagesAreSupported, FileLines, Supported
  <1> QED  BY <1>1, <1>2, Returned DEF Answer, DiscoveryInv, TypeOK

\* The repositories are read again, for the same VM or for the next one of a list.
LEMMA ProceedInv ==
    ASSUME DiscoveryInv, pc # "idle", NEW v \in VMs, NEW g \in {"describe", "check", "clone"},
           Proceed(v, g), todo' \in Seq(VMs)
    PROVE  DiscoveryInv'
  <1>1. reply = "none" /\ reply' = "none"
    BY DEF DiscoveryInv, ServedInv, Proceed
  <1>2. ServedInv' /\ ImagesAreSupported'
    BY <1>1 DEF Proceed, ServedInv, DiscoveryInv, ImagesAreSupported, FileLines, Supported
  <1> QED  BY <1>1, <1>2, Returned DEF Proceed, DiscoveryInv, TypeOK

LEMMA ParseReposInv ==
    ASSUME DiscoveryInv, ParseRepos
    PROVE  DiscoveryInv'
  <1>1. order' \in Seq(Repos) /\ unsure' \subseteq VMs
    BY OrderOK DEF ParseRepos, Orders, DiscoveryInv, TypeOK
  <1>2. k' = 1 /\ i' = 1 /\ disks' = << >>
    BY DEF ParseRepos, DiscoveryInv, RestInv
  <1>3. pc' = "resolve" => vm \in VMs /\ Len(Config[vm]) \in Nat
    BY DiscoveryAssumption DEF DiscoveryInv, TypeOK, ParseRepos
  <1>4. Len(order') \in Nat
    BY <1>1
  <1>5. TypeOK'
    BY <1>1, <1>2, <1>3, <1>4, EmptyOK DEF DiscoveryInv, TypeOK, ParseRepos, env, list
  <1> QED
    BY <1>2, <1>5, EmptyOK DEF DiscoveryInv, ParseRepos, RestInv, ServedInv, MetaInv, env, list,
       TriedInv, AtLine, DoneInv, ResolvedRight, ImagesAreSupported, FileLines

LEMMA ScanRepoInv ==
    ASSUME DiscoveryInv, ScanRepo
    PROVE  DiscoveryInv'
  <1>1. TypeOK'
    <2>1. order \in Seq(Repos) /\ k \in 1 .. Len(order) + 1 /\ k <= Len(order)
      BY DEF DiscoveryInv, TypeOK, ScanRepo
    <2>2. k + 1 \in 1 .. Len(order) + 1
      BY <2>1
    <2>3. todo' \in Seq(VMs)
      <3>1. PICK found \in Orders({v \in VMs : where[v] = order[k]}) : todo' = todo \o found
        BY DEF ScanRepo
      <3>2. found \in Seq(VMs)
        BY <3>1, FoundVMsOK DEF Orders
      <3>3. todo \in Seq(VMs)
        BY DEF DiscoveryInv, TypeOK
      <3> QED  BY <3>1, <3>2, <3>3
    <2> QED  BY <2>2, <2>3 DEF DiscoveryInv, TypeOK, ScanRepo, env
  <1> QED
    BY <1>1 DEF DiscoveryInv, ScanRepo, RestInv, ServedInv, MetaInv, env, TriedInv, AtLine, DoneInv,
       ResolvedRight, ImagesAreSupported, FileLines

LEMMA GetVMInv ==
    ASSUME DiscoveryInv, GetVM
    PROVE  DiscoveryInv'
  <1>1. vm \in VMs
    BY DEF DiscoveryInv, TypeOK, GetVM
  <1>2. ASSUME NEW g \in {"describe", "check"}, Proceed(vm, g), todo' = << >>
        PROVE  DiscoveryInv'
    BY <1>1, <1>2, EmptyOK, ProceedInv DEF GetVM
  <1>3. CASE Answer("nosuchvm")
    BY <1>3, AnswerInv DEF Codes
  <1> QED  BY <1>2, <1>3 DEF GetVM

LEMMA NextVMInv ==
    ASSUME DiscoveryInv, NextVM
    PROVE  DiscoveryInv'
  <1>1. todo \in Seq(VMs) /\ pc # "idle"
    BY DEF DiscoveryInv, TypeOK, NextVM
  <1>2. ASSUME todo # << >>, Proceed(Head(todo), "describe"), todo' = Tail(todo)
        PROVE  DiscoveryInv'
    <2>1. Head(todo) \in VMs /\ Tail(todo) \in Seq(VMs)
      BY <1>1, <1>2
    <2> QED  BY <1>1, <1>2, <2>1, ProceedInv
  <1>3. CASE Answer("listed")
    BY <1>3, AnswerInv DEF Codes
  <1> QED  BY <1>2, <1>3 DEF NextVM

\* After a loop that has been through all the lines, a VM is accepted for its disks.
LEMMA Accepted ==
    ASSUME DiscoveryInv, pc = "resolve", i > Len(Config[vm]), AllCloneable
    PROVE  \A l \in FileLines(vm) : Supported(l)
  <1> SUFFICES ASSUME NEW l \in FileLines(vm) PROVE Supported(l)
    OBVIOUS
  <1>1. vm \in VMs /\ Config[vm] \in Seq(Line) /\ i \in Nat
    BY DiscoveryAssumption DEF DiscoveryInv, TypeOK
  <1>2. PICK n \in DOMAIN Config[vm] : Config[vm][n] = l
    BY DEF FileLines, Range
  <1>3. n \in 1 .. i - 1 /\ l.kind = "file"
    BY <1>1, <1>2 DEF FileLines
  <1>4. PICK m \in DOMAIN disks : disks[m].name = l.name
    BY <1>2, <1>3 DEF DiscoveryInv, DoneInv
  <1>5. disks[m].repo # Nil /\ Filesystem[disks[m].repo] = "ocfs2"
    BY <1>4 DEF AllCloneable, CanClone
  <1>6. Inside(l.dir, Mount[disks[m].repo])
    BY <1>4, <1>5 DEF DiscoveryInv, ResolvedRight
  <1>7. disks[m].repo \in Repos
    <2>1. disks \in Seq(Disk)
      BY DEF DiscoveryInv, TypeOK
    <2>2. disks[m] \in Disk
      BY <1>4, <2>1
    <2> QED  BY <1>5, <2>2 DEF Disk
  <1> QED  BY <1>3, <1>5, <1>6, <1>7 DEF Supported

\* CanClone's answer may only be that it can when the disks of the VM are supported.
LEMMA VerdictInv ==
    ASSUME DiscoveryInv, pc # "idle", goal = "check", NEW ok \in BOOLEAN, Verdict(ok),
           ok => \A l \in FileLines(vm) : Supported(l)
    PROVE  DiscoveryInv'
  <1>1. vm \in VMs /\ todo \in Seq(VMs) /\ reply = "none"
    BY DEF DiscoveryInv, TypeOK, ServedInv
  <1>2. ASSUME NEW code \in {"compatible", "incompatible", "badrequest"}, Answer(code),
               code = "compatible" => ok
        PROVE  DiscoveryInv'
    <2>1. code \in Codes /\ (code \in {"compatible", "accepted"} => ok)
      BY <1>2 DEF Codes
    <2> QED  BY <1>2, <2>1, AnswerInv
  <1>3. CASE Proceed(vm, "clone") /\ UNCHANGED todo
    BY <1>1, <1>3, ProceedInv
  <1>4. ASSUME op = "list", pc' = "next", Return, listed' = Append(listed, [vm |-> vm, ok |-> ok]),
               UNCHANGED <<env, goal, op, vm, todo, reply, unsure>>
        PROVE  DiscoveryInv'
    <2> DEFINE e == [vm |-> vm, ok |-> ok]
    <2>1. e \in [vm : VMs, ok : BOOLEAN] /\ e.vm = vm /\ e.ok = ok
      BY <1>1
    <2>2. listed \in Seq([vm : VMs, ok : BOOLEAN]) /\ listed' = Append(listed, e)
      BY <1>4 DEF DiscoveryInv, TypeOK
    <2> HIDE DEF e
    <2>3. /\ listed' \in Seq([vm : VMs, ok : BOOLEAN])
          /\ DOMAIN listed' = DOMAIN listed \cup {Len(listed) + 1}
          /\ listed'[Len(listed) + 1] = e
          /\ \A n \in DOMAIN listed : listed'[n] = listed[n]
      BY <2>1, <2>2, AppendOK
    <2>4. ServedInv' /\ reply' = "none"
      BY <1>1, <1>4 DEF ServedInv
    <2>5. ImagesAreSupported'
      <3> SUFFICES ASSUME NEW n \in DOMAIN listed', listed'[n].ok, NEW l \in FileLines(listed'[n].vm)
                   PROVE  Supported(l)
        BY <2>4 DEF ImagesAreSupported, FileLines, Supported
      <3>1. CASE n \in DOMAIN listed
        BY <2>3, <3>1 DEF DiscoveryInv, ImagesAreSupported
      <3>2. CASE n = Len(listed) + 1
        BY <2>1, <2>3, <3>2
      <3> QED  BY <2>3, <3>1, <3>2
    <2> QED  BY <1>1, <1>4, <2>3, <2>4, <2>5, Returned DEF DiscoveryInv, TypeOK
  <1> QED  BY <1>2, <1>3, <1>4 DEF Verdict

LEMMA ResolvedInv ==
    ASSUME DiscoveryInv, Resolved
    PROVE  DiscoveryInv'
  <1>1. vm \in VMs /\ pc # "idle" /\ todo \in Seq(VMs) /\ AllCloneable \in BOOLEAN
    BY DEF DiscoveryInv, TypeOK, Resolved, AllCloneable
  <1>2. AllCloneable => \A l \in FileLines(vm) : Supported(l)
    BY Accepted DEF Resolved
  <1>3. CASE Proceed(vm, "check") /\ UNCHANGED todo
    BY <1>1, <1>3, ProceedInv
  <1>4. CASE goal = "check" /\ Verdict(AllCloneable)
    BY <1>1, <1>2, <1>4, VerdictInv
  <1>5. ASSUME NEW code \in {"accepted", "badrequest"}, Answer(code), code = "accepted" => AllCloneable
        PROVE  DiscoveryInv'
    <2>1. code \in Codes /\ (code \in {"compatible", "accepted"} => AllCloneable)
      BY <1>5 DEF Codes
    <2> QED  BY <1>2, <1>5, <2>1, AnswerInv
  <1> QED  BY <1>3, <1>4, <1>5 DEF Resolved

LEMMA ReadFailsInv ==
    ASSUME DiscoveryInv, ReadFails
    PROVE  DiscoveryInv'
  <1>1. CASE Answer("error")
    BY <1>1, AnswerInv DEF Codes
  <1>2. CASE goal = "check" /\ Verdict(FALSE)
    BY <1>2, VerdictInv DEF ReadFails
  <1> QED  BY <1>1, <1>2 DEF ReadFails

-----------------------------------------------------------------------------
(***************************************************************************)
(* The loops of Disks.                                                     *)
(***************************************************************************)
\* What Disks has to find for a line, given the repositories it has to look in.
Right(l, repo, repos) ==
    IF repo = Nil THEN \A r \in repos : ~ Inside(l.dir, Mount[r])
                  ELSE Inside(l.dir, Mount[repo])

LEMMA FoundInv ==
    ASSUME DiscoveryInv, AtLine, Current.kind = "file", NEW repo \in Repos \cup {Nil},
           NEW kind \in {"unset", "VIRTUAL_DISK", "VIRTUAL_CDROM"},
           Right(Current, repo, Range(order)),
           disks' = Append(disks, [name |-> Current.name, repo |-> repo, type |-> kind]),
           i' = i + 1, k' = 1,
           UNCHANGED <<env, pc, goal, op, vm, order, list, reply, unsure>>
    PROVE  DiscoveryInv'
  <1> DEFINE d == [name |-> Current.name, repo |-> repo, type |-> kind]
  <1>0. TypeOK
    BY DEF DiscoveryInv
  <1>1. /\ vm \in VMs /\ i \in DOMAIN Config[vm] /\ i \in Nat /\ Current \in Line
        /\ Current \in AllLines
    BY <1>0, LineOK
  <1>2. d \in Disk
    BY <1>1 DEF Line, Disk
  <1>3. disks' = Append(disks, d) /\ i' = i + 1 /\ k' = 1 /\ vm' = vm /\ order' = order
    OBVIOUS
  <1>11. i \in Nat
    BY <1>1
  <1>4. /\ disks' \in Seq(Disk) /\ DOMAIN disks' = DOMAIN disks \cup {Len(disks) + 1}
        /\ disks'[Len(disks) + 1] = d /\ \A n \in DOMAIN disks : disks'[n] = disks[n]
    <2>1. disks \in Seq(Disk)
      BY <1>0 DEF TypeOK
    <2> HIDE DEF d
    <2>2. /\ Append(disks, d) \in Seq(Disk)
          /\ DOMAIN Append(disks, d) = DOMAIN disks \cup {Len(disks) + 1}
          /\ Append(disks, d)[Len(disks) + 1] = d
          /\ \A n \in DOMAIN disks : Append(disks, d)[n] = disks[n]
      BY <1>2, <2>1, AppendOK
    <2>3. disks' = Append(disks, d)
      BY <1>3
    <2> QED  BY <2>2, <2>3, Zenon
  <1>5. d.name = Current.name /\ d.repo = repo
    OBVIOUS
  <1> HIDE DEF d
  <1>6. i + 1 \in Nat \ {0} /\ i + 1 <= Len(Config[vm]) + 1 /\ 1 \in 1 .. Len(order) + 1
    <2>1. order \in Seq(Repos)
      BY <1>0 DEF TypeOK
    <2>2. Len(order) \in Nat
      BY <2>1
    <2>3. Config[vm] \in Seq(Line)
      BY <1>1, DiscoveryAssumption
    <2>4. Len(Config[vm]) \in Nat
      BY <2>3
    <2>5. i <= Len(Config[vm])
      BY DEF AtLine
    <2> QED  BY <1>11, <2>2, <2>4, <2>5
  <1>7. TypeOK'
    BY <1>0, <1>3, <1>4, <1>6 DEF TypeOK, env, list, AtLine
  <1>8. DoneInv'
    <2>1. ASSUME NEW n \in 1 .. i, Config[vm][n].kind = "file"
          PROVE  \E m \in DOMAIN disks' : disks'[m].name = Config[vm][n].name
      <3>1. CASE n = i
        BY <1>4, <1>5, <3>1 DEF Current
      <3>2. CASE n \in 1 .. i - 1
        <4>1. PICK m \in DOMAIN disks : disks[m].name = Config[vm][n].name
          BY <2>1, <3>2 DEF DiscoveryInv, DoneInv, AtLine
        <4> QED  BY <1>4, <4>1
      <3>3. n = i \/ n \in 1 .. i - 1
        BY <1>11, <2>1
      <3> QED  BY <3>1, <3>2, <3>3
    <2>2. i' = i + 1 /\ vm' = vm
      BY <1>3
    <2>3. i' - 1 = i
      BY <1>11, <2>2
    <2> QED  BY <2>1, <2>2, <2>3 DEF DoneInv
  <1>9. ResolvedRight'
    <2> SUFFICES ASSUME NEW n \in DOMAIN disks', NEW l \in FileLines(vm), l.name = disks'[n].name
                 PROVE  Right(l, disks'[n].repo, Range(order))
      BY DEF ResolvedRight, Right, FileLines
    <2>1. CASE n \in DOMAIN disks
      BY <1>4, <2>1 DEF DiscoveryInv, ResolvedRight, AtLine, Right
    <2>2. CASE n = Len(disks) + 1
      <3>1. l.dir = Current.dir
        BY <1>1, <1>4, <1>5, <2>2, DiscoveryAssumption DEF AllLines
      <3> QED  BY <1>4, <1>5, <2>2, <3>1 DEF Right
    <2> QED  BY <1>4, <2>1, <2>2
  <1>10. TriedInv'
    <2>1. k' = 1
      BY <1>3
    <2>2. 1 .. k' - 1 = {}
      BY <2>1
    <2> QED  BY <2>1, <2>2 DEF TriedInv
  <1> QED
    BY <1>7, <1>8, <1>9, <1>10 DEF DiscoveryInv, RestInv, ServedInv, MetaInv, env, list, AtLine,
       ImagesAreSupported, FileLines

LEMMA TryRepoInv ==
    ASSUME DiscoveryInv, TryRepo
    PROVE  DiscoveryInv'
  <1>1. /\ AtLine /\ Current.kind = "file" /\ order \in Seq(Repos)
        /\ k \in 1 .. Len(order) + 1 /\ k <= Len(order)
    BY DEF TryRepo, DiscoveryInv, TypeOK
  <1>2. PICK r \in Repos : r = order[k]
    BY <1>1
  <1>3. Current \in AllLines /\ Current \in Line
    BY <1>1, LineOK DEF DiscoveryInv
  <1>4. ASSUME Current.name \in meta[r], Found(r, ObjectType[Current.name])
        PROVE  DiscoveryInv'
    <2>1. PICK m \in AllLines : m.name = Current.name /\ Inside(m.dir, Mount[r])
      BY <1>4 DEF DiscoveryInv, MetaInv, NamesIn
    <2>2. m.dir = Current.dir
      BY <1>3, <2>1, DiscoveryAssumption
    <2>3. ObjectType[Current.name] \in {"unset", "VIRTUAL_DISK", "VIRTUAL_CDROM"}
      BY <1>3, DiscoveryAssumption DEF Line
    <2>4. Right(Current, r, Range(order))
      BY <2>1, <2>2, DiscoveryAssumption DEF Right
    <2> QED  BY <1>1, <1>4, <2>3, <2>4, FoundInv DEF Found
  <1>5. ASSUME HasPrefix(Current.dir, Mount[r]), Found(r, "unset")
        PROVE  DiscoveryInv'
    <2>1. Right(Current, r, Range(order))
      BY <1>3, <1>5, DiscoveryAssumption DEF Right
    <2> QED  BY <1>1, <1>5, <2>1, FoundInv DEF Found
  <1>6. ASSUME ~ HasPrefix(Current.dir, Mount[r]), NextRepo
        PROVE  DiscoveryInv'
    <2>1. k' = k + 1 /\ k + 1 \in 1 .. Len(order) + 1
      BY <1>1, <1>6 DEF NextRepo
    <2>2. TypeOK'
      BY <1>6, <2>1 DEF DiscoveryInv, TypeOK, NextRepo, env, list
    <2>3. TriedInv'
      <3> SUFFICES ASSUME NEW n \in 1 .. k PROVE ~ HasPrefix(Current.dir, Mount[order[n]])
        BY <1>1, <1>6, <2>1 DEF TriedInv, NextRepo, Current
      <3>1. CASE n = k
        BY <1>2, <1>6, <3>1
      <3>2. CASE n \in 1 .. k - 1
        BY <1>1, <3>2 DEF DiscoveryInv, TriedInv
      <3> QED  BY <1>1, <3>1, <3>2
    <2> QED
      BY <1>1, <1>6, <2>2, <2>3 DEF DiscoveryInv, RestInv, ServedInv, MetaInv, env, list, NextRepo, DoneInv, AtLine,
         ResolvedRight, ImagesAreSupported, FileLines
  <1> QED  BY <1>2, <1>4, <1>5, <1>6 DEF TryRepo

LEMMA NoRepoInv ==
    ASSUME DiscoveryInv, NoRepo
    PROVE  DiscoveryInv'
  <1>1. /\ AtLine /\ Current.kind = "file" /\ order \in Seq(Repos)
        /\ k \in 1 .. Len(order) + 1 /\ k > Len(order)
    BY DEF NoRepo, DiscoveryInv, TypeOK
  <1>2. ASSUME NEW r \in Range(order) PROVE ~ Inside(Current.dir, Mount[r])
    <2>1. PICK n \in 1 .. Len(order) : order[n] = r
      BY <1>1 DEF Range
    <2>2. n \in 1 .. k - 1
      BY <1>1
    <2> QED  BY <1>1, <2>1, <2>2 DEF DiscoveryInv, TriedInv, Inside
  <1>3. Right(Current, Nil, Range(order))
    BY <1>2 DEF Right
  <1> QED  BY <1>1, <1>3, FoundInv DEF NoRepo, Found

LEMMA SkipLineInv ==
    ASSUME DiscoveryInv, SkipLine
    PROVE  DiscoveryInv'
  <1>1. /\ AtLine /\ Current.kind # "file" /\ i' = i + 1 /\ vm \in VMs /\ i \in DOMAIN Config[vm]
        /\ i \in Nat /\ Config[vm] \in Seq(Line)
    BY LineOK, DiscoveryAssumption DEF SkipLine, DiscoveryInv
  <1>2. i + 1 \in Nat \ {0} /\ i + 1 <= Len(Config[vm]) + 1
    BY <1>1
  <1>3. TypeOK'
    BY <1>1, <1>2 DEF DiscoveryInv, TypeOK, SkipLine, env, list
  <1>4. DoneInv'
    <2> SUFFICES ASSUME NEW n \in 1 .. i, Config[vm][n].kind = "file"
                 PROVE  \E m \in DOMAIN disks : disks[m].name = Config[vm][n].name
      <3>1. i' - 1 = i
        BY <1>1
      <3> QED  BY <1>1, <3>1 DEF DoneInv, SkipLine
    <2>1. n \in 1 .. i - 1
      BY <1>1 DEF Current
    <2> QED  BY <1>1, <2>1 DEF DiscoveryInv, DoneInv, AtLine
  <1>5. TriedInv'
    <2>1. k = 1 /\ k' = 1 /\ 1 .. k' - 1 = {}
      BY <1>1 DEF DiscoveryInv, TriedInv, SkipLine
    <2> QED  BY <2>1 DEF TriedInv
  <1> QED
    BY <1>1, <1>3, <1>4, <1>5 DEF DiscoveryInv, SkipLine, RestInv, ServedInv, MetaInv, env, list, AtLine,
       ResolvedRight, ImagesAreSupported, FileLines

-----------------------------------------------------------------------------
(***************************************************************************)
(* The administrator.                                                      *)
(***************************************************************************)
LEMMA ChangeInv ==
    ASSUME DiscoveryInv, NEW concerned, Change(concerned), TypeOK', MetaInv'
    PROVE  DiscoveryInv'
  BY DEF DiscoveryInv, Change, loop, list, RestInv, ServedInv, TriedInv, AtLine, Current, DoneInv, ResolvedRight,
     ImagesAreSupported

LEMMA ChangesInv ==
    ASSUME DiscoveryInv,
           \/ \E r \in Repos : PresentRepo(r) \/ RefreshMeta(r)
           \/ \E v \in VMs : MoveVM(v)
    PROVE  DiscoveryInv'
  <1>1. PICK concerned \in SUBSET VMs : Change(concerned)
    <2>1. \A r \in Repos : {v \in VMs : where[v] = r} \in SUBSET VMs
      OBVIOUS
    <2>2. {} \in SUBSET VMs /\ \A v \in VMs : {v} \in SUBSET VMs
      OBVIOUS
    <2> QED  BY <2>1, <2>2 DEF PresentRepo, RefreshMeta, MoveVM
  <1>2. changes' \in 0 .. MaxChanges /\ unsure' \subseteq VMs
    <2>1. changes \in 0 .. MaxChanges /\ changes < MaxChanges /\ changes' = changes + 1
      BY <1>1 DEF DiscoveryInv, TypeOK, Change
    <2>2. changes' \in 0 .. MaxChanges
      BY <2>1, DiscoveryAssumption
    <2>3. unsure' \subseteq VMs
      BY <1>1 DEF DiscoveryInv, TypeOK, Change
    <2> QED  BY <2>2, <2>3
  <1>3. \A r \in Repos : NamesIn(r) \subseteq Names
    BY NamesOK
  <1>4. /\ present' \subseteq Repos /\ where' \in [VMs -> Repos \cup {Nil}]
        /\ meta' \in [Repos -> SUBSET Names]
    BY <1>3 DEF PresentRepo, RefreshMeta, MoveVM, DiscoveryInv, TypeOK
  <1>5. TypeOK'
    BY <1>1, <1>2, <1>4 DEF DiscoveryInv, TypeOK, Change, loop, list
  <1>6. MetaInv'
    BY DEF PresentRepo, RefreshMeta, MoveVM, DiscoveryInv, TypeOK, MetaInv
  <1> QED  BY <1>1, <1>5, <1>6, ChangeInv

-----------------------------------------------------------------------------
LEMMA DiscoveryStep ==
    DiscoveryInv /\ [Next]_vars => DiscoveryInv'
  <1> SUFFICES ASSUME DiscoveryInv, [Next]_vars PROVE DiscoveryInv'
    OBVIOUS
  <1>1. CASE UNCHANGED vars
    BY <1>1 DEF vars, env, loop, list, DiscoveryInv, TypeOK, RestInv, ServedInv, MetaInv, TriedInv, AtLine, Current,
       DoneInv, ResolvedRight, ImagesAreSupported, FileLines
  <1>2. CASE Ask \/ Advance \/ ReadFails
    BY <1>2, AskInv, ParseReposInv, ScanRepoInv, GetVMInv, NextVMInv, SkipLineInv, TryRepoInv, NoRepoInv,
       ResolvedInv, ReadFailsInv DEF Advance
  <1> QED  BY <1>1, <1>2, ChangesInv DEF Next

THEOREM DiscoveryInvariant == Spec => []DiscoveryInv
  <1> QED  BY DiscoveryInit, DiscoveryStep, PTL DEF Spec

\* Every variable has its type, whatever the loops index: the lines of a vm.cfg, the
\* repositories, and the VMs of a list (manager.go:90).
THEOREM DiscoveryTypes == Spec => []TypeOK
  <1>1. DiscoveryInv => TypeOK
    BY DEF DiscoveryInv
  <1> QED  BY <1>1, DiscoveryInvariant, PTL

\* Disks (vms.go:192) gives every disk the repository that its file is in, if
\* ParseRepos returned it, whatever metadata could be read on the way.
THEOREM DisksAreResolved == Spec => []ResolvedRight
  <1>1. DiscoveryInv => ResolvedRight
    BY DEF DiscoveryInv
  <1> QED  BY <1>1, DiscoveryInvariant, PTL

\* Between VMConfig.CanClone (vms.go:137) and the last Disk.CreateSnapshot
\* (vms.go:67) anything may change, and yet no VM with an image that is not on
\* OCFS2 gets through.  Physical disks, which VMConfig.CanClone does not see
\* (vms.go:202), are not among the images.
THEOREM OnlySupported == Spec => []ImagesAreSupported
  <1>1. DiscoveryInv => ImagesAreSupported
    BY DEF DiscoveryInv
  <1> QED  BY <1>1, DiscoveryInvariant, PTL

-----------------------------------------------------------------------------
(***************************************************************************)
(* No disk is lost.                                                        *)
(***************************************************************************)
LEMMA FilesUpToOK ==
    ASSUME TypeOK, AtLine
    PROVE  /\ \A n \in Nat : IsFiniteSet(FilesUpTo(n)) /\ Cardinality(FilesUpTo(n)) \in Nat
           /\ i \in Nat \ {0}
           /\ Current.kind # "file" => FilesUpTo(i) = FilesUpTo(i - 1)
           /\ Current.kind = "file" => /\ FilesUpTo(i) = FilesUpTo(i - 1) \cup {i}
                                       /\ Cardinality(FilesUpTo(i)) = Cardinality(FilesUpTo(i - 1)) + 1
           /\ \A n \in FilesUpTo(i - 1) : n \in Nat /\ Cardinality(FilesUpTo(n)) <= Cardinality(FilesUpTo(i - 1))
  <1>1. i \in Nat \ {0}
    BY DEF TypeOK
  <1>2. ASSUME NEW n \in Nat
        PROVE  IsFiniteSet(FilesUpTo(n)) /\ Cardinality(FilesUpTo(n)) \in Nat
    <2>1. IsFiniteSet(1 .. n)
      BY FS_Interval
    <2>2. FilesUpTo(n) \in SUBSET (1 .. n)
      BY DEF FilesUpTo
    <2>3. IsFiniteSet(FilesUpTo(n))
      BY <2>1, <2>2, FS_Subset
    <2> QED  BY <2>3, FS_CardinalityType
  <1>3. Current.kind # "file" => FilesUpTo(i) = FilesUpTo(i - 1)
    BY <1>1 DEF FilesUpTo, Current
  <1>4. Current.kind = "file" => FilesUpTo(i) = FilesUpTo(i - 1) \cup {i}
    BY <1>1 DEF FilesUpTo, Current
  <1>5. i \notin FilesUpTo(i - 1) /\ i - 1 \in Nat
    BY <1>1 DEF FilesUpTo
  <1>6. Cardinality(FilesUpTo(i - 1) \cup {i}) = Cardinality(FilesUpTo(i - 1)) + 1
    BY <1>2, <1>5, FS_AddElement
  <1>7. ASSUME NEW n \in FilesUpTo(i - 1)
        PROVE  n \in Nat /\ Cardinality(FilesUpTo(n)) <= Cardinality(FilesUpTo(i - 1))
    <2>1. n \in 1 .. i - 1
      BY DEF FilesUpTo
    <2>2. FilesUpTo(n) \in SUBSET FilesUpTo(i - 1)
      BY <1>1, <2>1 DEF FilesUpTo
    <2>3. Cardinality(FilesUpTo(n)) <= Cardinality(FilesUpTo(i - 1))
      BY <1>2, <1>5, <2>2, FS_Subset
    <2> QED  BY <2>1, <2>3
  <1> QED  BY <1>1, <1>2, <1>3, <1>4, <1>6, <1>7

LEMMA NoDiskLostInit ==
    Init => NoDiskLost
  BY DEF Init, NoDiskLost

\* The loop goes on to the next line, with or without a disk for this one.
LEMMA LineDone ==
    ASSUME DiscoveryInv, NoDiskLost, AtLine, i' = i + 1, vm' = vm,
           IF Current.kind = "file"
           THEN \E r \in Repos \cup {Nil}, t \in {"unset", "VIRTUAL_DISK", "VIRTUAL_CDROM"} :
                    disks' = Append(disks, [name |-> Current.name, repo |-> r, type |-> t])
           ELSE disks' = disks
    PROVE  NoDiskLost'
  <1>0. TypeOK
    BY DEF DiscoveryInv
  <1>1. /\ \A n : FilesUpTo(n)' = FilesUpTo(n)
        /\ i \in Nat \ {0} /\ i' - 1 = i /\ disks \in Seq(Disk) /\ pc = "resolve"
    BY <1>0 DEF FilesUpTo, TypeOK, AtLine
  <1>2. /\ Len(disks) = Cardinality(FilesUpTo(i - 1))
        /\ \A n \in FilesUpTo(i - 1) : disks[Cardinality(FilesUpTo(n))].name = Config[vm][n].name
    BY <1>1 DEF NoDiskLost
  <1> DEFINE C(n) == Cardinality(FilesUpTo(n))
  <1>3. Len(disks') = C(i) /\ \A n \in FilesUpTo(i) : disks'[C(n)].name = Config[vm][n].name
    <2>1. CASE Current.kind # "file"
      BY <1>0, <1>2, <2>1, FilesUpToOK
    <2>2. CASE Current.kind = "file"
      <3>1. PICK r \in Repos \cup {Nil}, t \in {"unset", "VIRTUAL_DISK", "VIRTUAL_CDROM"} :
                disks' = Append(disks, [name |-> Current.name, repo |-> r, type |-> t])
        BY <2>2
      <3> DEFINE d == [name |-> Current.name, repo |-> r, type |-> t]
      <3>2. d \in Disk /\ d.name = Current.name
        BY <1>0, LineOK DEF Line, Disk
      <3>3. disks' = Append(disks, d)
        BY <3>1
      <3> HIDE DEF d
      <3>4. /\ Len(disks') = Len(disks) + 1 /\ disks'[Len(disks) + 1] = d
            /\ \A n \in 1 .. Len(disks) : disks'[n] = disks[n]
        BY <1>1, <3>2, <3>3
      <3>5. C(i) = C(i - 1) + 1 /\ FilesUpTo(i) = FilesUpTo(i - 1) \cup {i}
        BY <1>0, <2>2, FilesUpToOK
      <3>6. ASSUME NEW n \in FilesUpTo(i - 1) PROVE disks'[C(n)].name = Config[vm][n].name
        <4>1. n \in Nat /\ C(n) <= C(i - 1) /\ C(n) \in Nat
          BY <1>0, FilesUpToOK
        <4>2. n \in FilesUpTo(n) /\ IsFiniteSet(FilesUpTo(n))
          <5>1. n \in 1 .. n /\ Config[vm][n].kind = "file"
            BY <1>1 DEF FilesUpTo
          <5> QED  BY <1>0, <4>1, <5>1, FilesUpToOK DEF FilesUpTo
        <4>3. C(n) # 0
          BY <4>2, FS_EmptySet
        <4>4. C(n) \in 1 .. Len(disks)
          BY <1>2, <4>1, <4>3
        <4> QED  BY <1>2, <3>4, <4>4
      <3>7. disks'[C(i)].name = Config[vm][i].name
        BY <1>2, <3>2, <3>4, <3>5 DEF Current
      <3> QED  BY <1>2, <3>4, <3>5, <3>6, <3>7
    <2> QED  BY <2>1, <2>2
  <1> QED  BY <1>1, <1>3 DEF NoDiskLost

LEMMA NoDiskLostStep ==
    ASSUME DiscoveryInv, NoDiskLost, [Next]_vars
    PROVE  NoDiskLost'
  <1>1. ASSUME pc' # "resolve" PROVE NoDiskLost'
    BY <1>1 DEF NoDiskLost
  <1>2. ASSUME UNCHANGED <<pc, disks, i, vm>> PROVE NoDiskLost'
    BY <1>2 DEF NoDiskLost, FilesUpTo
  <1>3. CASE Ask \/ ScanRepo \/ GetVM \/ NextVM \/ Resolved \/ ReadFails
    BY <1>1, <1>3 DEF Ask, ScanRepo, GetVM, NextVM, Resolved, ReadFails, Answer, Proceed, Verdict
  <1>4. CASE ParseRepos
    <2>1. disks' = << >> /\ i' = 1
      BY <1>4 DEF ParseRepos, DiscoveryInv, RestInv
    <2>2. FilesUpTo(0)' = {} /\ i' - 1 = 0 /\ Len(disks') = 0
      BY <2>1 DEF FilesUpTo
    <2>3. Cardinality(FilesUpTo(0)') = 0
      BY <2>2, FS_EmptySet
    <2>4. Cardinality(FilesUpTo(i - 1))' = 0 /\ FilesUpTo(i - 1)' = {}
      BY <2>2, <2>3
    <2> QED  BY <2>2, <2>4 DEF NoDiskLost
  <1>5. CASE SkipLine
    BY <1>5, LineDone DEF SkipLine
  <1>6. ASSUME NEW repo \in Repos \cup {Nil}, NEW type \in {"unset", "VIRTUAL_DISK", "VIRTUAL_CDROM"},
               AtLine, Current.kind = "file", Found(repo, type)
        PROVE  NoDiskLost'
    BY <1>6, LineDone DEF Found
  <1>7. CASE TryRepo
    <2>1. order[k] \in Repos
      BY <1>7 DEF TryRepo, DiscoveryInv, TypeOK
    <2>2. ObjectType[Current.name] \in {"unset", "VIRTUAL_DISK", "VIRTUAL_CDROM"}
      BY <1>7, LineOK, DiscoveryAssumption DEF TryRepo, DiscoveryInv, Line
    <2> QED  BY <1>2, <1>6, <1>7, <2>1, <2>2 DEF TryRepo, NextRepo
  <1>8. CASE NoRepo
    BY <1>6, <1>8 DEF NoRepo
  <1>9. CASE (\E r \in Repos : PresentRepo(r) \/ RefreshMeta(r)) \/ (\E v \in VMs : MoveVM(v))
    BY <1>2, <1>9 DEF PresentRepo, RefreshMeta, MoveVM, Change, loop
  <1>10. CASE UNCHANGED vars
    BY <1>2, <1>10 DEF vars, loop
  <1> QED  BY <1>3, <1>4, <1>5, <1>7, <1>8, <1>9, <1>10 DEF Next, Advance

-----------------------------------------------------------------------------
(***************************************************************************)
(* No VM is missed.                                                        *)
(***************************************************************************)
Distinct(q)  == \A m, n \in DOMAIN q : m # n => q[m] # q[n]
OnceIn(v, q) == \A m, n \in DOMAIN q : q[m] = v /\ q[n] = v => m = n
Here         == {v \in VMs : where[v] \in present}
Scanned      == {v \in VMs : \E n \in 1 .. k - 1 : where[v] = order[n]}
Sure         == VMs \ unsure

\* The search has the repository of v, and has found v once if it has been there.
SearchedFor(v) ==
    /\ where[v] \in present <=> where[v] \in Range(order)
    /\ OnceIn(v, todo) /\ (v \in Range(todo) <=> v \in Scanned)

\* The VMs that a list has done with, and the one it is at.
Past == {listed[n].vm : n \in DOMAIN listed}
Busy == IF pc \in {"repos", "resolve"} THEN {vm} ELSE {}

\* A VM of the host is past, at hand or to do, and no other is.
DividedFor(v) ==
    /\ OnceIn(v, todo) /\ \A m, n \in DOMAIN listed : listed[m].vm = v /\ listed[n].vm = v => m = n
    /\ v \in Past => v \notin Range(todo)
    /\ v \in Busy => v \notin Past \cup Range(todo)
    /\ v \in Here <=> v \in Past \cup Busy \cup Range(todo)
Divided == \A v \in Sure : DividedFor(v)

SearchInv ==
    /\ pc = "scan" => goal = "find"
    /\ pc = "resolve" => goal # "find"
    /\ pc = "next" => op = "list"
    /\ pc = "idle" \/ (pc = "repos" /\ goal = "find") => todo = << >>
    /\ goal = "find" /\ pc \in {"repos", "scan"} => listed = << >>
    /\ pc = "scan" => Distinct(order) /\ \A v \in Sure : SearchedFor(v)
    /\ op = "list" /\ (pc = "next" \/ (pc \in {"repos", "resolve"} /\ goal # "find")) => Divided
    /\ MissingIsMissing /\ ListIsComplete

LEMMA OrdersOK ==
    ASSUME NEW S, IsFiniteSet(S), NEW o \in Orders(S)
    PROVE  o \in Seq(S) /\ Distinct(o) /\ Range(o) = S
  <1>1. Cardinality(S) \in Nat /\ o \in [1 .. Cardinality(S) -> S] /\ Range(o) = S
    BY FS_CardinalityType DEF Orders
  <1> DEFINE N == Cardinality(S)
  <1> HIDE DEF N
  <1>2. o \in Surjection(1 .. N, S)
    BY <1>1 DEF Surjection, Range, N
  <1>3. IsFiniteSet(1 .. N) /\ Cardinality(1 .. N) = N
    BY <1>1, FS_Interval DEF N
  <1>4. o \in Injection(1 .. N, S)
    BY <1>2, <1>3, FS_Surjection DEF N
  <1>5. Distinct(o)
    BY <1>4 DEF Distinct, Injection, IsInjective
  <1> QED  BY <1>1, <1>5

LEMMA ConcatOK ==
    ASSUME NEW S, NEW q \in Seq(S), NEW r \in Seq(S), NEW v
    PROVE  /\ q \o r \in Seq(S) /\ Range(q \o r) = Range(q) \cup Range(r)
           /\ OnceIn(v, q) /\ OnceIn(v, r) /\ (v \in Range(q) => v \notin Range(r)) => OnceIn(v, q \o r)
  <1> DEFINE c == q \o r
  <1>1. /\ c \in Seq(S) /\ Len(c) = Len(q) + Len(r) /\ Len(q) \in Nat /\ Len(r) \in Nat
        /\ \A n \in 1 .. Len(q) + Len(r) : c[n] = IF n <= Len(q) THEN q[n] ELSE r[n - Len(q)]
        /\ DOMAIN c = 1 .. Len(c) /\ DOMAIN q = 1 .. Len(q) /\ DOMAIN r = 1 .. Len(r)
    BY ConcatProperties, LenProperties
  <1> HIDE DEF c
  <1>2. ASSUME NEW n \in DOMAIN c
        PROVE  \/ n \in DOMAIN q /\ c[n] = q[n]
               \/ n - Len(q) \in DOMAIN r /\ c[n] = r[n - Len(q)] /\ n > Len(q)
    BY <1>1
  <1>3. \A n \in DOMAIN q : n \in DOMAIN c /\ c[n] = q[n]
    BY <1>1
  <1>4. \A n \in DOMAIN r : n + Len(q) \in DOMAIN c /\ c[n + Len(q)] = r[n]
    BY <1>1
  <1>5. Range(c) = Range(q) \cup Range(r)
    BY <1>2, <1>3, <1>4 DEF Range
  <1>6. ASSUME OnceIn(v, q), OnceIn(v, r), v \in Range(q) => v \notin Range(r),
               NEW m \in DOMAIN c, NEW n \in DOMAIN c, c[m] = v, c[n] = v
        PROVE  m = n
    <2>1. m \in Int /\ n \in Int /\ Len(q) \in Int
      BY <1>1
    <2>2. CASE m \in DOMAIN q /\ c[m] = q[m] /\ n \in DOMAIN q /\ c[n] = q[n]
      BY <1>6, <2>2 DEF OnceIn
    <2>3. CASE m > Len(q) /\ n > Len(q)
      <3>1. /\ m - Len(q) \in DOMAIN r /\ c[m] = r[m - Len(q)]
            /\ n - Len(q) \in DOMAIN r /\ c[n] = r[n - Len(q)]
        BY <1>1, <1>2, <2>1, <2>3
      <3>2. m - Len(q) = n - Len(q)
        BY <1>6, <3>1 DEF OnceIn
      <3> QED  BY <2>1, <3>2
    <2>4. CASE v \in Range(q) /\ v \in Range(r)
      BY <1>6, <2>4
    <2> QED  BY <1>2, <1>6, <2>2, <2>3, <2>4 DEF Range
  <1> QED  BY <1>1, <1>5, <1>6 DEF OnceIn, c

LEMMA SearchInit ==
    Init => SearchInv
  BY DEF Init, SearchInv, MissingIsMissing, ListIsComplete

\* Steps that are not part of the search for the VMs, or disturb it.
LEMMA SearchKept ==
    ASSUME DiscoveryInv, SearchInv, pc' # "scan",
           pc' = "resolve" => goal' # "find", pc' = "next" => op' = "list",
           pc' = "idle" \/ (pc' = "repos" /\ goal' = "find") => todo' = << >>,
           goal' = "find" /\ pc' = "repos" => listed' = << >>,
           op' = "list" /\ (pc' = "next" \/ (pc' \in {"repos", "resolve"} /\ goal' # "find")) => Divided',
           MissingIsMissing', ListIsComplete'
    PROVE  SearchInv'
  BY DEF SearchInv

LEMMA SearchAsk ==
    ASSUME DiscoveryInv, SearchInv, Ask
    PROVE  SearchInv'
  <1>1. todo' = << >>
    BY DEF Ask, SearchInv
  <1>2. MissingIsMissing' /\ ListIsComplete'
    BY DEF Ask, MissingIsMissing, ListIsComplete
  <1> QED  BY <1>1, <1>2, SearchKept DEF Ask

LEMMA SearchParseRepos ==
    ASSUME DiscoveryInv, SearchInv, ParseRepos
    PROVE  SearchInv'
  <1>1. reply' = "none"
    BY DEF ParseRepos, DiscoveryInv, ServedInv, list
  <1>2. MissingIsMissing' /\ ListIsComplete'
    BY <1>1 DEF MissingIsMissing, ListIsComplete
  <1>3. PICK S \in SUBSET present :
            /\ order' \in Orders(S)
            /\ unsure' = IF goal = "find" THEN {v \in VMs : where[v] \in present \ S} ELSE unsure
    BY DEF ParseRepos
  <1>4. CASE goal = "find"
    <2>1. /\ pc = "repos" /\ pc' = "scan" /\ goal' = "find" /\ k = 1 /\ k' = 1
          /\ todo = << >> /\ todo' = << >> /\ listed' = << >> /\ UNCHANGED env
      BY <1>4 DEF ParseRepos, DiscoveryInv, RestInv, SearchInv, list
    <2>2. Distinct(order') /\ Range(order') = S
      <3>1. IsFiniteSet(S)
        BY DiscoveryAssumption, FS_Subset DEF DiscoveryInv, TypeOK
      <3> QED  BY <1>3, <3>1, OrdersOK
    <2>3. Range(todo') = {} /\ Scanned' = {} /\ \A v : OnceIn(v, todo')
      BY <2>1 DEF OnceIn, Range, Scanned
    <2>4. \A v \in VMs \ unsure' : where[v] \in present <=> where[v] \in Range(order')
      BY <1>3, <1>4, <2>2
    <2>5. \A v \in Sure' : SearchedFor(v)'
      BY <2>1, <2>3, <2>4 DEF Sure, SearchedFor, OnceIn, env
    <2>6. Distinct(order)'
      BY <2>2 DEF Distinct
    <2> QED  BY <1>2, <2>1, <2>5, <2>6 DEF SearchInv
  <1>5. CASE goal # "find"
    <2>1. pc = "repos" /\ pc' = "resolve" /\ UNCHANGED <<env, goal, op, vm, list, unsure>>
      BY <1>3, <1>5 DEF ParseRepos
    <2>2. ASSUME op' = "list" PROVE Divided'
      BY <1>5, <2>1, <2>2 DEF SearchInv, Divided, DividedFor, Sure, OnceIn, Past, Busy, Here, env, list
    <2> QED  BY <1>2, <1>5, <2>1, <2>2, SearchKept
  <1> QED  BY <1>4, <1>5

LEMMA SearchScanRepo ==
    ASSUME DiscoveryInv, SearchInv, ScanRepo
    PROVE  SearchInv'
  <1>1. reply = "none" /\ reply' = "none"
    BY DEF ScanRepo, DiscoveryInv, ServedInv
  <1>2. MissingIsMissing' /\ ListIsComplete'
    BY <1>1 DEF MissingIsMissing, ListIsComplete
  <1> DEFINE New == {v \in VMs : where[v] = order[k]}
  <1>3. PICK found \in Orders(New) : todo' = todo \o found
    BY DEF ScanRepo
  <1>4. found \in Seq(New) /\ Distinct(found) /\ Range(found) = New
    <2>1. IsFiniteSet(New)
      BY DiscoveryAssumption, FS_Subset
    <2> HIDE DEF New
    <2> QED  BY <1>3, <2>1, OrdersOK
  <1>5. todo \in Seq(VMs) /\ found \in Seq(VMs)
    <2>1. todo \in Seq(VMs)
      BY DEF DiscoveryInv, TypeOK
    <2>2. New \subseteq VMs
      OBVIOUS
    <2> HIDE DEF New
    <2> QED  BY <1>4, <2>1, <2>2, SeqMonotonic
  <1>6. /\ k \in Nat /\ k > 0 /\ k \in DOMAIN order /\ k' = k + 1
        /\ \A n \in 1 .. k - 1 : n \in DOMAIN order /\ n # k
    <2>1. order \in Seq(Repos) /\ k \in 1 .. Len(order) + 1 /\ k <= Len(order) /\ k' = k + 1
      BY DEF ScanRepo, DiscoveryInv, TypeOK
    <2>2. DOMAIN order = 1 .. Len(order) /\ Len(order) \in Nat
      BY <2>1
    <2> QED  BY <2>1, <2>2
  <1>7. /\ pc = "scan" /\ UNCHANGED <<env, pc, goal, op, order, listed, unsure>>
    BY DEF ScanRepo
  <1>8. Distinct(order) /\ \A v \in Sure : SearchedFor(v)
    BY <1>7 DEF SearchInv
  <1>9. Scanned' = Scanned \cup New
    <2>1. 1 .. k' - 1 = (1 .. k - 1) \cup {k}
      BY <1>6
    <2>2. Scanned' = {v \in VMs : \E n \in (1 .. k - 1) \cup {k} : where[v] = order[n]}
      BY <1>7, <2>1 DEF Scanned, env
    <2> QED  BY <2>2 DEF Scanned
  <1>10. Scanned \cap New = {}
    BY <1>6, <1>8 DEF Scanned, Distinct
  <1> HIDE DEF New
  <1>11. ASSUME NEW v \in Sure PROVE OnceIn(v, todo') /\ (v \in Range(todo') <=> v \in Scanned')
    <2>1. OnceIn(v, todo) /\ (v \in Range(todo) <=> v \in Scanned)
      BY <1>8 DEF SearchedFor
    <2>2. OnceIn(v, found)
      BY <1>4 DEF OnceIn, Distinct
    <2>3. v \in Range(todo) => v \notin Range(found)
      BY <1>4, <1>10, <2>1
    <2>4. OnceIn(v, todo \o found) /\ Range(todo \o found) = Range(todo) \cup Range(found)
      BY <1>5, <2>1, <2>2, <2>3, ConcatOK
    <2> QED  BY <1>3, <1>4, <1>9, <2>1, <2>4
  <1>12. Sure' = Sure
    BY <1>7 DEF Sure
  <1>13. \A v \in Sure' : SearchedFor(v)'
    BY <1>7, <1>8, <1>11, <1>12 DEF SearchedFor, OnceIn, env
  <1>14. Distinct(order)'
    BY <1>7, <1>8 DEF Distinct
  <1> QED  BY <1>2, <1>7, <1>13, <1>14 DEF SearchInv

\* At the end of the search it is known of all VMs whether they are on the host.
LEMMA Searched ==
    ASSUME DiscoveryInv, SearchInv, pc = "scan", k > Len(order), NEW v \in Sure
    PROVE  OnceIn(v, todo) /\ (v \in Range(todo) <=> v \in Here)
  <1>1. order \in Seq(Repos) /\ k \in 1 .. Len(order) + 1 /\ Len(order) \in Nat
    BY DEF DiscoveryInv, TypeOK
  <1>2. 1 .. k - 1 = DOMAIN order
    BY <1>1
  <1>3. SearchedFor(v) /\ v \in VMs
    BY DEF SearchInv, Sure
  <1>4. v \in Scanned <=> v \in Here
    BY <1>2, <1>3 DEF Scanned, Here, Range, SearchedFor
  <1> QED  BY <1>3, <1>4 DEF SearchedFor

LEMMA SearchGetVM ==
    ASSUME DiscoveryInv, SearchInv, GetVM
    PROVE  SearchInv'
  <1>1. pc = "scan" /\ k > Len(order) /\ op # "list" /\ vm \in VMs /\ reply = "none"
    BY DEF GetVM, DiscoveryInv, TypeOK, ServedInv
  <1>2. CASE Proceed(vm, IF op = "show" THEN "describe" ELSE "check") /\ todo' = << >>
    <2>1. /\ pc' = "repos" /\ goal' # "find" /\ op' # "list" /\ reply' = "none"
      BY <1>1, <1>2 DEF Proceed
    <2>2. MissingIsMissing' /\ ListIsComplete'
      BY <2>1 DEF MissingIsMissing, ListIsComplete
    <2> QED  BY <2>1, <2>2, SearchKept
  <1>3. CASE vm \notin Range(todo) /\ Answer("nosuchvm")
    <2>1. /\ pc' = "idle" /\ todo' = << >> /\ reply' = "nosuchvm"
          /\ vm' = vm /\ unsure' = unsure /\ where' = where /\ present' = present
      BY <1>3 DEF Answer, env
    <2>2. vm \notin unsure => where[vm] \notin present
      BY <1>1, <1>3, Searched DEF Here, Sure
    <2>3. MissingIsMissing' /\ ListIsComplete'
      BY <2>1, <2>2 DEF MissingIsMissing, ListIsComplete
    <2> QED  BY <2>1, <2>3, SearchKept
  <1> QED  BY <1>2, <1>3 DEF GetVM

LEMMA TailOK ==
    ASSUME NEW S, NEW q \in Seq(S), q # << >>, NEW v
    PROVE  /\ Range(q) = {Head(q)} \cup Range(Tail(q))
           /\ OnceIn(v, q) => OnceIn(v, Tail(q)) /\ (v = Head(q) => v \notin Range(Tail(q)))
  <1> DEFINE t == Tail(q)
  <1>1. /\ Head(q) = q[1] /\ t \in Seq(S) /\ Len(t) = Len(q) - 1 /\ Len(q) \in Nat \ {0}
        /\ \A n \in 1 .. Len(t) : t[n] = q[n + 1]
        /\ DOMAIN t = 1 .. Len(t) /\ DOMAIN q = 1 .. Len(q)
    BY HeadTailProperties, LenProperties, EmptySeq
  <1> HIDE DEF t
  <1>2. \A n \in DOMAIN t : n + 1 \in DOMAIN q /\ n + 1 # 1 /\ t[n] = q[n + 1] /\ n \in Nat
    BY <1>1
  <1>3. \A n \in DOMAIN q : n = 1 \/ (n - 1 \in DOMAIN t /\ t[n - 1] = q[n])
    BY <1>1
  <1>4. 1 \in DOMAIN q
    BY <1>1
  <1>5. ASSUME OnceIn(v, q) PROVE OnceIn(v, t)
    <2> SUFFICES ASSUME NEW m \in DOMAIN t, NEW n \in DOMAIN t, t[m] = v, t[n] = v PROVE m = n
      BY DEF OnceIn
    <2>1. m + 1 = n + 1 /\ m \in Nat /\ n \in Nat
      BY <1>2, <1>5 DEF OnceIn
    <2> QED  BY <2>1
  <1>6. Range(q) = {Head(q)} \cup Range(t)
    BY <1>1, <1>2, <1>3, <1>4 DEF Range
  <1>7. ASSUME OnceIn(v, q), v = Head(q) PROVE v \notin Range(t)
    BY <1>1, <1>2, <1>4, <1>7 DEF Range, OnceIn
  <1> QED  BY <1>5, <1>6, <1>7 DEF t

LEMMA SearchNextVM ==
    ASSUME DiscoveryInv, SearchInv, NextVM
    PROVE  SearchInv'
  <1>1. reply = "none" /\ todo \in Seq(VMs) /\ op = "list"
    BY DEF NextVM, DiscoveryInv, TypeOK, ServedInv, SearchInv
  \* Nothing is at hand: one VM is done with, and the next not begun.
  <1>5. Busy = {}
    BY DEF NextVM, Busy
  <1>2. ASSUME NEW v \in Sure PROVE DividedFor(v)
    <2>2. ASSUME pc = "scan" PROVE DividedFor(v)
      <3>1. OnceIn(v, todo) /\ (v \in Range(todo) <=> v \in Here) /\ listed = << >>
        BY <2>2, Searched DEF NextVM, SearchInv
      <3>2. Past = {} /\ DOMAIN listed = {}
        BY <3>1 DEF Past
      <3> QED  BY <1>5, <3>1, <3>2 DEF DividedFor
    <2>3. CASE pc = "next"
      BY <1>1, <2>3 DEF SearchInv, Divided
    <2> QED  BY <2>2, <2>3 DEF NextVM
  <1>3. CASE todo # << >> /\ Proceed(Head(todo), "describe") /\ todo' = Tail(todo)
    <2>1. /\ pc' = "repos" /\ goal' = "describe" /\ vm' = Head(todo) /\ todo' = Tail(todo)
          /\ reply' = "none" /\ UNCHANGED <<present, where, op, listed, unsure>>
      BY <1>1, <1>3 DEF Proceed, env
    <2>2. Past' = Past /\ Busy' = {Head(todo)} /\ Here' = Here /\ Sure' = Sure
      BY <2>1 DEF Past, Busy, Here, Sure
    <2>3. ASSUME NEW v \in Sure PROVE DividedFor(v)'
      <3>1. DividedFor(v) /\ Busy = {}
        BY <1>2, <1>5
      <3>2. /\ OnceIn(v, Tail(todo)) /\ Range(todo) = {Head(todo)} \cup Range(Tail(todo))
            /\ v = Head(todo) => v \notin Range(Tail(todo))
        BY <1>1, <1>3, <3>1, TailOK DEF DividedFor
      <3>3. OnceIn(v, todo')
        BY <2>1, <3>2
      <3> QED  BY <2>1, <2>2, <3>1, <3>2, <3>3 DEF DividedFor, OnceIn
    <2>4. Divided'
      BY <2>2, <2>3 DEF Divided
    <2>5. MissingIsMissing' /\ ListIsComplete'
      BY <2>1 DEF MissingIsMissing, ListIsComplete
    <2> QED  BY <2>1, <2>4, <2>5, SearchKept
  <1>4. CASE todo = << >> /\ Answer("listed")
    <2>1. /\ pc' = "idle" /\ todo' = << >> /\ reply' = "listed"
          /\ UNCHANGED <<present, where, listed, unsure>>
      BY <1>4 DEF Answer, env
    <2>2. ASSUME NEW v \in VMs \ unsure
          PROVE  /\ where[v] \in present <=> \E n \in DOMAIN listed : listed[n].vm = v
                 /\ \A m, n \in DOMAIN listed : listed[m].vm = v /\ listed[n].vm = v => m = n
      <3>1. DividedFor(v) /\ Busy = {} /\ Range(todo) = {}
        BY <1>2, <1>4, <1>5 DEF Sure, Range
      <3>2. v \in Here <=> v \in Past
        BY <3>1 DEF DividedFor
      <3> QED  BY <3>1, <3>2 DEF DividedFor, Here, Past
    <2>3. MissingIsMissing' /\ ListIsComplete'
      BY <2>1, <2>2 DEF MissingIsMissing, ListIsComplete
    <2> QED  BY <2>1, <2>3, SearchKept
  <1> QED  BY <1>3, <1>4 DEF NextVM

\* The answer to a request that did not miss a VM, nor made a list.
LEMMA SearchAnswer ==
    ASSUME DiscoveryInv, SearchInv, NEW code, Answer(code), code \notin {"nosuchvm", "listed"}
    PROVE  SearchInv'
  <1>1. MissingIsMissing' /\ ListIsComplete'
    BY DEF Answer, MissingIsMissing, ListIsComplete
  <1> QED  BY <1>1, SearchKept DEF Answer

\* The repositories are read for the same VM once more.
LEMMA SearchProceed ==
    ASSUME DiscoveryInv, SearchInv, pc = "resolve", NEW g \in {"check", "clone"}, Proceed(vm, g), UNCHANGED todo,
           goal # "find"
    PROVE  SearchInv'
  <1>1. /\ pc' = "repos" /\ goal' = g /\ goal' # "find" /\ reply' = reply /\ reply = "none"
        /\ UNCHANGED <<present, where, op, vm, listed, todo, unsure>>
    BY DEF Proceed, env, DiscoveryInv, ServedInv
  <1>2. MissingIsMissing' /\ ListIsComplete'
    BY <1>1 DEF MissingIsMissing, ListIsComplete
  <1>3. op' = "list" => Divided'
    BY <1>1 DEF SearchInv, Divided, DividedFor, Sure, OnceIn, Past, Busy, Here
  <1> QED  BY <1>1, <1>2, <1>3, SearchKept

LEMMA SearchVerdict ==
    ASSUME DiscoveryInv, SearchInv, goal = "check", pc \in {"repos", "resolve"}, NEW ok \in BOOLEAN, Verdict(ok)
    PROVE  SearchInv'
  <1>1. CASE \E code \in {"compatible", "incompatible", "badrequest"} : Answer(code)
    BY <1>1, SearchAnswer
  <1>2. CASE op = "create" /\ Proceed(vm, "clone") /\ UNCHANGED todo
    <2>1. /\ pc' = "repos" /\ goal' = "clone" /\ op' = "create" /\ reply' = "none"
      BY <1>2 DEF Proceed, DiscoveryInv, ServedInv
    <2>2. MissingIsMissing' /\ ListIsComplete'
      BY <2>1 DEF MissingIsMissing, ListIsComplete
    <2> QED  BY <2>1, <2>2, SearchKept
  <1>3. ASSUME op = "list", pc' = "next", listed' = Append(listed, [vm |-> vm, ok |-> ok]),
               UNCHANGED <<env, goal, op, vm, todo, reply, unsure>>
        PROVE  SearchInv'
    <2>1. reply' = "none" /\ vm \in VMs /\ goal' # "find"
      BY <1>3 DEF DiscoveryInv, ServedInv, TypeOK
    <2>2. MissingIsMissing' /\ ListIsComplete'
      BY <2>1 DEF MissingIsMissing, ListIsComplete
    <2> DEFINE e == [vm |-> vm, ok |-> ok]
    <2>3. e \in [vm : VMs, ok : BOOLEAN] /\ e.vm = vm /\ listed' = Append(listed, e)
          /\ listed \in Seq([vm : VMs, ok : BOOLEAN])
      BY <1>3, <2>1 DEF DiscoveryInv, TypeOK
    <2> HIDE DEF e
    <2>4. /\ DOMAIN listed' = DOMAIN listed \cup {Len(listed) + 1} /\ Len(listed) + 1 \notin DOMAIN listed
          /\ listed'[Len(listed) + 1].vm = vm /\ \A n \in DOMAIN listed : listed'[n] = listed[n]
      BY <2>3, AppendOK
    <2>5. Past' = Past \cup {vm} /\ Busy' = {} /\ Busy = {vm} /\ Here' = Here /\ Sure' = Sure
      <3>1. Past' = Past \cup {vm}
        BY <2>4 DEF Past
      <3> QED  BY <1>3, <3>1 DEF Busy, Here, Sure, env
    <2>6. ASSUME NEW v \in Sure PROVE DividedFor(v)'
      <3>1. DividedFor(v)
        BY <1>3 DEF SearchInv, Divided
      <3>2. OnceIn(v, todo)' = OnceIn(v, todo) /\ todo' = todo
        BY <1>3 DEF OnceIn
      <3>3. \A m, n \in DOMAIN listed' : listed'[m].vm = v /\ listed'[n].vm = v => m = n
        <4>1. v = vm => \A n \in DOMAIN listed : listed[n].vm # v
          BY <2>5, <3>1 DEF DividedFor, Past
        <4> QED  BY <2>4, <3>1, <4>1 DEF DividedFor
      <3> QED  BY <2>5, <3>1, <3>2, <3>3 DEF DividedFor
    <2>7. Divided'
      BY <2>5, <2>6 DEF Divided
    <2> QED  BY <1>3, <2>1, <2>2, <2>7, SearchKept
  <1> QED  BY <1>1, <1>2, <1>3 DEF Verdict

\* A step within Disks.
LEMMA SearchResolve ==
    ASSUME DiscoveryInv, SearchInv, pc = "resolve",
           UNCHANGED <<env, pc, goal, op, vm, list, reply, unsure>>
    PROVE  SearchInv'
  <1>1. reply' = "none" /\ goal' # "find"
    BY DEF DiscoveryInv, ServedInv, SearchInv
  <1>2. MissingIsMissing' /\ ListIsComplete'
    BY <1>1 DEF MissingIsMissing, ListIsComplete
  <1>3. op' = "list" => Divided'
    BY <1>1 DEF SearchInv, Divided, DividedFor, Sure, OnceIn, Past, Busy, Here, env, list
  <1> QED  BY <1>1, <1>2, <1>3, SearchKept

\* What the administrator does to one VM or repository leaves it as certain as before
\* where the others are.
LEMMA SearchChange ==
    ASSUME DiscoveryInv, SearchInv, NEW concerned, Change(concerned),
           \A v \in Sure \ concerned : where'[v] = where[v] /\ (where[v] \in present' <=> where[v] \in present)
    PROVE  SearchInv'
  <1>1. UNCHANGED <<pc, goal, op, vm, order, k, todo, listed, reply>> /\ unsure' = unsure \cup concerned
    BY DEF Change, loop, list
  <1>2. /\ \A v \in Sure' : v \in Sure /\ where'[v] = where[v] /\ (where[v] \in present' <=> where[v] \in present)
        /\ Past' = Past /\ Busy' = Busy
    BY <1>1 DEF Sure, Past, Busy
  <1>3. ASSUME NEW v \in Sure' PROVE (v \in Here' <=> v \in Here) /\ (v \in Scanned' <=> v \in Scanned)
    BY <1>1, <1>2 DEF Here, Scanned, Sure
  <1>4. MissingIsMissing' /\ ListIsComplete'
    <2>1. MissingIsMissing'
      <3> SUFFICES ASSUME reply = "nosuchvm", vm \in VMs \ unsure' PROVE where'[vm] \notin present'
        BY <1>1 DEF MissingIsMissing
      <3> QED  BY <1>1, <1>2 DEF SearchInv, MissingIsMissing, Sure
    <2>2. ListIsComplete'
      BY <1>1, <1>2 DEF SearchInv, ListIsComplete, Sure
    <2> QED  BY <2>1, <2>2
  <1>5. ASSUME pc = "scan" PROVE Distinct(order)' /\ \A v \in Sure' : SearchedFor(v)'
    <2>1. Distinct(order) /\ \A v \in Sure : SearchedFor(v)
      BY <1>5 DEF SearchInv
    <2>2. ASSUME NEW v \in Sure' PROVE SearchedFor(v)'
      BY <1>1, <1>2, <1>3, <2>1, <2>2 DEF SearchedFor, OnceIn
    <2> QED  BY <1>1, <2>1, <2>2 DEF Distinct
  <1>6. ASSUME Divided PROVE Divided'
    <2>1. ASSUME NEW v \in Sure' PROVE DividedFor(v)'
      <3>1. DividedFor(v)
        BY <1>2, <1>6, <2>1 DEF Divided
      <3> QED  BY <1>1, <1>2, <1>3, <2>1, <3>1 DEF DividedFor, OnceIn
    <2> QED  BY <2>1 DEF Divided
  <1> QED  BY <1>1, <1>4, <1>5, <1>6 DEF SearchInv

LEMMA SearchChanges ==
    ASSUME DiscoveryInv, SearchInv,
           (\E r \in Repos : PresentRepo(r) \/ RefreshMeta(r)) \/ (\E v \in VMs : MoveVM(v))
    PROVE  SearchInv'
  <1>1. ASSUME NEW r \in Repos, PresentRepo(r) PROVE SearchInv'
    <2> DEFINE there == {v \in VMs : where[v] = r}
    <2>1. Change(there) /\ where' = where /\ present' = (present \cup {r}) \ (present \cap {r})
      BY <1>1 DEF PresentRepo
    <2>2. \A v \in Sure \ there : where'[v] = where[v] /\ (where[v] \in present' <=> where[v] \in present)
      BY <2>1 DEF Sure
    <2> HIDE DEF there
    <2> QED  BY <2>1, <2>2, SearchChange
  <1>2. ASSUME NEW r \in Repos, RefreshMeta(r) PROVE SearchInv'
    BY <1>2, SearchChange DEF RefreshMeta
  <1>3. ASSUME NEW v \in VMs, MoveVM(v) PROVE SearchInv'
    <2>1. Change({v}) /\ present' = present /\ \A w \in VMs \ {v} : where'[w] = where[w]
      BY <1>3 DEF MoveVM, DiscoveryInv, TypeOK
    <2>2. \A w \in Sure \ {v} : where'[w] = where[w] /\ (where[w] \in present' <=> where[w] \in present)
      BY <2>1 DEF Sure
    <2> QED  BY <2>1, <2>2, SearchChange
  <1> QED  BY <1>1, <1>2, <1>3

LEMMA SearchStep ==
    ASSUME DiscoveryInv, SearchInv, [Next]_vars
    PROVE  SearchInv'
  <1>1. CASE Ask \/ ParseRepos \/ ScanRepo \/ GetVM \/ NextVM
    BY <1>1, SearchAsk, SearchParseRepos, SearchScanRepo, SearchGetVM, SearchNextVM
  <1>2. CASE SkipLine \/ TryRepo \/ NoRepo
    <2>1. pc = "resolve" /\ UNCHANGED <<env, pc, goal, op, vm, list, reply, unsure>>
      BY <1>2 DEF SkipLine, TryRepo, NoRepo, AtLine, Found, NextRepo
    <2> QED  BY <2>1, SearchResolve
  <1>3. CASE Resolved
    <2>1. pc = "resolve" /\ goal # "find"
      BY <1>3 DEF Resolved, SearchInv
    <2>2. CASE Proceed(vm, "check") /\ UNCHANGED todo
      BY <2>1, <2>2, SearchProceed
    <2>3. CASE goal = "check" /\ Verdict(AllCloneable)
      BY <2>1, <2>3, SearchVerdict DEF AllCloneable
    <2>4. CASE \E code \in {"accepted", "badrequest"} : Answer(code)
      BY <2>4, SearchAnswer
    <2> QED  BY <1>3, <2>2, <2>3, <2>4 DEF Resolved
  <1>4. CASE ReadFails
    <2>1. CASE Answer("error")
      BY <2>1, SearchAnswer
    <2>2. CASE pc = "repos" /\ goal = "check" /\ Verdict(FALSE)
      BY <2>2, SearchVerdict
    <2> QED  BY <1>4, <2>1, <2>2 DEF ReadFails
  <1>5. CASE (\E r \in Repos : PresentRepo(r) \/ RefreshMeta(r)) \/ (\E v \in VMs : MoveVM(v))
    BY <1>5, SearchChanges
  <1>6. CASE UNCHANGED vars
    <2>1. UNCHANGED <<present, where, pc, goal, op, vm, order, k, todo, listed, reply, unsure>>
      BY <1>6 DEF vars, env, loop, list
    <2>2. /\ Distinct(order)' = Distinct(order) /\ \A v : OnceIn(v, todo') = OnceIn(v, todo)
          /\ Scanned' = Scanned /\ Here' = Here /\ Past' = Past /\ Busy' = Busy /\ Sure' = Sure
      BY <2>1 DEF Distinct, Scanned, Here, Past, Busy, Sure
    <2>3. (\A v \in Sure : SearchedFor(v)) => (\A v \in Sure' : SearchedFor(v)')
      BY <2>1, <2>2 DEF SearchedFor, OnceIn
    <2>4. Divided => Divided'
      BY <2>1, <2>2 DEF Divided, DividedFor, OnceIn
    <2>5. MissingIsMissing' /\ ListIsComplete'
      BY <2>1 DEF SearchInv, MissingIsMissing, ListIsComplete
    <2> QED  BY <2>1, <2>2, <2>3, <2>4, <2>5 DEF SearchInv
  <1> QED  BY <1>1, <1>2, <1>3, <1>4, <1>5, <1>6 DEF Next, Advance

-----------------------------------------------------------------------------
\* Disks (vms.go:192) leaves out no line that names a file, and keeps their order,
\* whatever lines it passes over in between.
THEOREM NoneIsLost == Spec => []NoDiskLost
  <1>1. Init => NoDiskLost
    BY NoDiskLostInit
  <1>2. DiscoveryInv /\ NoDiskLost /\ [Next]_vars => NoDiskLost'
    BY NoDiskLostStep
  <1> QED  BY <1>1, <1>2, DiscoveryInvariant, PTL DEF Spec

\* The search for VMs (vms.go:290) divides those of the host into the ones listed
\* and the ones to come, but for those that are moved or missed.
THEOREM SearchInvariant == Spec => []SearchInv
  <1>1. Init => SearchInv
    BY SearchInit
  <1>2. DiscoveryInv /\ SearchInv /\ [Next]_vars => SearchInv'
    BY SearchStep
  <1> QED  BY <1>1, <1>2, DiscoveryInvariant, PTL DEF Spec

\* GetVM (vms.go:343) reports a VM missing only if it is, or it was moved, or its own
\* repository was missed, presented or taken: whatever happens to other VMs and
\* repositories, and in whatever order these come.
THEOREM MissedIsMissing == Spec => []MissingIsMissing
  <1>1. SearchInv => MissingIsMissing
    BY DEF SearchInv
  <1> QED  BY <1>1, SearchInvariant, PTL

\* ListVirtualMachines (manager.go:90) lists every VM of the host once, and no VM
\* that is gone, although others move and other repositories come and go.
THEOREM NoneIsUnlisted == Spec => []ListIsComplete
  <1>1. SearchInv => ListIsComplete
    BY DEF SearchInv
  <1> QED  BY <1>1, SearchInvariant, PTL

-----------------------------------------------------------------------------
(***************************************************************************)
(* RequestsComeToAnEnd.                                                    *)
(***************************************************************************)
\* The places of Left.
Lines == IF pc = "resolve" THEN Len(Config[vm]) + 1 - i ELSE 0
Tries == Len(order) + 1 - k

LeftFacts ==
    /\ DOMAIN Left = 1 .. 6
    /\ Left[1] = IF Finding THEN 1 ELSE 0
    /\ Left[2] = IF Finding THEN 0 ELSE Len(todo)
    /\ Left[3] = Purposes
    /\ Left[4] = Phases[pc]
    /\ Left[5] = Lines
    /\ Left[6] = Tries
    /\ \A n \in 1 .. 6 : Left[n] \in Nat

LEMMA LeftOK == TypeOK => LeftFacts
  <1> SUFFICES ASSUME TypeOK PROVE LeftFacts
    OBVIOUS
  <1> DEFINE a1 == IF Finding THEN 1 ELSE 0
             a2 == IF Finding THEN 0 ELSE Len(todo)
  <1>1. a1 \in Nat /\ a2 \in Nat
    BY DEF TypeOK
  <1>2. Purposes \in Nat
    BY DEF TypeOK, Purposes
  <1>3. Phases[pc] \in Nat
    BY DEF TypeOK, Phases
  <1>4. Lines \in Nat
    <2>1. CASE pc = "resolve"
      <3>1. vm \in VMs /\ i \in Nat \ {0} /\ i <= Len(Config[vm]) + 1 /\ Len(Config[vm]) \in Nat
        BY <2>1, DiscoveryAssumption DEF TypeOK
      <3> QED  BY <2>1, <3>1 DEF Lines
    <2> QED  BY <2>1 DEF Lines
  <1>5. Tries \in Nat
    BY DEF TypeOK, Tries
  <1>6. Left = <<a1, a2, Purposes, Phases[pc], Lines, Tries>>
    BY DEF Left, Lines, Tries
  <1> HIDE DEF a1, a2
  <1>7. /\ DOMAIN Left = 1 .. 6 /\ Left[1] = a1 /\ Left[2] = a2 /\ Left[3] = Purposes
        /\ Left[4] = Phases[pc] /\ Left[5] = Lines /\ Left[6] = Tries
    BY <1>6
  <1>8. \A n \in 1 .. 6 : Left[n] \in Nat
    BY <1>1, <1>2, <1>3, <1>4, <1>5, <1>7
  <1> QED  BY <1>7, <1>8 DEF a1, a2, LeftFacts

LEMMA LeftThen == TypeOK' => LeftFacts'
  BY LeftOK, PTL

\* One of the six falls, and those before it stay.
LEMMA LessAt ==
    ASSUME TypeOK, TypeOK', NEW n \in 1 .. 6, Left'[n] < Left[n],
           \A m \in 1 .. n - 1 : Left'[m] = Left[m]
    PROVE  Less(Left', Left)
  <1>1. DOMAIN Left = 1 .. 6 /\ \A m \in 1 .. 6 : Left'[m] \in Nat
    BY LeftOK, LeftThen DEF LeftFacts
  <1> QED  BY <1>1 DEF Less

\* A search is over once its request looks for the VMs no more.
LEMMA FoundLess ==
    ASSUME TypeOK, TypeOK', Finding, ~ Finding'
    PROVE  Less(Left', Left)
  <1>1. Left[1] = 1 /\ Left'[1] = 0
    BY LeftOK, LeftThen DEF LeftFacts
  <1> QED  BY <1>1, LessAt

\* So is a purpose, once the next one is come to for the same VM.
LEMMA PurposeLess ==
    ASSUME TypeOK, TypeOK', ~ Finding, ~ Finding', Len(todo') = Len(todo), Purposes' < Purposes
    PROVE  Less(Left', Left)
  <1>1. Left[1] = 0 /\ Left'[1] = 0 /\ Left'[2] = Left[2] /\ Left'[3] < Left[3]
    BY LeftOK, LeftThen DEF LeftFacts
  <1>2. \A m \in 1 .. 3 - 1 : Left'[m] = Left[m]
    BY <1>1
  <1> QED  BY <1>1, <1>2, LessAt

LEMMA ShorterLess ==
    ASSUME TypeOK, TypeOK', ~ Finding, ~ Finding', Len(todo') < Len(todo)
    PROVE  Less(Left', Left)
  <1>1. Left[1] = 0 /\ Left'[1] = 0 /\ Left'[2] < Left[2]
    BY LeftOK, LeftThen DEF LeftFacts
  <1>2. \A m \in 1 .. 2 - 1 : Left'[m] = Left[m]
    BY <1>1
  <1> QED  BY <1>1, <1>2, LessAt

LEMMA AnswerLess ==
    ASSUME TypeOK, TypeOK', pc # "idle", NEW code, Answer(code)
    PROVE  Less(Left', Left)
  <1>1. pc' = "idle" /\ todo' = << >> /\ ~ Finding'
    BY DEF Answer, Finding
  <1>2. todo \in Seq(VMs) /\ Len(todo') = 0 /\ Purposes' = 0
    BY <1>1 DEF TypeOK, Purposes
  <1>3. Purposes > 0
    <2>1. goal \in {"find", "describe", "check", "clone"}
      BY DEF TypeOK
    <2>2. [clone |-> 2, check |-> 3, describe |-> 4, find |-> 5][goal] > 0
      BY <2>1
    <2>3. CASE pc = "next"
      BY <2>3 DEF Purposes
    <2>4. CASE pc # "next"
      BY <2>2, <2>4 DEF Purposes
    <2> QED  BY <2>3, <2>4
  <1>4. CASE Finding
    BY <1>1, <1>4, FoundLess
  <1>5. CASE ~ Finding /\ todo = << >>
    BY <1>1, <1>2, <1>3, <1>5, PurposeLess
  <1>6. CASE ~ Finding /\ todo # << >>
    <2>1. Len(todo) > 0
      BY <1>2, <1>6
    <2> QED  BY <1>1, <1>2, <1>6, <2>1, ShorterLess
  <1> QED  BY <1>4, <1>5, <1>6

LEMMA VerdictLess ==
    ASSUME TypeOK, TypeOK', pc \in {"repos", "resolve"}, goal = "check", NEW ok, Verdict(ok)
    PROVE  Less(Left', Left)
  <1>1. ~ Finding /\ Purposes = 3
    BY DEF Finding, Purposes
  <1>2. CASE \E code : Answer(code)
    BY <1>2, AnswerLess
  <1>3. CASE pc' = "next" /\ todo' = todo
    BY <1>1, <1>3, PurposeLess DEF Finding, Purposes
  <1>4. CASE Proceed(vm, "clone") /\ UNCHANGED todo
    BY <1>1, <1>4, PurposeLess DEF Finding, Purposes, Proceed
  <1> QED  BY <1>2, <1>3, <1>4 DEF Verdict

\* The repositories are read for the same purpose as before.
LEMMA SamePurpose ==
    ASSUME TypeOK, TypeOK', pc \notin {"idle", "next"}, pc' \notin {"idle", "next"}, goal' = goal,
           Finding' = Finding, Finding \/ todo' = todo
    PROVE  \A m \in 1 .. 3 : Left'[m] = Left[m]
  <1>1. Purposes' = Purposes
    BY DEF Purposes
  <1>2. Left'[1] = Left[1] /\ Left'[2] = Left[2] /\ Left'[3] = Left[3]
    BY <1>1, LeftOK, LeftThen DEF LeftFacts
  <1> QED  BY <1>2

LEMMA ParseReposLess ==
    ASSUME DiscoveryInv, TypeOK', ParseRepos
    PROVE  Less(Left', Left)
  <1>1. TypeOK /\ pc = "repos" /\ pc' = (IF goal = "find" THEN "scan" ELSE "resolve") /\ goal' = goal
        /\ todo' = todo
    BY DEF DiscoveryInv, ParseRepos, list
  <1>2. Finding' = Finding
    BY <1>1 DEF Finding
  <1>3. \A m \in 1 .. 4 - 1 : Left'[m] = Left[m]
    BY <1>1, <1>2, SamePurpose
  <1>4. Left'[4] < Left[4]
    <2>1. Left[4] = Phases[pc] /\ Left'[4] = Phases[pc']
      BY <1>1, LeftOK, LeftThen DEF LeftFacts, Phases
    <2> QED  BY <1>1, <2>1 DEF Phases
  <1> QED  BY <1>1, <1>3, <1>4, LessAt

LEMMA ScanRepoLess ==
    ASSUME DiscoveryInv, SearchInv, TypeOK', ScanRepo
    PROVE  Less(Left', Left)
  <1>1. TypeOK /\ pc = "scan" /\ pc' = pc /\ goal = "find" /\ goal' = goal /\ order' = order /\ k' = k + 1
    BY DEF DiscoveryInv, SearchInv, ScanRepo
  <1>2. Finding /\ Finding' = Finding
    BY <1>1 DEF Finding
  <1>3. \A m \in 1 .. 3 : Left'[m] = Left[m]
    BY <1>1, <1>2, SamePurpose
  <1>4. Lines = 0 /\ Lines' = 0 /\ Tries' < Tries
    BY <1>1 DEF Lines, Tries, TypeOK
  <1>5. Left'[4] = Left[4] /\ Left'[5] = Left[5] /\ Left'[6] < Left[6]
    BY <1>1, <1>4, LeftOK, LeftThen DEF LeftFacts, Phases
  <1>6. \A m \in 1 .. 6 - 1 : Left'[m] = Left[m]
    BY <1>3, <1>5
  <1> QED  BY <1>1, <1>5, <1>6, LessAt

\* The loops of Disks.
LEMMA DisksLess ==
    ASSUME DiscoveryInv, TypeOK', AtLine, UNCHANGED <<pc, goal, vm, todo, order>>,
           i' > i \/ (i' = i /\ k' = k + 1)
    PROVE  Less(Left', Left)
  <1>1. /\ TypeOK /\ pc = "resolve" /\ vm \in VMs /\ Len(Config[vm]) \in Nat /\ Len(order) \in Nat
        /\ i \in Nat /\ k \in Nat /\ i' \in Nat
    BY DiscoveryAssumption DEF DiscoveryInv, TypeOK, AtLine
  <1>2. Finding' = Finding
    BY DEF Finding
  <1>3. \A m \in 1 .. 3 : Left'[m] = Left[m]
    BY <1>1, <1>2, SamePurpose
  <1>4. Left'[4] = Left[4]
    BY <1>1, LeftOK, LeftThen DEF LeftFacts, Phases
  <1>5. Lines = Len(Config[vm]) + 1 - i /\ Lines' = Len(Config[vm]) + 1 - i'
    BY <1>1 DEF Lines
  <1>6. Left[5] = Lines /\ Left'[5] = Lines' /\ Left[6] = Tries /\ Left'[6] = Tries'
    BY <1>1, LeftOK, LeftThen DEF LeftFacts
  <1>7. CASE i' > i
    <2>1. Left'[5] < Left[5]
      BY <1>1, <1>5, <1>6, <1>7
    <2>2. \A m \in 1 .. 5 - 1 : Left'[m] = Left[m]
      BY <1>3, <1>4
    <2> QED  BY <1>1, <2>1, <2>2, LessAt
  <1>8. CASE i' = i /\ k' = k + 1
    <2>1. Left'[5] = Left[5] /\ Left'[6] < Left[6]
      BY <1>1, <1>5, <1>6, <1>8 DEF Tries
    <2>2. \A m \in 1 .. 6 - 1 : Left'[m] = Left[m]
      BY <1>3, <1>4, <2>1
    <2> QED  BY <1>1, <2>1, <2>2, LessAt
  <1> QED  BY <1>7, <1>8

LEMMA ResolvedLess ==
    ASSUME DiscoveryInv, SearchInv, TypeOK', Resolved
    PROVE  Less(Left', Left)
  <1>1. TypeOK /\ pc = "resolve" /\ ~ Finding
    BY DEF DiscoveryInv, Resolved, Finding
  <1>2. CASE goal = "describe" /\ Proceed(vm, "check") /\ UNCHANGED todo
    BY <1>1, <1>2, PurposeLess DEF Finding, Purposes, Proceed
  <1>3. CASE goal = "check" /\ Verdict(AllCloneable)
    BY <1>1, <1>3, VerdictLess
  <1>4. CASE \E code : Answer(code)
    BY <1>1, <1>4, AnswerLess
  <1> QED  BY <1>2, <1>3, <1>4 DEF Resolved

LEMMA NextVMLess ==
    ASSUME DiscoveryInv, SearchInv, TypeOK', NextVM
    PROVE  Less(Left', Left)
  <1>1. TypeOK /\ pc \in {"scan", "next"} /\ todo \in Seq(VMs) /\ (pc = "scan" => goal = "find")
    BY DEF DiscoveryInv, SearchInv, TypeOK, NextVM
  <1>2. CASE Answer("listed")
    BY <1>1, <1>2, AnswerLess
  <1>3. CASE todo # << >> /\ Proceed(Head(todo), "describe") /\ todo' = Tail(todo)
    <2>1. ~ Finding'
      BY <1>3 DEF Proceed, Finding
    <2>2. Len(todo') < Len(todo)
      BY <1>1, <1>3
    <2> QED  BY <1>1, <2>1, <2>2, FoundLess, ShorterLess
  <1> QED  BY <1>2, <1>3 DEF NextVM

LEMMA GetVMLess ==
    ASSUME DiscoveryInv, SearchInv, TypeOK', GetVM
    PROVE  Less(Left', Left)
  <1>1. TypeOK /\ pc = "scan" /\ Finding
    BY DEF DiscoveryInv, SearchInv, GetVM, Finding
  <1>2. ~ Finding'
    BY DEF GetVM, Answer, Proceed, Finding
  <1> QED  BY <1>1, <1>2, FoundLess

\* What a step of a request leaves to do is less.
LEMMA LessStep ==
    ASSUME DiscoveryInv, SearchInv, [Next]_vars
    PROVE  LessToDo
  <1> SUFFICES ASSUME Advance \/ ReadFails PROVE Less(Left', Left)
    BY DEF LessToDo
  <1>1. TypeOK /\ TypeOK'
    BY DiscoveryStep DEF DiscoveryInv
  <1>0. i + 1 > i
    BY DEF DiscoveryInv, TypeOK
  <1>2. CASE SkipLine
    <2>1. AtLine /\ UNCHANGED <<pc, goal, vm, todo, order>> /\ i' = i + 1
      BY <1>2 DEF SkipLine, list
    <2> QED  BY <1>0, <1>1, <2>1, DisksLess
  <1>3. CASE TryRepo
    <2>1. /\ AtLine /\ UNCHANGED <<pc, goal, vm, todo, order>>
          /\ i' = i + 1 \/ (i' = i /\ k' = k + 1)
      BY <1>3 DEF TryRepo, Found, NextRepo, list
    <2> QED  BY <1>0, <1>1, <2>1, DisksLess
  <1>4. CASE NoRepo
    <2>1. AtLine /\ UNCHANGED <<pc, goal, vm, todo, order>> /\ i' = i + 1
      BY <1>4 DEF NoRepo, Found, list
    <2> QED  BY <1>0, <1>1, <2>1, DisksLess
  <1>5. CASE ReadFails
    <2>1. pc # "idle"
      BY <1>5 DEF ReadFails
    <2>2. CASE Answer("error")
      BY <1>1, <2>1, <2>2, AnswerLess
    <2>3. CASE pc = "repos" /\ goal = "check" /\ Verdict(FALSE)
      BY <1>1, <2>3, VerdictLess
    <2> QED  BY <1>5, <2>2, <2>3 DEF ReadFails
  <1> QED
    BY <1>1, <1>2, <1>3, <1>4, <1>5, ParseReposLess, ScanRepoLess, GetVMLess, NextVMLess, ResolvedLess
       DEF Advance

\* Each step of a request leaves it less to do, for any repositories, VMs and disk
\* lines and whatever changes: it reads the repositories again but never for ever.
THEOREM RequestsEnd == Spec => RequestsComeToAnEnd
  <1>1. DiscoveryInv /\ SearchInv /\ [Next]_vars => [LessToDo]_vars
    BY LessStep
  <1> QED  BY <1>1, DiscoveryInvariant, SearchInvariant, PTL DEF Spec, RequestsComeToAnEnd
=============================================================================
