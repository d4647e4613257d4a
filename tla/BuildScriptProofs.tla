-------------------------- MODULE BuildScriptProofs --------------------------
(***************************************************************************)
(* Proofs about build.py, for every command line, every set of branches    *)
(* and commits, and every number of invocations in one working tree.       *)
(***************************************************************************)
EXTENDS BuildScript, SequenceTheorems, TLAPS

(***************************************************************************)
(* The inductive invariant.                                                *)
(***************************************************************************)
\* The loop over the targets has begun, or build.py has succeeded.
Building == pc \in {"loop", "compile", "package", "types", "fpm", "back"} \/ status = "0"

\* Where main() is tells which targets are built and packaged.
Phases ==
    /\ pc # "exited" => status = "none" /\ invocation \in 1..MaxInvocations
    /\ pc \in {"check", "move", "get"} => todo = {} /\ built = {} /\ outfiles = {}
    /\ pc = "exited" => todo = {} /\ (status # "0" => built = {} /\ outfiles = {})
    /\ pc \notin {"package", "types", "fpm"} => toPack = {}
    /\ Building => todo \subseteq Targets /\ built = Targets \ todo
    /\ pc \in {"loop", "compile"} => outfiles = {}
    /\ pc = "compile" => target \in todo
    /\ pc \in {"package", "types", "fpm", "back"} => todo = {}
    /\ pc \in {"types", "fpm"} => target \in built \ toPack

\* What is checked out is what was asked for.
Options ==
    /\ args.static = asked.static /\ args.clean = asked.clean /\ args.package = asked.package
    /\ pc \in {"check", "move"} =>
          /\ asked \in Request /\ DOMAIN args = DOMAIN asked
          /\ args.branch = Or(asked.branch, head.branch)
          /\ args.commit = Or(asked.commit, head.commit)
          /\ args.fullHash = asked.fullHash
    /\ pc = "move" =>
          head = orig /\ ~(args.branch # head.branch /\ OtherHash(head.commit))
    /\ pc \in {"move", "get"} \/ Building =>
          args.platform \in DOMAIN supported_builds \cup {"all"}
    /\ pc \in {"check", "move", "get"} \/ Building =>
          args.arch \in Architectures \cup {"all"}
    /\ pc \in {"check", "move", "get"} \/ Building => args.nightly \in BOOLEAN
    /\ (pc \in {"move", "get"} \/ Building) /\ args.nightly => args.iteration = "0"
    /\ pc \in {"get", "loop", "compile", "package", "types", "fpm"} =>
          head.commit \in Requested

\* A file holds the binary that was asked for of a target.
IsBinaryOf(g, t) ==
    /\ g.binary.os = t.platform /\ g.binary.static = IsStatic(t)
    /\ g.binary.arch = GOARCH(t.arch) /\ g.binary.arch \in GOARCHs
    /\ g.binary.arm = GOARM(GOARCH(t.arch))
    /\ g.binary.commit \in Requested

\* The binary of a target that is built is on disk, and is the one asked for.
Binaries ==
    Building => \A t \in built : \E g \in MadeNow(Dir(t), BinaryName) : IsBinaryOf(g, t)

\* build_root holds the binary of the target that is packaged.
Rooted ==
    pc \in {"types", "fpm"} =>
        /\ root.layout = Layout(IsStatic(target))
        /\ \E g \in MadeNow(Dir(target), BinaryName) : g.binary = root.binary

\* fpm has made the package that is to be renamed.
FpmDone ==
    pc = "fpm" =>
        /\ types # <<>> /\ Head(types) # "tar"
        /\ MadeNow(Dir(target), FpmOutput) # {}

\* What package() returns: archives, and files that have been renamed.
Returned == \A p \in outfiles : p.name.type = "tar" \/ p.name.iteration = ""

\* Nothing is packaged before everything is built.
Unpackaged ==
    pc \in {"check", "move", "get", "loop", "compile"} =>
        \A f \in disk : f.by = invocation => f.name = BinaryName

\* The package types there are.
Kinds == {"deb", "rpm", "tar"}

HasPackage(t, type) ==
    type = "tar" \/ ~IsStatic(t) => \E f \in Packages(t) : f.name.type = type

\* The target at hand still has to be made a package of that type.
Pending(t, type) ==
    pc \in {"types", "fpm"} /\ t = target /\ \E j \in 1..Len(types) : types[j] = type

Complete ==
    /\ pc \in {"types", "fpm"} => types \in Seq(Kinds)
    /\ (pc \in {"package", "types", "fpm", "back"} \/ status = "0") /\ asked.package =>
          \A t \in built \ toPack : \A i \in 1..Len(supported_packages[t.platform]) :
              LET type == supported_packages[t.platform][i]
              IN HasPackage(t, type) \/ Pending(t, type)

\* What a clean build has come to holds nothing of an earlier one.
Clean ==
    Building /\ asked.clean =>
        \A f \in disk : \A t \in Targets :
            f.dir = Dir(t) /\ (t \notin todo \/ (pc = "compile" /\ t = target))
                => f.by = invocation

IInv ==
    /\ TypeOK /\ Phases /\ Options /\ Binaries /\ Rooted /\ FpmDone /\ Returned
    /\ Unpackaged /\ Complete /\ Clean /\ PackagesHoldTheirBuild

-----------------------------------------------------------------------------
(***************************************************************************)
(* Targets and their directories.                                          *)
(***************************************************************************)
\* The packages of a supported platform.
LEMMA Supported ==
    ASSUME NEW p \in DOMAIN supported_builds
    PROVE  supported_packages[p] \in Seq(Kinds)
<1>1. p \in {"darwin", "linux"} BY DEF supported_builds
<1>2. <<"tar">> \in Seq(Kinds) /\ <<"deb", "rpm", "tar">> \in Seq(Kinds) BY DEF Kinds
<1>3. CASE p = "darwin" BY <1>2, <1>3 DEF supported_packages
<1>4. CASE p = "linux" BY <1>2, <1>4 DEF supported_packages
<1>5. QED BY <1>1, <1>3, <1>4

\* A target is a platform that is asked for, and one of its architectures.
LEMMA TargetFacts ==
    ASSUME NEW t \in Targets
    PROVE  /\ t.platform \in Platforms /\ t.arch \in Archs(t.platform)
           /\ t = [platform |-> t.platform, arch |-> t.arch]
<1>1. PICK p \in Platforms : t \in [platform : {p}, arch : Archs(p)] BY DEF Targets
<1>2. QED BY <1>1

\* Two targets are built in directories neither of which is below the other.
LEMMA DirsApart ==
    ASSUME NEW t \in Targets, NEW u \in Targets, t # u
    PROVE  /\ Dir(t) # Dir(u)
           /\ \A f : f.dir = Dir(t) => ~Below(Dir(u), f)
<1>1. ~single_build
  <2> SUFFICES ASSUME single_build PROVE FALSE OBVIOUS
  <2>1. /\ Platforms = {args.platform} /\ \A p : Archs(p) = {args.arch}
    BY DEF single_build, Platforms, Archs
  <2>2. t = u BY <2>1, TargetFacts
  <2>3. QED BY <2>2
<1>2. /\ Dir(t) = <<args.outdir, t.platform, t.arch>>
      /\ Dir(u) = <<args.outdir, u.platform, u.arch>>
  BY <1>1 DEF Dir
<1>3. t.platform # u.platform \/ t.arch # u.arch BY TargetFacts
<1>4. Dir(t) # Dir(u) BY <1>2, <1>3
<1>5. ASSUME NEW f, f.dir = Dir(t), Below(Dir(u), f) PROVE FALSE
  <2>1. Len(Dir(t)) = 3 /\ Len(Dir(u)) = 3 /\ Dir(u) # <<".">> BY <1>2
  <2>2. SubSeq(Dir(t), 1, 3) = Dir(u) BY <1>5, <2>1 DEF Below
  <2>3. Dir(t) \in Seq({args.outdir, t.platform, t.arch}) BY <1>2
  <2>4. SubSeq(Dir(t), 1, 3) = Dir(t) BY <2>1, <2>3, SubSeqFull
  <2>5. QED BY <1>4, <2>2, <2>4
<1>6. QED BY <1>4, <1>5

\* A file in a directory is below it.
LEMMA InDirIsBelow ==
    ASSUME NEW t \in Targets, NEW f, f.dir = Dir(t)
    PROVE  Below(Dir(t), f)
<1>1. CASE single_build
  <2>1. Dir(t) = <<args.outdir>> /\ Len(Dir(t)) = 1 BY <1>1 DEF Dir
  <2>2. Dir(t) \in Seq({args.outdir}) BY <2>1
  <2>3. SubSeq(Dir(t), 1, Len(Dir(t))) = Dir(t) BY <2>2, SubSeqFull
  <2>4. QED BY <2>1, <2>3 DEF Below
<1>2. CASE ~single_build
  <2>1. Dir(t) = <<args.outdir, t.platform, t.arch>> /\ Len(Dir(t)) = 3 BY <1>2 DEF Dir
  <2>2. Dir(t) \in Seq({args.outdir, t.platform, t.arch}) BY <2>1
  <2>3. SubSeq(Dir(t), 1, Len(Dir(t))) = Dir(t) BY <2>2, SubSeqFull
  <2>4. QED BY <2>1, <2>3 DEF Below
<1>3. QED BY <1>1, <1>2

\* A target of a supported platform has package types.
LEMMA TargetKinds ==
    ASSUME NEW t \in Targets, args.platform \in DOMAIN supported_builds \cup {"all"}
    PROVE  /\ t.platform \in DOMAIN supported_builds
           /\ supported_packages[t.platform] \in Seq(Kinds)
<1>1. t.platform \in DOMAIN supported_builds BY TargetFacts DEF Platforms
<1>2. QED BY <1>1, Supported

\* The binary of an architecture is for what its name means, if Go knows it at all;
\* but armel and arm64 are taken for arm.
LEMMA ArchFacts ==
    ASSUME NEW arch \in Architectures, GOARCH(arch) \in GOARCHs
    PROVE  <<GOARCH(arch), GOARM(GOARCH(arch))>> =
              Meaning[IF arch \in TakenForArm THEN "armhf" ELSE arch]
<1> USE DEF GOARCH, GOARM, GOARCHs, Plain, StaticArch, Arms, NoArm, TakenForArm
<1>1. /\ Meaning["amd64"] = <<"amd64", 0>> /\ Meaning["static_amd64"] = <<"amd64", 0>>
      /\ Meaning["i386"] = <<"386", 0>> /\ Meaning["i686"] = <<"386", 0>>
      /\ Meaning["arm"] = <<"arm", 6>> /\ Meaning["armhf"] = <<"arm", 6>>
  BY DEF Meaning
<1>2. CASE arch \in {"amd64", "static_amd64"} BY <1>1, <1>2
<1>3. CASE arch \in {"i386", "i686"} BY <1>1, <1>3
<1>4. CASE arch \in {"arm", "armel", "armhf", "arm64"} BY <1>1, <1>4
<1>5. CASE arch = "aarch64" BY <1>5
<1>6. QED BY <1>2, <1>3, <1>4, <1>5 DEF Architectures

\* The architecture of a target has one of the names there are.
LEMMA TargetArch ==
    ASSUME NEW t \in Targets, args.platform \in DOMAIN supported_builds \cup {"all"},
           args.arch \in Architectures \cup {"all"}
    PROVE  t.arch \in Architectures
<1>1. t.arch \in Archs(t.platform) /\ t.platform \in DOMAIN supported_builds
  BY TargetFacts DEF Platforms
<1>2. CASE args.arch # "all" BY <1>1, <1>2 DEF Archs
<1>3. CASE args.arch = "all"
  <2>1. t.arch \in supported_builds[t.platform] BY <1>1, <1>3 DEF Archs
  <2>2. t.platform \in {"darwin", "linux"} BY <1>1 DEF supported_builds
  <2>3. t.arch \in {"amd64", "static_amd64"} BY <2>1, <2>2 DEF supported_builds
  <2>4. QED BY <2>3 DEF Architectures
<1>4. QED BY <1>2, <1>3

\* The architecture taken from uname has one of the names there are.
LEMMA SystemArchFacts == SystemArch(Machine) \in Architectures
<1>1. Machine \in Machines BY BuildAssumption
<1>2. QED BY <1>1 DEF SystemArch, Machines, Arms, Architectures

\* No package has the name of a binary.
LEMMA PackageNames ==
    ASSUME NEW name, name.type \in Kinds
    PROVE  name # BinaryName
<1>1. BinaryName.type = "binary" BY DEF BinaryName, Name
<1>2. QED BY <1>1 DEF Kinds

\* What was packaged stays as it is while files, options and targets do.
LEMMA PackagesStay ==
    ASSUME IInv, UNCHANGED <<disk, args, asked, orig, invocation, built, outfiles>>
    PROVE  PackagesHoldTheirBuild' /\ Returned'
<1>1. PackagesHoldTheirBuild /\ Returned BY DEF IInv
<1>2. PackagesHoldTheirBuild'
  BY <1>1 DEF PackagesHoldTheirBuild, HoldsItsBuild, Packages, MadeNow, Dir, single_build,
                Requested
<1>3. Returned' BY <1>1 DEF Returned
<1>4. QED BY <1>2, <1>3

\* There is nothing to say of packages before the first is made.
LEMMA NonePackaged ==
    ASSUME \A f \in disk' : f.by = invocation' => f.name = BinaryName, outfiles' = {}
    PROVE  PackagesHoldTheirBuild' /\ Returned'
<1>1. \A t : Packages(t)' = {} BY DEF Packages
<1>2. QED BY <1>1 DEF PackagesHoldTheirBuild, Returned

-----------------------------------------------------------------------------
(***************************************************************************)
(* What is checked out.                                                    *)
(***************************************************************************)
\* A branch stands at its tip.
LEMMA HeadFacts ==
    ASSUME NEW h \in Heads
    PROVE  /\ h.branch \in Branches \cup {Detached} /\ h.commit \in Commits
           /\ h = [branch |-> h.branch, commit |-> h.commit]
           /\ h.branch # Detached => h.branch \in Branches /\ h.commit = Tip[h.branch]
<1>1. \A b \in Branches : Tip[b] \in Commits BY BuildAssumption DEF Branches
<1>2. CASE h \in {[branch |-> b, commit |-> Tip[b]] : b \in Branches} BY <1>1, <1>2
<1>3. CASE h \in {[branch |-> Detached, commit |-> c] : c \in Commits} BY <1>3
<1>4. QED BY <1>2, <1>3 DEF Heads

\* git checkout leads to a state of the working tree.
LEMMA CheckOutFacts ==
    ASSUME head \in Heads, NEW b \in Branches \cup {Detached}
    PROVE  /\ CheckOut(b) \in Heads
           /\ b # Detached => CheckOut(b) = [branch |-> b, commit |-> Tip[b]]
<1>1. CASE b = Detached BY <1>1 DEF CheckOut
<1>2. CASE b \in Branches /\ b # Detached BY <1>2 DEF CheckOut, Heads
<1>3. QED BY <1>1, <1>2

-----------------------------------------------------------------------------
(***************************************************************************)
(* The invariant holds at the start, and when the process ends.            *)
(***************************************************************************)
\* Nothing is built yet.
LEMMA Initially == Init => IInv
<1> SUFFICES ASSUME Init PROVE IInv OBVIOUS
<1>1. ~Building BY DEF Init, Building
<1>2. TypeOK
  <2>1. head \in Heads /\ orig \in Heads BY DEF Init
  <2>2. invocation \in 0..MaxInvocations BY BuildAssumption DEF Init
  <2>3. /\ changes = {} /\ lost = FALSE /\ disk = {} /\ pc = "exited" /\ status = "none"
        /\ toPack = {} /\ built = {} /\ outfiles = {} /\ packDir = FALSE /\ leaked = FALSE
    BY DEF Init
  <2>4. QED BY <2>1, <2>2, <2>3 DEF TypeOK
<1>3. Phases /\ Options /\ Binaries /\ Rooted /\ FpmDone /\ Unpackaged /\ Complete /\ Clean
  BY <1>1 DEF Init, Phases, Options, Binaries, Rooted, FpmDone, Unpackaged, Complete, Clean
<1>4. PackagesHoldTheirBuild /\ Returned BY DEF Init, PackagesHoldTheirBuild, Returned
<1>5. QED BY <1>2, <1>3, <1>4 DEF IInv

\* A process that does not succeed leaves nothing that the invariant is about.
LEMMA FailStep ==
    ASSUME IInv, Exit("1") \/ Exit("killed"), UNCHANGED <<treeVars, disk, argVars, leaked>>,
           packDir' \in BOOLEAN
    PROVE  IInv'
<1>1. /\ pc' = "exited" /\ status' \in {"1", "killed"} /\ todo' = {} /\ toPack' = {}
      /\ built' = {} /\ outfiles' = {}
  BY DEF Exit, NoLocals
<1>2. /\ UNCHANGED <<head, changes, lost, disk, leaked>>
      /\ UNCHANGED <<go, invocation, asked, args, version, orig>>
  BY DEF treeVars, argVars
<1>3. Building' = FALSE BY <1>1 DEF Building
<1>4. TypeOK' BY <1>1, <1>2 DEF IInv, TypeOK
<1>5. Phases' BY <1>1, <1>3 DEF Phases
<1>6. Options' BY <1>1, <1>2, <1>3 DEF IInv, Options
<1>7. Binaries' /\ Rooted' /\ FpmDone' /\ Complete' /\ Clean'
  BY <1>1, <1>3 DEF Binaries, Rooted, FpmDone, Complete, Clean
<1>8. PackagesHoldTheirBuild' /\ Returned' BY <1>1 DEF PackagesHoldTheirBuild, Returned
<1>9. Unpackaged' BY <1>1 DEF Unpackaged
<1>10. QED BY <1>4, <1>5, <1>6, <1>7, <1>8, <1>9 DEF IInv

\* A developer's changes are not those of build.py.
LEMMA DevelopStep == IInv /\ Develop => IInv'
<1> SUFFICES ASSUME IInv, Develop PROVE IInv' OBVIOUS
<1>1. pc = "exited" /\ head' \in Heads /\ changes' \in Edits BY DEF Develop
<1>2. /\ UNCHANGED <<lost, disk, pc, status, packDir, leaked, built, outfiles>>
      /\ UNCHANGED <<go, invocation, asked, args, version, orig>>
      /\ UNCHANGED <<todo, target, toPack, root, types>>
  BY DEF Develop, argVars, localVars, madeVars, tempVars
<1>3. changes' \subseteq {"staged", "unstaged"} BY <1>1, BuildAssumption
<1>4. TypeOK'
  BY <1>1, <1>2, <1>3 DEF IInv, TypeOK, Targets, Platforms, Archs
<1>5. Phases' BY <1>1, <1>2 DEF IInv, Phases, Building, Targets, Platforms, Archs
<1>6. Options' BY <1>1, <1>2 DEF IInv, Options, Building
<1>7. Binaries'
  BY <1>1, <1>2 DEF IInv, Binaries, Building, IsBinaryOf, MadeNow, Dir, single_build,
                    IsStatic, Requested
<1>8. Rooted' BY <1>1, <1>2 DEF Rooted
<1>9. Complete'
  BY <1>1, <1>2 DEF IInv, Complete, HasPackage, Packages, Dir, single_build, Pending, IsStatic
<1>10. Clean'
  BY <1>1, <1>2 DEF IInv, Clean, Building, Dir, single_build, Targets, Platforms, Archs
<1>11. PackagesHoldTheirBuild' /\ Returned' BY <1>1, <1>2, PackagesStay
<1>12. Unpackaged' /\ FpmDone' BY <1>1, <1>2 DEF Unpackaged, FpmDone
<1>13. QED BY <1>4, <1>5, <1>6, <1>7, <1>8, <1>9, <1>10, <1>11, <1>12 DEF IInv

-----------------------------------------------------------------------------
(***************************************************************************)
(* Up to the builds.                                                       *)
(***************************************************************************)
\* The command line is read.
LEMMA InvokeStep == IInv /\ (\E a \in Requests : Invoke(a)) => IInv'
<1> SUFFICES ASSUME IInv, NEW a \in Requests, Invoke(a) PROVE IInv' OBVIOUS
<1>1. /\ pc = "exited" /\ pc' = "check" /\ status' = "none" /\ invocation < MaxInvocations
      /\ invocation' = invocation + 1 /\ asked' = a
      /\ args' = [a EXCEPT !.branch = Or(@, head.branch), !.commit = Or(@, head.commit),
                           !.platform = Or(@, Platform), !.arch = Or(@, SystemArch(Machine))]
      /\ built' = {} /\ outfiles' = {} /\ packDir' = FALSE
  BY DEF Invoke, Goto
<1>2. UNCHANGED <<head, changes, lost, disk, orig, leaked, todo, target, toPack, root, types>>
  BY DEF Invoke, treeVars, localVars
<1>3. a \in Request BY BuildAssumption
<1>4. /\ args'.branch = Or(a.branch, head.branch) /\ args'.commit = Or(a.commit, head.commit)
      /\ args'.static = a.static /\ args'.clean = a.clean /\ args'.package = a.package
      /\ DOMAIN args' = DOMAIN a /\ args'.fullHash = a.fullHash
      /\ args'.nightly = a.nightly /\ a.nightly \in BOOLEAN
      /\ args'.arch = Or(a.arch, SystemArch(Machine))
  BY <1>1, <1>3 DEF Request, CommandLine
<1>5. args'.arch \in Architectures \cup {"all"}
  BY <1>3, <1>4, SystemArchFacts DEF Request, CommandLine, Or
<1>6. Building' = FALSE BY <1>1 DEF Building
<1>7. todo = {} /\ toPack = {} BY <1>1 DEF IInv, Phases
<1>8. TypeOK'
  <2>1. invocation' \in 0..MaxInvocations BY <1>1, BuildAssumption DEF IInv, TypeOK
  <2>2. \A f \in disk' : f.by \in 1..invocation' BY <1>1, <1>2, <2>1 DEF IInv, TypeOK
  <2>3. QED BY <1>1, <1>2, <1>7, <2>1, <2>2 DEF IInv, TypeOK
<1>9. Phases'
  <2>1. invocation' \in 1..MaxInvocations BY <1>1, BuildAssumption DEF IInv, TypeOK
  <2>2. QED BY <1>1, <1>2, <1>6, <1>7, <2>1 DEF Phases
<1>10. Options' BY <1>1, <1>2, <1>3, <1>4, <1>6, <1>5 DEF Options
<1>11. Binaries' /\ Rooted' /\ FpmDone' /\ Complete' /\ Clean'
  BY <1>1, <1>6 DEF Binaries, Rooted, FpmDone, Complete, Clean
<1>12. PackagesHoldTheirBuild' /\ Returned' BY <1>1 DEF PackagesHoldTheirBuild, Returned
<1>13. Unpackaged'
  <2>1. \A f \in disk' : f.by \in 1..invocation /\ invocation \in Nat
    BY <1>2, BuildAssumption DEF IInv, TypeOK
  <2>2. \A f \in disk' : f.by # invocation' BY <1>1, <2>1
  <2>3. QED BY <2>2 DEF Unpackaged
<1>14. QED BY <1>8, <1>9, <1>10, <1>11, <1>12, <1>13 DEF IInv

\* The version and the branch to come back to.
LEMMA CheckStep == IInv /\ Check => IInv'
<1> SUFFICES ASSUME IInv, Check PROVE IInv' OBVIOUS
<1>1. /\ pc = "check" /\ pc' = "move" /\ ChecksPass /\ orig' = head
      /\ args' = IF args.nightly THEN [args EXCEPT !.iteration = "0"] ELSE args
  BY DEF Check, Goto
<1>2. /\ UNCHANGED <<head, changes, lost, disk, invocation, asked, status, built, outfiles>>
      /\ UNCHANGED <<todo, target, toPack, root, types, packDir, leaked>>
  BY DEF Check, treeVars, localVars, madeVars, tempVars
<1>3. asked \in Request /\ DOMAIN args = DOMAIN asked BY <1>1 DEF IInv, Options
<1>4. /\ args'.branch = args.branch /\ args'.commit = args.commit
      /\ args'.static = args.static /\ args'.clean = args.clean
      /\ args'.package = args.package /\ args'.platform = args.platform
      /\ args'.arch = args.arch /\ args'.fullHash = args.fullHash
      /\ args'.nightly = args.nightly
      /\ args'.nightly => args'.iteration = "0"
      /\ DOMAIN args' = DOMAIN asked
  <2>1. DOMAIN asked = {"branch", "commit", "fullHash", "platform", "arch", "outdir", "version",
                        "iteration", "clean", "noGet", "noUncommitted", "package",
                        "static", "nightly", "release"}
    BY <1>3 DEF Request, CommandLine
  <2>2. CASE args.nightly
    <3>1. args' = [args EXCEPT !.iteration = "0"] BY <1>1, <2>2
    <3>2. QED BY <1>3, <2>1, <3>1
  <2>3. CASE ~args.nightly BY <1>1, <1>3, <2>3
  <2>4. QED BY <2>2, <2>3
<1>5. status = "none" /\ todo = {} /\ toPack = {} /\ built = {} /\ outfiles = {}
  BY <1>1 DEF IInv, Phases
<1>6. Building' = FALSE BY <1>1, <1>2, <1>5 DEF Building
<1>7. TypeOK' BY <1>1, <1>2, <1>5 DEF IInv, TypeOK
<1>8. Phases' BY <1>1, <1>2, <1>5, <1>6 DEF IInv, Phases
<1>9. Options'
  BY <1>1, <1>2, <1>3, <1>4, <1>6 DEF IInv, Options, ChecksPass, OtherHash
<1>10. Binaries' /\ Rooted' /\ FpmDone' /\ Complete' /\ Clean'
  BY <1>1, <1>2, <1>5, <1>6 DEF Binaries, Rooted, FpmDone, Complete, Clean
<1>11. PackagesHoldTheirBuild' /\ Returned' BY <1>2, <1>5 DEF PackagesHoldTheirBuild, Returned
<1>12. Unpackaged' BY <1>1, <1>2 DEF IInv, Unpackaged
<1>13. QED BY <1>7, <1>8, <1>9, <1>10, <1>11, <1>12 DEF IInv

\* What is checked out afterwards is a commit that was asked for.
LEMMA MoveFacts ==
    ASSUME IInv, Move
    PROVE  head' \in Heads /\ head'.commit \in Requested
<1>1. /\ pc = "move"
      /\ head' = IF args.branch # orig.branch THEN CheckOut(args.branch)
                 ELSE IF OtherHash(orig.commit)
                 THEN [branch |-> Detached, commit |-> args.commit] ELSE head
  BY DEF Move, Goto
<1>2. /\ head = orig /\ asked \in Request /\ head \in Heads
      /\ args.branch = Or(asked.branch, head.branch)
      /\ args.commit = Or(asked.commit, head.commit) /\ args.fullHash = asked.fullHash
  BY <1>1 DEF IInv, Options, TypeOK
<1>3. /\ asked.branch \in Branches \cup {Default} /\ asked.commit \in Commits \cup {Default}
      /\ asked.fullHash => asked.commit # Default
  BY <1>2 DEF Request, CommandLine
<1>4. Detached \notin Branches BY BuildAssumption
<1>5. CASE args.branch # orig.branch
  <2>1. asked.branch # Default /\ args.branch = asked.branch BY <1>2, <1>5 DEF Or
  <2>2. asked.branch \in Branches /\ asked.branch # Detached BY <1>3, <1>4, <2>1
  <2>3. head' = [branch |-> asked.branch, commit |-> Tip[asked.branch]] /\ head' \in Heads
    BY <1>1, <1>2, <1>5, <2>1, <2>2, CheckOutFacts
  <2>4. head'.commit = Tip[asked.branch] BY <2>3
  <2>5. Tip[asked.branch] \in Requested
    <3>1. CASE asked.commit = Default BY <2>1, <3>1 DEF Requested
    <3>2. CASE asked.commit # Default
      <4>1. Requested = {Tip[asked.branch], asked.commit} BY <2>1, <3>2 DEF Requested
      <4>2. QED BY <4>1
    <3>3. QED BY <3>1, <3>2
  <2>6. QED BY <2>3, <2>4, <2>5
<1>6. CASE args.branch = orig.branch /\ OtherHash(orig.commit)
  <2>1. asked.commit # Default /\ args.commit = asked.commit
    BY <1>2, <1>3, <1>6 DEF Or, OtherHash
  <2>2. head' = [branch |-> Detached, commit |-> asked.commit] BY <1>1, <1>6, <2>1
  <2>3. head' \in Heads BY <1>3, <2>1, <2>2 DEF Heads
  <2>4. QED BY <2>1, <2>2, <2>3 DEF Requested
<1>7. CASE args.branch = orig.branch /\ ~OtherHash(orig.commit)
  <2>1. head' = head /\ args.commit = orig.commit BY <1>1, <1>7 DEF OtherHash
  <2>2. CASE asked.commit # Default
    <3>1. head.commit = asked.commit BY <1>2, <2>1, <2>2 DEF Or
    <3>2. QED BY <1>2, <2>1, <2>2, <3>1 DEF Requested
  <2>3. CASE asked.commit = Default /\ asked.branch = Default
    BY <1>2, <2>1, <2>3 DEF Requested
  <2>4. CASE asked.commit = Default /\ asked.branch # Default
    <3>1. head.branch = asked.branch BY <1>2, <1>7, <2>4 DEF Or
    <3>2. head.branch # Detached BY <1>3, <1>4, <2>4, <3>1
    <3>3. head.commit = Tip[asked.branch] BY <1>2, <3>1, <3>2, HeadFacts
    <3>4. QED BY <1>2, <2>1, <2>4, <3>3 DEF Requested
  <2>5. QED BY <2>2, <2>3, <2>4
<1>8. QED BY <1>5, <1>6, <1>7

\* git checkout.
LEMMA MoveStep == IInv /\ Move => IInv'
<1> SUFFICES ASSUME IInv, Move PROVE IInv' OBVIOUS
<1>1. /\ pc = "move" /\ pc' = "get"
      /\ UNCHANGED <<changes, lost, disk, status, built, outfiles, packDir, leaked>>
      /\ UNCHANGED <<go, invocation, asked, args, version, orig>>
      /\ UNCHANGED <<todo, target, toPack, root, types>>
  BY DEF Move, Goto, argVars, localVars, madeVars, tempVars
<1>2. head' \in Heads /\ head'.commit \in Requested BY MoveFacts
<1>3. status = "none" /\ todo = {} /\ toPack = {} /\ built = {} /\ outfiles = {}
  BY <1>1 DEF IInv, Phases
<1>4. Building' = FALSE BY <1>1, <1>3 DEF Building
<1>5. TypeOK' BY <1>1, <1>2, <1>3 DEF IInv, TypeOK
<1>6. Phases' BY <1>1, <1>3, <1>4 DEF IInv, Phases
<1>7. Options' BY <1>1, <1>2, <1>4 DEF IInv, Options, Requested
<1>8. Binaries' /\ Rooted' /\ FpmDone' /\ Complete' /\ Clean'
  BY <1>1, <1>3, <1>4 DEF Binaries, Rooted, FpmDone, Complete, Clean
<1>9. PackagesHoldTheirBuild' /\ Returned' BY <1>1, <1>3 DEF PackagesHoldTheirBuild, Returned
<1>10. Unpackaged' BY <1>1 DEF IInv, Unpackaged
<1>11. QED BY <1>5, <1>6, <1>7, <1>8, <1>9, <1>10 DEF IInv

\* The targets are known, and none is built.
LEMMA GoGetStep == IInv /\ GoGet => IInv'
<1> SUFFICES ASSUME IInv, GoGet PROVE IInv' OBVIOUS
<1>1. /\ pc = "get" /\ pc' = "loop" /\ todo' = Targets
      /\ UNCHANGED <<head, changes, lost, disk, status, built, outfiles, packDir, leaked>>
      /\ UNCHANGED <<go, invocation, asked, args, version, orig>>
      /\ UNCHANGED <<target, toPack, root, types>>
  BY DEF GoGet, Goto, treeVars, argVars, madeVars, tempVars
<1>2. status = "none" /\ toPack = {} /\ built = {} /\ outfiles = {}
  BY <1>1 DEF IInv, Phases
<1>3. Targets' = Targets BY <1>1 DEF Targets, Platforms, Archs
<1>4. TypeOK' BY <1>1, <1>2, <1>3 DEF IInv, TypeOK
<1>5. Phases' BY <1>1, <1>2, <1>3 DEF IInv, Phases, Building
<1>6. Options' BY <1>1, <1>2 DEF IInv, Options, Building, Requested
<1>7. Binaries' /\ Rooted' /\ Complete' BY <1>1, <1>2 DEF Binaries, Rooted, Complete
<1>8. Clean' BY <1>1, <1>3 DEF Clean
<1>9. PackagesHoldTheirBuild' /\ Returned' BY <1>1, <1>2 DEF PackagesHoldTheirBuild, Returned
<1>10. Unpackaged' /\ FpmDone' BY <1>1 DEF IInv, Unpackaged, FpmDone
<1>11. QED BY <1>4, <1>5, <1>6, <1>7, <1>8, <1>9, <1>10 DEF IInv

-----------------------------------------------------------------------------
(***************************************************************************)
(* build().                                                                *)
(***************************************************************************)
\* Cleaning the directory of a target leaves the binaries of the others.
LEMMA StartBuildStep == IInv /\ (\E t \in todo : StartBuild(t)) => IInv'
<1> SUFFICES ASSUME IInv, NEW t \in todo, StartBuild(t) PROVE IInv' OBVIOUS
<1>1. /\ pc = "loop" /\ pc' = "compile" /\ target' = t /\ leaked' = TRUE
      /\ disk' = IF args.clean THEN {f \in disk : ~Below(Dir(t), f)} ELSE disk
      /\ lost' \in BOOLEAN
      /\ UNCHANGED <<head, changes, status, built, outfiles, packDir>>
      /\ UNCHANGED <<go, invocation, asked, args, version, orig>>
      /\ UNCHANGED <<todo, toPack, root, types>>
  BY DEF StartBuild, Goto, CleanDir, argVars, madeVars
<1>2. /\ toPack = {} /\ outfiles = {} /\ todo \subseteq Targets /\ built = Targets \ todo
  BY <1>1 DEF IInv, Phases, Building
<1>3. Targets' = Targets BY <1>1 DEF Targets, Platforms, Archs
<1>4. disk' \subseteq disk BY <1>1
<1>5. TypeOK'
  <2>1. \A f, g \in disk' : f.dir = g.dir /\ f.name = g.name => f = g
    BY <1>4 DEF IInv, TypeOK
  <2>2. \A f \in disk' : f.by \in 1..invocation' BY <1>1, <1>4 DEF IInv, TypeOK
  <2>3. QED BY <1>1, <1>2, <1>3, <2>1, <2>2 DEF IInv, TypeOK
<1>6. Phases' BY <1>1, <1>2, <1>3 DEF IInv, Phases, Building
<1>7. Options' BY <1>1 DEF IInv, Options, Building, Requested
<1>8. Binaries'
  <2>1. ASSUME NEW u \in built
        PROVE  \E g \in disk' : /\ g.dir = Dir(u) /\ g.name = BinaryName
                                /\ g.by = invocation /\ IsBinaryOf(g, u)
    <3>1. PICK g \in disk : /\ g.dir = Dir(u) /\ g.name = BinaryName
                            /\ g.by = invocation /\ IsBinaryOf(g, u)
      BY <1>1, <2>1 DEF IInv, Binaries, Building, MadeNow
    <3>2. ~Below(Dir(t), g) BY <1>2, <3>1, DirsApart
    <3>3. g \in disk' BY <1>1, <3>2
    <3>4. QED BY <3>1, <3>3
  <2>2. QED
    BY <1>1, <2>1 DEF Binaries, IsBinaryOf, MadeNow, Dir, single_build, IsStatic, Requested
<1>9. Rooted' /\ Complete' BY <1>1, <1>2 DEF IInv, Phases, Building, Rooted, Complete
<1>10. Clean'
  <2>1. ASSUME asked.clean, NEW f \in disk', NEW u \in Targets, f.dir = Dir(u),
               u \notin todo \/ u = t
        PROVE  f.by = invocation
    <3>1. args.clean BY <2>1 DEF IInv, Options
    <3>2. f \in disk /\ ~Below(Dir(t), f) BY <1>1, <2>1, <3>1
    <3>3. u # t BY <2>1, <3>2, InDirIsBelow
    <3>4. QED BY <1>1, <2>1, <3>2, <3>3 DEF IInv, Clean, Building
  <2>2. QED BY <1>1, <1>3, <2>1 DEF Clean, Dir, single_build
<1>11. PackagesHoldTheirBuild' /\ Returned'
  BY <1>1, <1>2, <1>4, NonePackaged DEF IInv, Unpackaged
<1>12. Unpackaged' /\ FpmDone' BY <1>1, <1>4 DEF IInv, Unpackaged, FpmDone
<1>13. QED BY <1>5, <1>6, <1>7, <1>8, <1>9, <1>10, <1>11, <1>12 DEF IInv

\* What Write does to the files on disk.
LEMMA WriteFacts ==
    ASSUME IInv, NEW file, Write(file), file.by \in 1..invocation
    PROVE  /\ file \in disk'
           /\ \A f \in disk' : f = file \/ f \in disk
           /\ \A f \in disk : f.dir # file.dir \/ f.name # file.name => f \in disk'
           /\ \A f, g \in disk' : f.dir = g.dir /\ f.name = g.name => f = g
           /\ \A f \in disk' : f.by \in 1..invocation
<1>1. disk' = {f \in disk : <<f.dir, f.name>> # <<file.dir, file.name>>} \cup {file}
  BY DEF Write
<1>2. \A f : <<f.dir, f.name>> # <<file.dir, file.name>>
                <=> f.dir # file.dir \/ f.name # file.name
  OBVIOUS
<1>3. /\ \A f, g \in disk : f.dir = g.dir /\ f.name = g.name => f = g
      /\ \A f \in disk : f.by \in 1..invocation
  BY DEF IInv, TypeOK
<1>4. QED BY <1>1, <1>2, <1>3

\* The binary of one more target is on disk.
LEMMA CompileStep == IInv /\ Compile => IInv'
<1> SUFFICES ASSUME IInv, Compile PROVE IInv' OBVIOUS
<1> DEFINE file == [dir |-> Dir(target), name |-> BinaryName, layout |-> {},
                    by |-> invocation,
                    binary |-> Binary(target, IsStatic(target), version, head.commit, changes)]
<1>1. /\ pc = "compile" /\ pc' = "loop" /\ Write(file)
      /\ todo' = todo \ {target} /\ built' = built \cup {target}
      /\ UNCHANGED <<head, changes, lost, status, outfiles, packDir, leaked>>
      /\ UNCHANGED <<go, invocation, asked, args, version, orig>>
      /\ UNCHANGED <<target, toPack, root, types>>
      /\ GOARCH(target.arch) \in GOARCHs
  BY DEF Compile, Goto, treeVars, argVars, tempVars
<1>2. /\ toPack = {} /\ outfiles = {} /\ todo \subseteq Targets /\ built = Targets \ todo
      /\ target \in todo /\ target \in Targets /\ invocation \in 1..MaxInvocations
  BY <1>1 DEF IInv, Phases, Building
<1>3. Targets' = Targets BY <1>1 DEF Targets, Platforms, Archs
<1>4. /\ file.dir = Dir(target) /\ file.name = BinaryName /\ file.by = invocation
      /\ file.binary.os = target.platform /\ file.binary.static = IsStatic(target)
      /\ file.binary.arch = GOARCH(target.arch)
      /\ file.binary.arm = GOARM(GOARCH(target.arch))
      /\ file.binary.commit = head.commit
  BY DEF Binary
<1>5. invocation \in 1..invocation BY <1>2, BuildAssumption
<1> HIDE DEF file
<1>6. /\ file \in disk'
      /\ \A f \in disk' : f = file \/ f \in disk
      /\ \A f \in disk : f.dir # file.dir \/ f.name # file.name => f \in disk'
      /\ \A f, g \in disk' : f.dir = g.dir /\ f.name = g.name => f = g
      /\ \A f \in disk' : f.by \in 1..invocation
  BY <1>1, <1>4, <1>5, WriteFacts
<1>7. TypeOK' BY <1>1, <1>2, <1>3, <1>6 DEF IInv, TypeOK
<1>8. Phases' BY <1>1, <1>2, <1>3 DEF IInv, Phases, Building
<1>9. Options' BY <1>1 DEF IInv, Options, Building, Requested
<1>10. Binaries'
  <2>1. ASSUME NEW u \in built \cup {target}
        PROVE  \E g \in disk' : /\ g.dir = Dir(u) /\ g.name = BinaryName
                                /\ g.by = invocation /\ IsBinaryOf(g, u)
    <3>1. CASE u = target
      <4>1. head.commit \in Requested BY <1>1 DEF IInv, Options
      <4>2. IsBinaryOf(file, target) BY <1>1, <1>4, <4>1 DEF IsBinaryOf
      <4>3. QED BY <1>4, <1>6, <3>1, <4>2
    <3>2. CASE u # target
      <4>1. u \in built BY <3>2
      <4>2. PICK g \in disk : /\ g.dir = Dir(u) /\ g.name = BinaryName
                              /\ g.by = invocation /\ IsBinaryOf(g, u)
        BY <1>1, <4>1 DEF IInv, Binaries, Building, MadeNow
      <4>3. Dir(u) # Dir(target) BY <1>2, <3>2, <4>1, DirsApart
      <4>4. g \in disk' BY <1>4, <1>6, <4>2, <4>3
      <4>5. QED BY <4>2, <4>4
    <3>3. QED BY <3>1, <3>2
  <2>2. QED
    BY <1>1, <2>1 DEF Binaries, IsBinaryOf, MadeNow, Dir, single_build, IsStatic, Requested
<1>11. Rooted' /\ Complete' BY <1>1, <1>2 DEF IInv, Phases, Building, Rooted, Complete
<1>12. Clean'
  <2>1. ASSUME asked.clean, NEW f \in disk', NEW u \in Targets, f.dir = Dir(u),
               u \notin todo \ {target}
        PROVE  f.by = invocation
    <3>1. CASE f = file BY <1>4, <3>1
    <3>2. CASE f \in disk BY <1>1, <2>1, <3>2 DEF IInv, Clean, Building
    <3>3. QED BY <1>6, <3>1, <3>2
  <2>2. QED BY <1>1, <1>3, <2>1 DEF Clean, Dir, single_build
<1>13. PackagesHoldTheirBuild' /\ Returned'
  BY <1>1, <1>2, <1>4, <1>6, NonePackaged DEF IInv, Unpackaged
<1>14. Unpackaged' /\ FpmDone' BY <1>1, <1>4, <1>6 DEF IInv, Unpackaged, FpmDone
<1>15. QED BY <1>7, <1>8, <1>9, <1>10, <1>11, <1>12, <1>13, <1>14 DEF IInv

-----------------------------------------------------------------------------
(***************************************************************************)
(* package()                                                               *)
(***************************************************************************)
\* Every target that is built has to be packaged.
LEMMA StartPackagingStep == IInv /\ StartPackaging => IInv'
<1> SUFFICES ASSUME IInv, StartPackaging PROVE IInv' OBVIOUS
<1>1. /\ pc = "loop" /\ pc' = "package" /\ packDir' = TRUE /\ toPack' = built /\ todo = {}
      /\ UNCHANGED <<head, changes, lost, disk, status, built, outfiles, leaked>>
      /\ UNCHANGED <<go, invocation, asked, args, version, orig>>
      /\ UNCHANGED <<todo, target, root, types>>
  BY DEF StartPackaging, AllBuilt, Goto, treeVars, argVars, madeVars
<1>2. Targets' = Targets BY <1>1 DEF Targets, Platforms, Archs
<1>3. outfiles = {} BY <1>1 DEF IInv, Phases
<1>4. TypeOK' BY <1>1, <1>2, <1>3 DEF IInv, TypeOK
<1>5. Phases' BY <1>1, <1>2, <1>3 DEF IInv, Phases, Building
<1>6. Options' BY <1>1 DEF IInv, Options, Building, Requested
<1>7. Binaries'
  BY <1>1 DEF IInv, Binaries, Building, IsBinaryOf, MadeNow, Dir, single_build, IsStatic,
              Requested
<1>8. Rooted' /\ Complete' BY <1>1 DEF Rooted, Complete
<1>9. Clean' BY <1>1, <1>2 DEF IInv, Clean, Building, Dir, single_build
<1>10. PackagesHoldTheirBuild' /\ Returned'
  BY <1>1, <1>3, NonePackaged DEF IInv, Unpackaged
<1>11. Unpackaged' /\ FpmDone' BY <1>1 DEF Unpackaged, FpmDone
<1>12. QED BY <1>4, <1>5, <1>6, <1>7, <1>8, <1>9, <1>10, <1>11 DEF IInv

\* build_root gets the binary of the target, and all of its types are to be made.
LEMMA AssembleStep == IInv /\ (\E t \in toPack : Assemble(t)) => IInv'
<1> SUFFICES ASSUME IInv, NEW t \in toPack, Assemble(t) PROVE IInv' OBVIOUS
<1>1. /\ pc = "package" /\ pc' = "types" /\ target' = t /\ toPack' = toPack \ {t}
      /\ types' = supported_packages[t.platform]
      /\ UNCHANGED <<head, changes, lost, disk, status, built, outfiles, packDir, leaked>>
      /\ UNCHANGED <<go, invocation, asked, args, version, orig, todo>>
  BY DEF Assemble, Goto, treeVars, argVars, madeVars, tempVars
<1>2. PICK f \in disk : /\ f.dir = Dir(t) /\ f.name = BinaryName
                        /\ root' = [binary |-> f.binary, layout |-> Layout(IsStatic(t))]
  BY DEF Assemble
<1>3. Targets' = Targets BY <1>1 DEF Targets, Platforms, Archs
<1>4. t \in built /\ built = Targets \ todo /\ t \in Targets
  BY <1>1 DEF IInv, TypeOK, Phases, Building
<1>5. TypeOK' BY <1>1, <1>3 DEF IInv, TypeOK
<1>6. Phases' BY <1>1, <1>3, <1>4 DEF IInv, Phases, Building
<1>7. Options' BY <1>1 DEF IInv, Options, Building, Requested
<1>8. Binaries'
  BY <1>1 DEF IInv, Binaries, Building, IsBinaryOf, MadeNow, Dir, single_build, IsStatic,
              Requested
<1>9. Rooted'
  <2>1. PICK g \in disk : g.dir = Dir(t) /\ g.name = BinaryName /\ g.by = invocation
    BY <1>1, <1>4 DEF IInv, Binaries, Building, MadeNow
  <2>2. f = g BY <1>2, <2>1 DEF IInv, TypeOK
  <2>3. root'.layout = Layout(IsStatic(t)) /\ root'.binary = f.binary BY <1>2
  <2>4. QED
    BY <1>1, <2>1, <2>2, <2>3 DEF Rooted, MadeNow, Dir, single_build, IsStatic
<1>10. Complete'
  <2>1. types' \in Seq(Kinds)
    <3>1. args.platform \in DOMAIN supported_builds \cup {"all"}
      BY <1>1 DEF IInv, Options, Building
    <3>2. QED BY <1>1, <1>4, <3>1, TargetKinds
  <2>2. ASSUME asked.package, NEW u \in built \ (toPack \ {t}),
               NEW i \in 1..Len(supported_packages[u.platform])
        PROVE  HasPackage(u, supported_packages[u.platform][i])
                  \/ (u = t /\ \E j \in 1..Len(types') :
                                  types'[j] = supported_packages[u.platform][i])
    <3>1. CASE u = t BY <1>1, <3>1
    <3>2. CASE u # t
      <4>1. u \in built \ toPack BY <3>2
      <4>2. ~Pending(u, supported_packages[u.platform][i]) BY <1>1 DEF Pending
      <4>3. QED BY <1>1, <2>2, <4>1, <4>2 DEF IInv, Complete
    <3>3. QED BY <3>1, <3>2
  <2>3. QED
    BY <1>1, <2>1, <2>2 DEF Complete, HasPackage, Packages, Dir, single_build, Pending, IsStatic
<1>11. Clean' BY <1>1, <1>3 DEF IInv, Clean, Building, Dir, single_build
<1>12. PackagesHoldTheirBuild' /\ Returned' BY <1>1, PackagesStay
<1>13. Unpackaged' /\ FpmDone' BY <1>1 DEF Unpackaged, FpmDone
<1>14. QED BY <1>5, <1>6, <1>7, <1>8, <1>9, <1>10, <1>11, <1>12, <1>13 DEF IInv

\* Once a type has been dealt with, only the other ones are pending.
LEMMA TypeDone ==
    ASSUME IInv, NEW from \in {"types", "fpm"}, NextType(from),
           NEW type, Pending(target, type), type # Head(types)
    PROVE  pc' = "types" /\ \E j \in 1..Len(Tail(types)) : Tail(types)[j] = type
<1>1. types \in Seq(Kinds) /\ types # <<>> BY DEF IInv, Complete, NextType
<1>2. PICK j \in 1..Len(types) : types[j] = type BY DEF Pending
<1>3. j # 1 BY <1>1, <1>2
<1>4. Len(Tail(types)) = Len(types) - 1 /\ Len(types) \in Nat BY <1>1
<1>5. j - 1 \in 1..Len(Tail(types)) /\ Tail(types)[j - 1] = types[j] BY <1>1, <1>3, <1>4
<1>6. Tail(types) # <<>> BY <1>5
<1>7. QED BY <1>2, <1>5, <1>6 DEF NextType

\* While a target is being packaged.
LEMMA PackingFacts ==
    ASSUME IInv, pc \in {"types", "fpm"}, types # <<>>
    PROVE  /\ todo = {} /\ built = Targets /\ target \in Targets /\ target \in built \ toPack
           /\ invocation \in 1..invocation /\ types \in Seq(Kinds) /\ Head(types) \in Kinds
           /\ status = "none"
<1>1. /\ todo = {} /\ built = Targets /\ target \in built \ toPack /\ status = "none"
      /\ invocation \in 1..MaxInvocations /\ types \in Seq(Kinds)
  BY DEF IInv, Phases, Building, Complete
<1>2. invocation \in 1..invocation BY <1>1, BuildAssumption
<1>3. Head(types) \in Kinds BY <1>1
<1>4. QED BY <1>1, <1>2, <1>3

\* What build_root holds is the build of the target at hand.
LEMMA RootHolds ==
    ASSUME IInv, pc = "types", types # <<>>, NEW name,
           name.type \in {"deb", "rpm"} => ~IsStatic(target)
    PROVE  HoldsItsBuild(PackageFile(name), target)
<1> DEFINE file == PackageFile(name)
<1>1. file.name = name /\ file.binary = root.binary /\ file.layout = root.layout
  BY DEF PackageFile
<1> HIDE DEF file
<1>2. built = Targets /\ target \in Targets /\ target \in built BY PackingFacts
<1>3. PICK g \in disk : /\ g.dir = Dir(target) /\ g.name = BinaryName
                        /\ g.by = invocation /\ g.binary = root.binary
  BY DEF IInv, Rooted, MadeNow
<1>4. PICK h \in disk : h.dir = Dir(target) /\ h.name = BinaryName /\ IsBinaryOf(h, target)
  BY <1>2 DEF IInv, Binaries, Building, MadeNow
<1>5. g = h BY <1>3, <1>4 DEF IInv, TypeOK
<1>6. IsBinaryOf(file, target) BY <1>1, <1>3, <1>4, <1>5 DEF IsBinaryOf
<1>7. args.static = asked.static /\ target.arch \in Architectures
  BY <1>2, TargetArch DEF IInv, Options, Building
<1>8. <<file.binary.arch, file.binary.arm>> =
         Meaning[IF target.arch \in TakenForArm THEN "armhf" ELSE target.arch]
  BY <1>6, <1>7, ArchFacts DEF IsBinaryOf
<1>9. file.binary.static = (asked.static \/ target.arch = "static_amd64")
  BY <1>6, <1>7 DEF IsBinaryOf, IsStatic, StaticArch
<1>10. file.name.type \in {"deb", "rpm"} => NeededByHooks \subseteq file.layout
  <2>1. root.layout = Layout(IsStatic(target)) BY DEF IInv, Rooted
  <2>2. NeededByHooks \subseteq Layout(FALSE) BY DEF NeededByHooks, Layout
  <2>3. ~IsStatic(target) => Layout(IsStatic(target)) = Layout(FALSE) BY DEF Layout
  <2>4. QED BY <1>1, <2>1, <2>2, <2>3
<1>11. \E q \in MadeNow(Dir(target), BinaryName) : q.binary = file.binary
  BY <1>1, <1>3 DEF MadeNow
<1>12. file.binary.os = target.platform /\ file.binary.commit \in Requested
  BY <1>6 DEF IsBinaryOf
<1>13. HoldsItsBuild(file, target) BY <1>8, <1>9, <1>10, <1>11, <1>12 DEF HoldsItsBuild
<1>14. QED BY <1>13 DEF file

\* A package of the target at hand comes to the output directory, in place of
\* packages of the same type at most.
LEMMA PackageStep ==
    ASSUME IInv, pc \in {"types", "fpm"}, types # <<>>, UNCHANGED packFrame,
           NEW file, HoldsItsBuild(file, target), file.dir = Dir(target),
           file.by = invocation, file.name.type = Head(types),
           file \in disk', \A f \in disk' : f = file \/ f \in disk,
           \A f \in disk : f \in disk' \/ (f.dir = Dir(target) /\ f.name.type = Head(types)),
           \A f, g \in disk' : f.dir = g.dir /\ f.name = g.name => f = g,
           outfiles' \subseteq outfiles \cup {[target |-> target, name |-> file.name]},
           \A p \in outfiles' : \E f \in disk' : /\ f.dir = Dir(p.target) /\ f.name = p.name
                                               /\ f.by = invocation,
           Returned',
           \/ pc' \in {"package", "types"} /\ NextType(pc)
           \/ pc' = "fpm" /\ types' = types /\ Head(types) # "tar" /\ file.name = FpmOutput
    PROVE  IInv'
<1>1. /\ UNCHANGED <<head, changes, lost, status, built, packDir, leaked>>
      /\ UNCHANGED <<go, invocation, asked, args, version, orig>>
      /\ UNCHANGED <<todo, target, toPack, root>>
      /\ pc' \in {"package", "types", "fpm"}
  BY DEF packFrame, treeVars, argVars, tempVars
<1>2. /\ todo = {} /\ built = Targets /\ target \in Targets /\ target \in built \ toPack
      /\ invocation \in 1..invocation /\ types \in Seq(Kinds) /\ Head(types) \in Kinds
      /\ status = "none"
  BY PackingFacts
<1>3. Targets' = Targets BY <1>1 DEF Targets, Platforms, Archs
<1>4. \A f : f.name.type = Head(types) => f.name # BinaryName
  BY <1>2, PackageNames
<1>5. \A f \in disk : f.name = BinaryName => f \in disk' BY <1>4
<1>6. \A u : Dir(u)' = Dir(u) BY <1>1 DEF Dir, single_build
<1>7. ASSUME NEW u \in built, NEW f \in Packages(u)
      PROVE  f \in disk' \/ (u = target /\ f.name.type = file.name.type)
  BY <1>2, <1>7, DirsApart DEF Packages
<1>8. \A u \in built : \A f \in Packages(u) : f \in disk' => f \in Packages(u)'
  BY <1>1, <1>6 DEF Packages
<1>9. file \in Packages(target)' BY <1>1, <1>4, <1>6 DEF Packages
<1>10. \A u \in built : \A type : HasPackage(u, type) => HasPackage(u, type)'
  BY <1>1, <1>7, <1>8, <1>9 DEF HasPackage, IsStatic
<1>11. \A u, type : u = target /\ type = Head(types) => HasPackage(u, type)'
  <2>1. \A u : u = target => file \in Packages(u)' BY <1>1, <1>4, <1>6 DEF Packages
  <2>2. QED BY <2>1 DEF HasPackage
<1>12. TypeOK'
  <2>1. \A f \in disk' : f.by \in 1..invocation' BY <1>1, <1>2 DEF IInv, TypeOK
  <2>2. \A p \in outfiles' : p.target \in built' BY <1>1, <1>2 DEF IInv, TypeOK
  <2>3. QED BY <1>1, <1>2, <1>3, <2>1, <2>2 DEF IInv, TypeOK
<1>13. Phases' BY <1>1, <1>2, <1>3 DEF IInv, Phases, Building
<1>14. Options' BY <1>1 DEF IInv, Options, Building, Requested
<1>15. Binaries'
  <2>1. ASSUME NEW u \in built
        PROVE  \E g \in disk' : /\ g.dir = Dir(u) /\ g.name = BinaryName
                                /\ g.by = invocation /\ IsBinaryOf(g, u)
    BY <1>1, <1>5 DEF IInv, Binaries, Building, MadeNow
  <2>2. QED
    BY <1>1, <1>6, <2>1 DEF Binaries, IsBinaryOf, MadeNow, IsStatic, Requested
<1>16. Rooted'
  <2>1. PICK g \in disk : /\ g.dir = Dir(target) /\ g.name = BinaryName /\ g.by = invocation
                          /\ g.binary = root.binary /\ root.layout = Layout(IsStatic(target))
    BY <1>1 DEF IInv, Rooted, MadeNow
  <2>2. g \in disk' BY <1>5, <2>1
  <2>3. QED BY <1>1, <1>6, <2>1, <2>2 DEF Rooted, MadeNow, IsStatic
<1>17. FpmDone'
  <2> SUFFICES ASSUME pc' = "fpm"
               PROVE  /\ types' # <<>> /\ Head(types') # "tar"
                      /\ (MadeNow(Dir(target), FpmOutput) # {})'
    BY DEF FpmDone
  <2>1. types' = types /\ Head(types) # "tar" /\ file.name = FpmOutput OBVIOUS
  <2>2. FpmOutput' = FpmOutput BY <1>1, <2>1 DEF FpmOutput
  <2>3. file \in MadeNow(Dir(target), FpmOutput)' BY <1>1, <1>6, <2>1, <2>2 DEF MadeNow
  <2>4. QED BY <2>1, <2>3
<1>18. Unpackaged' BY <1>1 DEF Unpackaged
<1>19. Complete'
  <2>1. types' \in Seq(Kinds)
    <3>1. Tail(types) \in Seq(Kinds) BY <1>2
    <3>2. QED BY <1>2, <3>1 DEF NextType
  <2>2. ASSUME asked.package, NEW u \in built \ toPack,
               NEW i \in 1..Len(supported_packages[u.platform])
        PROVE  \/ HasPackage(u, supported_packages[u.platform][i])'
               \/ Pending(u, supported_packages[u.platform][i])'
    <3> DEFINE type == supported_packages[u.platform][i]
    <3>1. HasPackage(u, type) \/ Pending(u, type) BY <1>1, <2>2 DEF IInv, Complete
    <3>2. CASE HasPackage(u, type) BY <1>10, <3>2
    <3>3. CASE Pending(u, type) /\ type = Head(types)
      <4>1. u = target BY <3>3 DEF Pending
      <4>2. HasPackage(u, type)' BY <1>11, <3>3, <4>1
      <4>3. QED BY <4>2
    <3>4. CASE Pending(u, type) /\ type # Head(types) /\ pc' # "fpm"
      <4>1. u = target BY <3>4 DEF Pending
      <4>2. pc' = "types" /\ \E j \in 1..Len(Tail(types)) : Tail(types)[j] = type
        BY <3>4, <4>1, TypeDone
      <4>3. types' = Tail(types) BY <3>4 DEF NextType
      <4>4. QED BY <1>1, <4>1, <4>2, <4>3 DEF Pending
    <3>5. CASE Pending(u, type) /\ pc' = "fpm" BY <1>1, <3>5 DEF Pending
    <3>6. QED BY <3>1, <3>2, <3>3, <3>4, <3>5
  <2>3. QED BY <1>1, <2>1, <2>2 DEF Complete
<1>20. Clean'
  <2>1. ASSUME asked.clean, NEW f \in disk', NEW u \in Targets, f.dir = Dir(u)
        PROVE  f.by = invocation
    <3>1. CASE f = file BY <3>1
    <3>2. CASE f \in disk BY <1>1, <1>2, <2>1, <3>2 DEF IInv, Clean, Building
    <3>3. QED BY <3>1, <3>2
  <2>2. QED BY <1>1, <1>3, <1>6, <2>1 DEF Clean
<1>21. PackagesHoldTheirBuild'
  <2>1. ASSUME NEW u \in built, NEW f, HoldsItsBuild(f, u) PROVE HoldsItsBuild(f, u)'
    <3>1. PICK g \in disk : /\ g.dir = Dir(u) /\ g.name = BinaryName /\ g.by = invocation
                            /\ g.binary = f.binary
      BY <2>1 DEF HoldsItsBuild, MadeNow
    <3>2. g \in MadeNow(Dir(u), BinaryName)' BY <1>1, <1>5, <1>6, <3>1 DEF MadeNow
    <3>3. QED BY <1>1, <2>1, <3>1, <3>2 DEF HoldsItsBuild, Requested
  <2>2. ASSUME NEW u \in built, NEW f \in Packages(u)' PROVE HoldsItsBuild(f, u)
    <3>1. f \in disk' /\ f.dir = Dir(u) /\ f.by = invocation /\ f.name # BinaryName
      BY <1>1, <1>6 DEF Packages
    <3>2. CASE f = file
      <4>1. u = target BY <1>2, <3>1, <3>2, DirsApart
      <4>2. QED BY <3>2, <4>1
    <3>3. CASE f \in disk
      <4>1. f \in Packages(u) BY <3>1, <3>3 DEF Packages
      <4>2. QED BY <4>1 DEF IInv, PackagesHoldTheirBuild
    <3>4. QED BY <3>1, <3>2, <3>3
  <2>3. \A p \in outfiles' : MadeNow(Dir(p.target), p.name)' # {}
    BY <1>1, <1>6 DEF MadeNow
  <2>4. QED BY <1>1, <2>1, <2>2, <2>3 DEF PackagesHoldTheirBuild
<1>22. QED
  BY <1>12, <1>13, <1>14, <1>15, <1>16, <1>17, <1>18, <1>19, <1>20, <1>21 DEF IInv

\* A file of build_root is written: an archive, or what fpm makes.
LEMMA WritePackage ==
    ASSUME IInv, pc = "types", types # <<>>, NEW name, name.type = Head(types),
           Head(types) # "tar" => ~Skipped(IsStatic(target), Head(types)),
           Write(PackageFile(name))
    PROVE  LET file == PackageFile(name)
           IN /\ HoldsItsBuild(file, target) /\ file.dir = Dir(target)
              /\ file.by = invocation /\ file.name = name
              /\ file \in disk' /\ \A f \in disk' : f = file \/ f \in disk
              /\ \A f \in disk :
                    f \in disk' \/ (f.dir = Dir(target) /\ f.name.type = Head(types))
              /\ \A f, g \in disk' : f.dir = g.dir /\ f.name = g.name => f = g
              /\ \A p \in outfiles : \E f \in disk' :
                    f.dir = Dir(p.target) /\ f.name = p.name /\ f.by = invocation
<1> DEFINE file == PackageFile(name)
<1>1. file.dir = Dir(target) /\ file.by = invocation /\ file.name = name BY DEF PackageFile
<1>2. invocation \in 1..invocation BY PackingFacts
<1>3. HoldsItsBuild(file, target)
  <2>1. name.type \in {"deb", "rpm"} => ~IsStatic(target) BY DEF Skipped
  <2>2. QED BY <2>1, RootHolds
<1> HIDE DEF file
<1>4. Write(file) BY DEF file
<1>5. /\ file \in disk'
      /\ \A f \in disk' : f = file \/ f \in disk
      /\ \A f \in disk : f.dir # file.dir \/ f.name # file.name => f \in disk'
      /\ \A f, g \in disk' : f.dir = g.dir /\ f.name = g.name => f = g
  BY <1>1, <1>2, <1>4, WriteFacts
<1>6. ASSUME NEW p \in outfiles
      PROVE  \E f \in disk' : f.dir = Dir(p.target) /\ f.name = p.name /\ f.by = invocation
  <2>1. PICK f \in disk : f.dir = Dir(p.target) /\ f.name = p.name /\ f.by = invocation
    BY DEF IInv, PackagesHoldTheirBuild, MadeNow
  <2>2. f \in disk' \/ (f.dir = file.dir /\ f.name = file.name) BY <1>5
  <2>3. QED BY <1>1, <1>5, <2>1, <2>2
<1>7. \A f \in disk : f \in disk' \/ (f.dir = Dir(target) /\ f.name.type = Head(types))
  BY <1>1, <1>5
<1>8. QED BY <1>1, <1>3, <1>5, <1>6, <1>7 DEF file

\* tar.
LEMMA MakeTarStep == IInv /\ MakeTar => IInv'
<1> SUFFICES ASSUME IInv, MakeTar PROVE IInv' OBVIOUS
<1> DEFINE name == TarName(target, IsStatic(target), args.nightly, version, args.iteration)
           file == PackageFile(name)
<1>1. /\ NextType("types") /\ Head(types) = "tar" /\ Write(file) /\ UNCHANGED packFrame
      /\ outfiles' = outfiles \cup {[target |-> target, name |-> name]}
  BY DEF MakeTar
<1>2. name.type = "tar" BY DEF TarName, Name
<1>3. pc = "types" /\ types # <<>> /\ pc' \in {"package", "types"} BY <1>1 DEF NextType
<1> HIDE DEF name
<1>4. /\ HoldsItsBuild(file, target) /\ file.dir = Dir(target)
      /\ file.by = invocation /\ file.name = name
      /\ file \in disk' /\ \A f \in disk' : f = file \/ f \in disk
      /\ \A f \in disk : f \in disk' \/ (f.dir = Dir(target) /\ f.name.type = Head(types))
      /\ \A f, g \in disk' : f.dir = g.dir /\ f.name = g.name => f = g
      /\ \A p \in outfiles : \E f \in disk' :
            f.dir = Dir(p.target) /\ f.name = p.name /\ f.by = invocation
  BY <1>1, <1>2, <1>3, WritePackage
<1> HIDE DEF file
<1>5. \A p \in outfiles' : \E f \in disk' :
         f.dir = Dir(p.target) /\ f.name = p.name /\ f.by = invocation
  BY <1>1, <1>4
<1>6. Returned'
  <2>1. ASSUME NEW p \in outfiles' PROVE p.name.type = "tar" \/ p.name.iteration = ""
    <3>1. CASE p \in outfiles BY <3>1 DEF IInv, Returned
    <3>2. CASE p = [target |-> target, name |-> name]
      <4>1. p.name = name BY <3>2
      <4>2. QED BY <1>2, <4>1
    <3>3. QED BY <1>1, <3>1, <3>2
  <2>2. QED BY <2>1 DEF Returned
<1>7. QED BY <1>1, <1>2, <1>3, <1>4, <1>5, <1>6, PackageStep

\* fpm.
LEMMA RunFpmStep == IInv /\ RunFpm => IInv'
<1> SUFFICES ASSUME IInv, RunFpm PROVE IInv' OBVIOUS
<1> DEFINE file == PackageFile(FpmOutput)
<1>1. /\ pc = "types" /\ types # <<>> /\ pc' = "fpm" /\ types' = types
      /\ Head(types) # "tar" /\ ~Skipped(IsStatic(target), Head(types))
      /\ Write(file) /\ UNCHANGED <<packFrame, outfiles>>
  BY DEF RunFpm
<1>2. FpmOutput.type = Head(types) BY DEF FpmOutput, FpmName, Name
<1>3. /\ HoldsItsBuild(file, target) /\ file.dir = Dir(target)
      /\ file.by = invocation /\ file.name = FpmOutput
      /\ file \in disk' /\ \A f \in disk' : f = file \/ f \in disk
      /\ \A f \in disk : f \in disk' \/ (f.dir = Dir(target) /\ f.name.type = Head(types))
      /\ \A f, g \in disk' : f.dir = g.dir /\ f.name = g.name => f = g
      /\ \A p \in outfiles : \E f \in disk' :
            f.dir = Dir(p.target) /\ f.name = p.name /\ f.by = invocation
  BY <1>1, <1>2, WritePackage
<1> HIDE DEF file
<1>4. Returned' BY <1>1 DEF IInv, Returned
<1>5. QED BY <1>1, <1>2, <1>3, <1>4, PackageStep

\* The package that fpm has made gets its name.  No file that package() returns had
\* the name that fpm has given.
LEMMA RenamePackageStep == IInv /\ RenamePackage => IInv'
<1> SUFFICES ASSUME IInv, RenamePackage PROVE IInv' OBVIOUS
<1> DEFINE name == RenamedName(target, Head(types), args.nightly, version)
<1>1. /\ NextType("fpm") /\ UNCHANGED packFrame
      /\ outfiles' = outfiles \cup {[target |-> target, name |-> name]}
  BY DEF RenamePackage
<1>2. PICK f \in disk :
         /\ f.dir = Dir(target) /\ f.name = FpmOutput
         /\ disk' = {g \in disk : g.dir # f.dir \/ g.name \notin {f.name, name}}
                       \cup {[dir |-> f.dir, name |-> name, layout |-> f.layout,
                              by |-> f.by, binary |-> f.binary]}
  BY DEF RenamePackage
<1> DEFINE file == [dir |-> f.dir, name |-> name, layout |-> f.layout, by |-> f.by,
                    binary |-> f.binary]
<1>3. /\ pc = "fpm" /\ types # <<>> /\ pc' \in {"package", "types"}
      /\ Head(types) # "tar"
  BY <1>1 DEF NextType, IInv, FpmDone
<1>4. name.type = Head(types) /\ name.iteration = "" BY DEF RenamedName, Name
<1>5. FpmOutput.type = Head(types) /\ FpmOutput.iteration = args.iteration
  BY DEF FpmOutput, FpmName, Name
<1>6. args.iteration = "" => FpmOutput = name
  <2>1. /\ args.nightly => args.iteration = "0"
        /\ args.nightly \in BOOLEAN
    BY <1>3 DEF IInv, Options, Building
  <2>2. CASE args.nightly BY <2>1, <2>2
  <2>3. CASE ~args.nightly
    <3>1. args.nightly = FALSE BY <2>1, <2>3
    <3>2. QED BY <3>1 DEF FpmOutput, FpmName, RenamedName
  <2>4. QED BY <2>2, <2>3
<1>7. built = Targets /\ target \in built /\ Head(types) \in Kinds BY <1>3, PackingFacts
<1>8. f.by = invocation
  <2>1. PICK g \in disk : g.dir = Dir(target) /\ g.name = FpmOutput /\ g.by = invocation
    BY <1>3 DEF IInv, FpmDone, MadeNow
  <2>2. f = g BY <1>2, <2>1 DEF IInv, TypeOK
  <2>3. QED BY <2>1, <2>2
<1>9. HoldsItsBuild(f, target)
  <2>1. f.name # BinaryName BY <1>2, <1>5, <1>7, PackageNames
  <2>2. f \in Packages(target) BY <1>2, <1>8, <2>1 DEF Packages
  <2>3. QED BY <1>7, <2>2 DEF IInv, PackagesHoldTheirBuild
<1> HIDE DEF name
<1>10. /\ file.dir = Dir(target) /\ file.by = invocation /\ file.name = name
       /\ file.binary = f.binary /\ file.layout = f.layout
  BY <1>2, <1>8
<1>11. disk' = {g \in disk : g.dir # f.dir \/ g.name \notin {f.name, name}} \cup {file}
  BY <1>2
<1> HIDE DEF file
<1>12. HoldsItsBuild(file, target)
  BY <1>2, <1>4, <1>5, <1>9, <1>10 DEF HoldsItsBuild
<1>13. \A g \in disk : g \in disk' \/ (g.dir = Dir(target) /\ g.name.type = Head(types))
  BY <1>2, <1>4, <1>5, <1>11
<1>14. \A g, h \in disk' : g.dir = h.dir /\ g.name = h.name => g = h
  BY <1>2, <1>10, <1>11 DEF IInv, TypeOK
<1>15. ASSUME NEW p \in outfiles'
       PROVE  \E g \in disk' : g.dir = Dir(p.target) /\ g.name = p.name /\ g.by = invocation
  <2>1. CASE p = [target |-> target, name |-> name] BY <1>10, <1>11, <2>1
  <2>2. CASE p \in outfiles
    <3>1. PICK g \in disk : g.dir = Dir(p.target) /\ g.name = p.name /\ g.by = invocation
      BY <2>2 DEF IInv, PackagesHoldTheirBuild, MadeNow
    <3>2. CASE g \in disk' BY <3>1, <3>2
    <3>3. CASE g.dir = Dir(target) /\ g.name = name BY <1>10, <1>11, <3>1, <3>3
    <3>4. CASE g.dir = Dir(target) /\ g.name = FpmOutput
      <4>1. p.name.iteration = "" BY <1>3, <1>5, <2>2, <3>1, <3>4 DEF IInv, Returned
      <4>2. FpmOutput = name BY <1>5, <1>6, <3>1, <3>4, <4>1
      <4>3. QED BY <3>3, <3>4, <4>2
    <3>5. QED BY <1>2, <1>11, <3>1, <3>2, <3>3, <3>4
  <2>3. QED BY <1>1, <2>1, <2>2
<1>16. Returned'
  <2>1. ASSUME NEW p \in outfiles' PROVE p.name.type = "tar" \/ p.name.iteration = ""
    <3>1. CASE p \in outfiles BY <3>1 DEF IInv, Returned
    <3>2. CASE p = [target |-> target, name |-> name]
      <4>1. p.name = name BY <3>2
      <4>2. QED BY <1>4, <4>1
    <3>3. QED BY <1>1, <3>1, <3>2
  <2>2. QED BY <2>1 DEF Returned
<1>17. file \in disk' /\ \A g \in disk' : g = file \/ g \in disk BY <1>11
<1>18. QED
  BY <1>1, <1>3, <1>4, <1>10, <1>12, <1>13, <1>14, <1>15, <1>16, <1>17, PackageStep

\* A type is dealt with, and nothing is written.
LEMMA NothingWritten ==
    ASSUME IInv, NEW from \in {"types", "fpm"}, NextType(from),
           UNCHANGED <<packFrame, disk, outfiles>>, HasPackage(target, Head(types))
    PROVE  IInv'
<1>1. /\ pc \in {"types", "fpm"} /\ pc' \in {"package", "types"} /\ types' = Tail(types)
      /\ types # <<>>
      /\ UNCHANGED <<head, changes, lost, disk, status, built, outfiles, packDir, leaked>>
      /\ UNCHANGED <<go, invocation, asked, args, version, orig>>
      /\ UNCHANGED <<todo, target, toPack, root>>
  BY DEF NextType, packFrame, treeVars, argVars, tempVars
<1>2. Targets' = Targets BY <1>1 DEF Targets, Platforms, Archs
<1>3. types \in Seq(Kinds) BY <1>1 DEF IInv, Complete
<1>4. TypeOK' BY <1>1, <1>2 DEF IInv, TypeOK
<1>5. Phases' BY <1>1, <1>2 DEF IInv, Phases, Building
<1>6. Options' BY <1>1 DEF IInv, Options, Building, Requested
<1>7. Binaries'
  BY <1>1 DEF IInv, Binaries, Building, IsBinaryOf, MadeNow, Dir, single_build, IsStatic,
              Requested
<1>8. Rooted' BY <1>1 DEF IInv, Rooted, MadeNow, Dir, single_build, IsStatic
<1>9. Complete'
  <2>1. types' \in Seq(Kinds) BY <1>1, <1>3
  <2>2. ASSUME asked.package, NEW u \in built \ toPack,
               NEW i \in 1..Len(supported_packages[u.platform])
        PROVE  \/ HasPackage(u, supported_packages[u.platform][i])
               \/ /\ pc' = "types" /\ u = target
                  /\ \E j \in 1..Len(types') : types'[j] = supported_packages[u.platform][i]
    <3> DEFINE type == supported_packages[u.platform][i]
    <3>1. HasPackage(u, type) \/ Pending(u, type) BY <1>1, <2>2 DEF IInv, Complete
    <3>2. CASE Pending(u, type) /\ type = Head(types)
      <4>1. u = target BY <3>2 DEF Pending
      <4>2. HasPackage(u, type) BY <3>2, <4>1
      <4>3. QED BY <4>2
    <3>3. CASE Pending(u, type) /\ type # Head(types)
      <4>1. u = target BY <3>3 DEF Pending
      <4>2. QED BY <1>1, <3>3, <4>1, TypeDone
    <3>4. QED BY <3>1, <3>2, <3>3
  <2>3. QED
    BY <1>1, <2>1, <2>2 DEF Complete, HasPackage, Packages, Dir, single_build, Pending, IsStatic
<1>10. Clean' BY <1>1, <1>2 DEF IInv, Clean, Building, Dir, single_build
<1>11. PackagesHoldTheirBuild' /\ Returned' BY <1>1, PackagesStay
<1>12. Unpackaged' /\ FpmDone' BY <1>1 DEF Unpackaged, FpmDone
<1>13. QED BY <1>4, <1>5, <1>6, <1>7, <1>8, <1>9, <1>10, <1>11, <1>12 DEF IInv

\* A static build is no deb or rpm.
LEMMA SkipTypeStep == IInv /\ SkipType => IInv'
<1> SUFFICES ASSUME IInv, SkipType PROVE IInv' OBVIOUS
<1>1. /\ NextType("types") /\ UNCHANGED <<packFrame, disk, outfiles>>
      /\ Skipped(IsStatic(target), Head(types))
  BY DEF SkipType
<1>2. HasPackage(target, Head(types)) BY <1>1 DEF Skipped, HasPackage
<1>3. QED BY <1>1, <1>2, NothingWritten

\* The package keeps the name that fpm has given.
LEMMA KeepPackageStep == IInv /\ KeepPackage => IInv'
<1> SUFFICES ASSUME IInv, KeepPackage PROVE IInv' OBVIOUS
<1>1. NextType("fpm") /\ UNCHANGED <<packFrame, disk, outfiles>> BY DEF KeepPackage
<1>2. pc = "fpm" /\ types # <<>> BY <1>1 DEF NextType
<1>3. PICK f \in disk : f.dir = Dir(target) /\ f.name = FpmOutput /\ f.by = invocation
  BY <1>2 DEF IInv, FpmDone, MadeNow
<1>4. FpmOutput.type = Head(types) /\ Head(types) \in Kinds
  BY <1>2, PackingFacts DEF FpmOutput, FpmName, Name
<1>5. f.name # BinaryName BY <1>3, <1>4, PackageNames
<1>6. HasPackage(target, Head(types)) BY <1>3, <1>4, <1>5 DEF HasPackage, Packages
<1>7. QED BY <1>1, <1>6, NothingWritten

\* The temporary directory is removed, or nothing is packaged.
LEMMA PackagedStep == IInv /\ (FinishPackaging \/ NoPackaging) => IInv'
<1> SUFFICES ASSUME IInv, FinishPackaging \/ NoPackaging PROVE IInv' OBVIOUS
<1>1. /\ \/ pc = "package" /\ toPack = {}
         \/ pc = "loop" /\ todo = {} /\ ~args.package
      /\ pc' = "back" /\ packDir' \in BOOLEAN
      /\ UNCHANGED <<head, changes, lost, disk, status, built, outfiles, leaked>>
      /\ UNCHANGED <<go, invocation, asked, args, version, orig>>
      /\ UNCHANGED <<todo, target, toPack, root, types>>
  BY DEF FinishPackaging, NoPackaging, AllBuilt, Goto, treeVars, argVars, localVars, madeVars,
         tempVars, IInv, TypeOK
<1>2. Targets' = Targets BY <1>1 DEF Targets, Platforms, Archs
<1>3. todo = {} /\ toPack = {} BY <1>1 DEF IInv, Phases
<1>4. TypeOK' BY <1>1, <1>2 DEF IInv, TypeOK
<1>5. Phases' BY <1>1, <1>2, <1>3 DEF IInv, Phases, Building
<1>6. Options' BY <1>1 DEF IInv, Options, Building, Requested
<1>7. Binaries'
  BY <1>1 DEF IInv, Binaries, Building, IsBinaryOf, MadeNow, Dir, single_build, IsStatic,
              Requested
<1>8. Rooted' BY <1>1 DEF Rooted
<1>9. Complete'
  <2>1. ASSUME asked.package, NEW u \in built,
               NEW i \in 1..Len(supported_packages[u.platform])
        PROVE  HasPackage(u, supported_packages[u.platform][i])
    <3>1. pc = "package" BY <1>1, <2>1 DEF IInv, Options
    <3>2. ~Pending(u, supported_packages[u.platform][i]) BY <3>1 DEF Pending
    <3>3. QED BY <1>3, <2>1, <3>1, <3>2 DEF IInv, Complete
  <2>2. QED
    BY <1>1, <1>3, <2>1 DEF Complete, HasPackage, Packages, Dir, single_build, IsStatic
<1>10. Clean' BY <1>1, <1>2 DEF IInv, Clean, Building, Dir, single_build
<1>11. PackagesHoldTheirBuild' /\ Returned' BY <1>1, PackagesStay
<1>12. Unpackaged' /\ FpmDone' BY <1>1 DEF Unpackaged, FpmDone
<1>13. QED BY <1>4, <1>5, <1>6, <1>7, <1>8, <1>9, <1>10, <1>11, <1>12 DEF IInv

-----------------------------------------------------------------------------
(***************************************************************************)
(* The end of main().                                                      *)
(***************************************************************************)
\* git checkout of where it began, and exit status 0.
LEMMA MoveBackStep == IInv /\ MoveBack => IInv'
<1> SUFFICES ASSUME IInv, MoveBack PROVE IInv' OBVIOUS
<1>1. /\ pc = "back" /\ pc' = "exited" /\ status' = "0"
      /\ todo' = {} /\ target' = NoTarget /\ toPack' = {} /\ root' = NoRoot /\ types' = <<>>
      /\ head' = IF orig.branch # head.branch THEN CheckOut(orig.branch) ELSE head
      /\ UNCHANGED <<changes, lost, disk, built, outfiles, packDir, leaked>>
      /\ UNCHANGED <<go, invocation, asked, args, version, orig>>
  BY DEF MoveBack, Exit, NoLocals, argVars, madeVars, tempVars
<1>2. todo = {} /\ toPack = {} BY <1>1 DEF IInv, Phases
<1>3. head' \in Heads
  <2>1. head \in Heads /\ orig.branch \in Branches \cup {Detached}
    BY HeadFacts DEF IInv, TypeOK
  <2>2. QED BY <1>1, <2>1, CheckOutFacts
<1>4. Targets' = Targets BY <1>1 DEF Targets, Platforms, Archs
<1>5. TypeOK' BY <1>1, <1>2, <1>3, <1>4 DEF IInv, TypeOK
<1>6. Phases' BY <1>1, <1>2, <1>4 DEF IInv, Phases, Building
<1>7. Options' BY <1>1 DEF IInv, Options, Building
<1>8. Binaries'
  BY <1>1 DEF IInv, Binaries, Building, IsBinaryOf, MadeNow, Dir, single_build, IsStatic,
              Requested
<1>9. Rooted' BY <1>1 DEF Rooted
<1>10. Complete'
  <2>1. ASSUME asked.package, NEW u \in built,
               NEW i \in 1..Len(supported_packages[u.platform])
        PROVE  HasPackage(u, supported_packages[u.platform][i])
    <3>1. ~Pending(u, supported_packages[u.platform][i]) BY <1>1 DEF Pending
    <3>2. QED BY <1>1, <1>2, <2>1, <3>1 DEF IInv, Complete
  <2>2. QED
    BY <1>1, <1>2, <2>1 DEF Complete, HasPackage, Packages, Dir, single_build, IsStatic
<1>11. Clean' BY <1>1, <1>2, <1>4 DEF IInv, Clean, Building, Dir, single_build
<1>12. PackagesHoldTheirBuild' /\ Returned' BY <1>1, PackagesStay
<1>13. Unpackaged' /\ FpmDone' BY <1>1 DEF Unpackaged, FpmDone
<1>14. QED BY <1>5, <1>6, <1>7, <1>8, <1>9, <1>10, <1>11, <1>12, <1>13 DEF IInv

\* The other ways to end.
LEMMA FailingSteps == IInv /\ (Reject \/ GoGetFails \/ Abort \/ Kill) => IInv'
<1> SUFFICES ASSUME IInv, Reject \/ GoGetFails \/ Abort \/ Kill PROVE IInv' OBVIOUS
<1>1. packDir \in BOOLEAN BY DEF IInv, TypeOK
<1>2. /\ Exit("1") \/ Exit("killed")
      /\ UNCHANGED <<treeVars, disk, argVars, leaked>>
      /\ packDir' \in BOOLEAN
  BY <1>1 DEF Reject, GoGetFails, Abort, Kill, tempVars
<1>3. QED BY <1>2, FailStep

\* Steps that change nothing.
LEMMA StutterStep == IInv /\ UNCHANGED vars => IInv'
<1> SUFFICES ASSUME IInv, UNCHANGED vars PROVE IInv' OBVIOUS
<1>1. /\ UNCHANGED <<head, changes, lost, disk, pc, status, built, outfiles, packDir, leaked>>
      /\ UNCHANGED <<go, invocation, asked, args, version, orig>>
      /\ UNCHANGED <<todo, target, toPack, root, types>>
  BY DEF vars, treeVars, argVars, localVars, madeVars, tempVars
<1>2. Targets' = Targets BY <1>1 DEF Targets, Platforms, Archs
<1>3. TypeOK' BY <1>1, <1>2 DEF IInv, TypeOK
<1>4. Phases' BY <1>1, <1>2 DEF IInv, Phases, Building
<1>5. Options' BY <1>1 DEF IInv, Options, Building, Requested, OtherHash
<1>6. Binaries'
  BY <1>1 DEF IInv, Binaries, Building, IsBinaryOf, MadeNow, Dir, single_build, IsStatic,
              Requested
<1>7. Rooted' BY <1>1 DEF IInv, Rooted, MadeNow, Dir, single_build, IsStatic
<1>8. Complete'
  BY <1>1 DEF IInv, Complete, HasPackage, Packages, Dir, single_build, Pending, IsStatic
<1>9. Clean' BY <1>1, <1>2 DEF IInv, Clean, Building, Dir, single_build
<1>10. PackagesHoldTheirBuild' /\ Returned' BY <1>1, PackagesStay
<1>11. Unpackaged' /\ FpmDone'
  BY <1>1 DEF IInv, Unpackaged, FpmDone, MadeNow, Dir, single_build, FpmOutput
<1>12. QED BY <1>3, <1>4, <1>5, <1>6, <1>7, <1>8, <1>9, <1>10, <1>11 DEF IInv

\* Every step preserves the invariant.
LEMMA Inductive == IInv /\ [Next]_vars => IInv'
<1> SUFFICES ASSUME IInv, [Next]_vars PROVE IInv' OBVIOUS
<1>1. CASE Develop BY <1>1, DevelopStep
<1>2. CASE \E a \in Requests : Invoke(a) BY <1>2, InvokeStep
<1>3. CASE Reject \/ GoGetFails \/ Abort \/ Kill BY <1>3, FailingSteps
<1>4. CASE Check BY <1>4, CheckStep
<1>5. CASE Move BY <1>5, MoveStep
<1>6. CASE GoGet BY <1>6, GoGetStep
<1>7. CASE \E t \in todo : StartBuild(t) BY <1>7, StartBuildStep
<1>8. CASE Compile BY <1>8, CompileStep
<1>9. CASE StartPackaging BY <1>9, StartPackagingStep
<1>10. CASE \E t \in toPack : Assemble(t) BY <1>10, AssembleStep
<1>11. CASE MakeTar BY <1>11, MakeTarStep
<1>12. CASE SkipType BY <1>12, SkipTypeStep
<1>13. CASE RunFpm BY <1>13, RunFpmStep
<1>14. CASE FinishPackaging \/ NoPackaging BY <1>14, PackagedStep
<1>15. CASE MoveBack BY <1>15, MoveBackStep
<1>16. CASE Ended \/ UNCHANGED vars BY <1>16, StutterStep DEF Ended
<1>17. CASE RenamePackage BY <1>17, RenamePackageStep
<1>18. CASE KeepPackage BY <1>18, KeepPackageStep
<1>19. QED
  BY <1>1, <1>2, <1>3, <1>4, <1>5, <1>6, <1>7, <1>8, <1>9, <1>10, <1>11, <1>12, <1>13,
     <1>14, <1>15, <1>16, <1>17, <1>18 DEF Next, Script

-----------------------------------------------------------------------------
(***************************************************************************)
(* What holds for every execution.                                         *)
(***************************************************************************)
\* The invariant, of any number of invocations one after the other.
THEOREM Invariance == Spec => []IInv
<1>1. QED BY Initially, Inductive, PTL DEF Spec

\* The types of the variables; two files in one directory have different names, and
\* none is from an invocation that is still to come.
THEOREM TypesHold == Spec => []TypeOK
<1>1. IInv => TypeOK BY DEF IInv
<1>2. QED BY <1>1, Invariance, PTL

\* A package holds the binary of its own target, built by this invocation for the
\* architecture in its name from a commit that was asked for (build.py:336-418,
\* 458-549), except that what is named armel or arm64 holds the binary for armhf.
THEOREM PackagesAreOfThisBuild == Spec => []PackagesHoldTheirBuild
<1>1. IInv => PackagesHoldTheirBuild BY DEF IInv
<1>2. QED BY <1>1, Invariance, PTL

\* When main() returns 0, every binary and every package that was asked for is there.
THEOREM SuccessLeavesNothingOut == Spec => []SuccessIsComplete
<1>1. ASSUME IInv PROVE SuccessIsComplete
  <2> SUFFICES ASSUME status = "0", NEW t \in Targets
               PROVE  /\ MadeNow(Dir(t), BinaryName) # {}
                      /\ asked.package =>
                           \A i \in 1..Len(supported_packages[t.platform]) :
                              HasPackage(t, supported_packages[t.platform][i])
    BY DEF SuccessIsComplete, HasPackage
  <2>1. /\ pc = "exited" /\ todo = {} /\ toPack = {} /\ built = Targets
    BY <1>1 DEF IInv, Phases, Building
  <2>2. MadeNow(Dir(t), BinaryName) # {} BY <1>1, <2>1 DEF IInv, Binaries, Building
  <2>3. ASSUME asked.package, NEW i \in 1..Len(supported_packages[t.platform])
        PROVE  HasPackage(t, supported_packages[t.platform][i])
    <3>1. ~Pending(t, supported_packages[t.platform][i]) BY <2>1 DEF Pending
    <3>2. QED BY <1>1, <2>1, <2>3, <3>1 DEF IInv, Complete
  <2>4. QED BY <2>2, <2>3
<1>2. QED BY <1>1, Invariance, PTL

\* After --clean the directories of the targets hold nothing of an earlier invocation,
\* although each is cleaned when its own build starts and not before.
THEOREM CleaningIsComplete == Spec => []CleanBuildIsClean
<1>1. ASSUME IInv PROVE CleanBuildIsClean
  <2>1. status = "0" => pc = "exited" /\ todo = {} BY <1>1 DEF IInv, Phases
  <2>2. QED BY <1>1, <2>1 DEF IInv, Clean, Building, CleanBuildIsClean
<1>2. QED BY <1>1, Invariance, PTL

\* A step that ends with success leads back to the branch, and the commit, it began on.
THEOREM TheWayBack == Spec => HeadComesBack
<1>1. ASSUME IInv, [Next]_vars, pc # "exited", status' = "0", orig.branch # Detached
      PROVE  head' = orig
  <2>1. status = "none" BY <1>1 DEF IInv, Phases
  <2>2. MoveBack
    <3>1. vars' # vars BY <1>1, <2>1 DEF vars
    <3>2. ~Develop /\ (\A a \in Requests : ~Invoke(a)) /\ ~Ended
      BY <1>1 DEF Develop, Invoke, Goto, Ended
    <3>3. ~Reject /\ ~GoGetFails /\ ~Abort /\ ~Kill
      BY <1>1 DEF Reject, GoGetFails, Abort, Kill, Exit
    <3>4. /\ ~Check /\ ~Move /\ ~GoGet /\ (\A t \in todo : ~StartBuild(t)) /\ ~Compile
          /\ ~StartPackaging /\ (\A t \in toPack : ~Assemble(t))
          /\ ~FinishPackaging /\ ~NoPackaging
      BY <1>1, <2>1 DEF Check, Move, GoGet, StartBuild, Compile, StartPackaging, Assemble,
                        FinishPackaging, NoPackaging
    <3>5. ~MakeTar /\ ~SkipType /\ ~RunFpm /\ ~RenamePackage /\ ~KeepPackage
      BY <1>1, <2>1 DEF MakeTar, SkipType, RunFpm, RenamePackage, KeepPackage, packFrame
    <3>6. QED BY <1>1, <3>1, <3>2, <3>3, <3>4, <3>5 DEF Next, Script
  <2>3. head' = IF orig.branch # head.branch THEN CheckOut(orig.branch) ELSE head
    BY <2>2 DEF MoveBack
  <2>4. head \in Heads /\ orig \in Heads BY <1>1 DEF IInv, TypeOK
  <2>5. /\ orig.branch \in Branches
        /\ orig = [branch |-> orig.branch, commit |-> Tip[orig.branch]]
    BY <1>1, <2>4, HeadFacts
  <2>6. CASE orig.branch # head.branch BY <1>1, <2>3, <2>4, <2>5, <2>6, CheckOutFacts
  <2>7. CASE orig.branch = head.branch
    <3>1. head.branch # Detached BY <1>1, <2>7
    <3>2. head = [branch |-> head.branch, commit |-> Tip[head.branch]]
      BY <2>4, <3>1, HeadFacts
    <3>3. QED BY <2>3, <2>5, <2>7, <3>2
  <2>8. QED BY <2>6, <2>7
<1>2. IInv /\ [Next]_vars =>
        [pc # "exited" /\ status' = "0" /\ orig.branch # Detached => head' = orig]_vars
  BY <1>1
<1>3. QED BY <1>2, Invariance, PTL DEF Spec, HeadComesBack
=============================================================================
