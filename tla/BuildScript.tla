------------------------------ MODULE BuildScript ------------------------------
(***************************************************************************)
(* build.py: one invocation after the other in the same working tree.      *)
(*                                                                         *)
(* An invocation may move the working tree to another branch or commit,    *)
(* builds every target into its directory, packages what it has built, and *)
(* moves back.  Every command it runs may fail, it may be interrupted or   *)
(* killed at any point, and what it leaves behind is what the next         *)
(* invocation starts from.                                                 *)
(***************************************************************************)
EXTENDS BuildNames, FiniteSets

CONSTANTS
    Commits,
    Tip,              \* the branches, with the commit each points at
    Requests,         \* the command lines, see Request
    GoVersions,       \* the versions of Go that may be installed
    Platform,         \* get_system_platform
    Machine,          \* os.uname()
    Edits,            \* the local changes a developer may leave
    MaxInvocations    \* bound: how often build.py is called

Default == "default"  \* an option that is not given
Detached == "HEAD"    \* what git calls the branch of a detached head
Branches == DOMAIN Tip

\* `fullHash': --commit is given in full, not as the short hash.
CommandLine ==
    [branch : Branches \cup {Default}, commit : Commits \cup {Default}, fullHash : BOOLEAN,
     platform : {"linux", "darwin", "windows", "all", Default},
     arch : Architectures \cup {"all", Default},
     outdir : {"build", "."}, version : Seq(Nat), iteration : STRING,
     clean : BOOLEAN, noGet : BOOLEAN, noUncommitted : BOOLEAN, package : BOOLEAN,
     static : BOOLEAN, nightly : BOOLEAN, release : BOOLEAN]

Request == {a \in CommandLine : a.fullHash => a.commit # Default}

ASSUME BuildAssumption ==
    /\ Tip \in [Branches -> Commits]
    /\ Detached \notin Branches       \* git refuses such a name
    /\ Requests \subseteq Request
    /\ Platform \in DOMAIN supported_builds
    /\ Machine \in Machines
    /\ Edits \subseteq SUBSET {"staged", "unstaged"}
    /\ MaxInvocations \in Nat

VARIABLES
    head,         \* what is checked out: the branch and its commit
    changes,      \* local changes: in the index (staged), outside of it (unstaged)
    lost,         \* the working tree has been deleted
    disk,         \* the files in output directories
    go,           \* the version of Go
    invocation,   \* how many invocations there have been
    pc,           \* where main() is
    status,       \* how the last invocation ended
    asked,        \* the command line
    args,         \* args, with the defaults filled in
    version,      \* args.version
    orig,         \* orig_branch and orig_commit
    todo,         \* the targets the loops over platforms and archs have to come to
    target,       \* the target at hand
    built,        \* build_output
    toPack,       \* the targets package() has to come to
    root,         \* build_root: what is going to be packaged
    types,        \* the package types to make of it
    outfiles,     \* the packages made: of which target, under which name
    packDir,      \* the temporary directory of package() exists
    leaked        \* temporary directories of build() exist

treeVars == <<head, changes, lost>>
argVars == <<go, invocation, asked, args, version, orig>>
localVars == <<todo, target, toPack, root, types>>
madeVars == <<built, outfiles>>
tempVars == <<packDir, leaked>>
vars == <<treeVars, disk, argVars, pc, status, localVars, madeVars, tempVars>>

NoTarget == [platform |-> "none", arch |-> "none"]
NoBinary == Binary(NoTarget, FALSE, NoVersion, "none", {})
NoRoot == [binary |-> NoBinary, layout |-> {}]

-----------------------------------------------------------------------------
Heads == {[branch |-> b, commit |-> Tip[b]] : b \in Branches}
            \cup {[branch |-> Detached, commit |-> c] : c \in Commits}

Init ==
    /\ head \in Heads
    /\ changes = {}
    /\ lost = FALSE
    /\ disk = {}
    /\ go \in GoVersions
    /\ invocation = 0
    /\ pc = "exited"
    /\ status = "none"
    /\ asked = CHOOSE a \in Requests : TRUE
    /\ args = asked
    /\ version = NoVersion
    /\ orig = head
    /\ todo = {} /\ target = NoTarget /\ built = {}
    /\ toPack = {} /\ root = NoRoot /\ types = <<>> /\ outfiles = {}
    /\ packDir = FALSE
    /\ leaked = FALSE

Goto(from, to) ==
    /\ pc = from
    /\ pc' = to

NoLocals == todo' = {} /\ target' = NoTarget /\ toPack' = {} /\ root' = NoRoot /\ types' = <<>>

\* The process ends.  What a successful one has made is kept for the properties.
Exit(code) ==
    /\ pc' = "exited"
    /\ status' = code
    /\ NoLocals
    /\ IF code = "0" THEN UNCHANGED madeVars ELSE built' = {} /\ outfiles' = {}

\* A developer uses the working tree while build.py does not run.
Develop ==
    /\ pc = "exited" /\ ~lost /\ invocation < MaxInvocations
    /\ head' \in Heads
    /\ changes' \in Edits
    /\ UNCHANGED <<lost, disk, argVars, pc, status, localVars, madeVars, tempVars>>

(***************************************************************************)
(* The command line.  The defaults of --branch, --commit and --version are *)
(* taken from what is checked out now.                                     *)
(***************************************************************************)
Or(option, default) == IF option = Default THEN default ELSE option

Invoke(a) ==
    /\ invocation < MaxInvocations /\ ~lost
    /\ Goto("exited", "check")
    /\ status' = "none"
    /\ invocation' = invocation + 1
    /\ asked' = a
    /\ args' = [a EXCEPT !.branch = Or(@, head.branch), !.commit = Or(@, head.commit),
                         !.platform = Or(@, Platform), !.arch = Or(@, SystemArch(Machine))]
    /\ version' = IF a.version = <<>> THEN [NoVersion EXCEPT !.of = head.commit]
                  ELSE [NoVersion EXCEPT !.of = "given", !.parts = a.version]
    /\ built' = {} /\ outfiles' = {}
    /\ packDir' = FALSE
    /\ UNCHANGED <<treeVars, disk, go, orig, localVars, leaked>>

(***************************************************************************)
(* main(), up to the builds.                                               *)
(***************************************************************************)
\* args.commit is another string than the short hash of c.
OtherHash(c) == args.commit # c \/ args.fullHash

ChecksPass ==
    /\ ~(args.release /\ args.nightly)
    /\ args.platform \in DOMAIN supported_builds \cup {"all"}
    /\ ~(args.branch # head.branch /\ OtherHash(head.commit))

\* The returns of lines 559-589.  An invalid platform ends in a NameError, as the
\* message about it names a variable that does not exist.
Reject ==
    /\ pc = "check" /\ ~ChecksPass
    /\ Exit("1")
    /\ UNCHANGED <<treeVars, disk, argVars, tempVars>>

Check ==
    /\ ChecksPass
    /\ Goto("check", "move")
    /\ version' = IF args.nightly THEN NightlyVersion(version) ELSE version
    /\ args' = IF args.nightly THEN [args EXCEPT !.iteration = "0"] ELSE args
    /\ orig' = head
    /\ UNCHANGED <<treeVars, disk, go, invocation, asked, status, localVars,
                   madeVars, tempVars>>

\* git checkout: a branch, or HEAD, which goes nowhere.
CheckOut(branch) == IF branch = Detached THEN head
                    ELSE [branch |-> branch, commit |-> Tip[branch]]

\* Mutant of Move: git reset, which takes the branch along to the commit.
MoveByReset ==
    /\ Goto("move", "get")
    /\ head' = IF args.branch # orig.branch THEN CheckOut(args.branch)
               ELSE [head EXCEPT !.commit = args.commit]
    /\ UNCHANGED <<changes, lost, disk, argVars, status, localVars, madeVars, tempVars>>

\* git checkout, which takes local changes along, or fails (Abort).  The full hash
\* of the current commit leads to the same commit, and away from the branch.
Move ==
    /\ Goto("move", "get")
    /\ head' = IF args.branch # orig.branch
               THEN CheckOut(args.branch)
               ELSE IF OtherHash(orig.commit)
               THEN [branch |-> Detached, commit |-> args.commit]
               ELSE head
    /\ UNCHANGED <<changes, lost, disk, argVars, status, localVars, madeVars, tempVars>>

\* git diff-files compares the working tree with the index.
local_changes == "unstaged" \in changes

Platforms == IF args.platform = "all" THEN DOMAIN supported_builds ELSE {args.platform}
Archs(p) == IF args.arch = "all" THEN supported_builds[p] ELSE {args.arch}
Targets == UNION {[platform : {p}, arch : Archs(p)] : p \in Platforms}

\* go_get finds local changes and is told to mind them.
GoGetFails ==
    /\ pc = "get" /\ ~args.noGet /\ args.noUncommitted /\ local_changes
    /\ Exit("1")
    /\ UNCHANGED <<treeVars, disk, argVars, tempVars>>

GoGet ==
    /\ ~(~args.noGet /\ args.noUncommitted /\ local_changes)
    /\ Goto("get", "loop")
    /\ todo' = Targets
    /\ UNCHANGED <<treeVars, disk, argVars, status, target, toPack, root, types,
                   madeVars, tempVars>>

(***************************************************************************)
(* build(), for one target after the other, in the order of the dictionary *)
(* of platforms, that is any.                                              *)
(***************************************************************************)
\* Mutant of single_build: one platform is one build.
single_build_platform == args.platform # "all"

single_build == args.platform # "all" /\ args.arch # "all"

\* od
Dir(t) ==
    IF single_build THEN <<args.outdir>> ELSE <<args.outdir, t.platform, t.arch>>

IsStatic(t) == args.static \/ StaticArch(t.arch)

\* Files are written over an earlier one of the same name.
Write(file) ==
    disk' = {f \in disk : <<f.dir, f.name>> # <<file.dir, file.name>>} \cup {file}

\* What is below a directory; the output directories are in the working tree.
Below(dir, f) ==
    dir = <<".">> \/ (Len(dir) <= Len(f.dir) /\ SubSeq(f.dir, 1, Len(dir)) = dir)

\* Mutant of CleanDir: only the binary is removed.
CleanDirBinary(dir) ==
    /\ disk' = {f \in disk : ~(args.clean /\ f.dir = dir /\ f.name = BinaryName)}
    /\ UNCHANGED lost

\* --clean.  The comparison with "." never holds, since --outdir is made absolute.
CleanDir(dir) ==
    /\ disk' = IF args.clean THEN {f \in disk : ~Below(dir, f)} ELSE disk
    /\ lost' = (args.clean /\ dir = <<".">>)

\* build() makes a temporary directory that it neither uses nor removes.
StartBuild(t) ==
    /\ t \in todo
    /\ Goto("loop", "compile")
    /\ CleanDir(Dir(t))
    /\ target' = t
    /\ leaked' = TRUE
    /\ UNCHANGED <<head, changes, argVars, status, todo, toPack, root, types, madeVars, packDir>>

\* go build, which fails (Abort) if the linker rejects its flags, or if Go does not
\* know the architecture.
Compile ==
    /\ ~lost /\ Links(go) /\ GOARCH(target.arch) \in GOARCHs
    /\ Goto("compile", "loop")
    /\ Write([dir |-> Dir(target), name |-> BinaryName, layout |-> {}, by |-> invocation,
              binary |-> Binary(target, IsStatic(target), version, head.commit, changes)])
    /\ todo' = todo \ {target}
    /\ built' = built \cup {target}
    /\ UNCHANGED <<treeVars, argVars, status, target, toPack, root, types, outfiles, tempVars>>

(***************************************************************************)
(* package()                                                               *)
(***************************************************************************)
AllBuilt == todo = {} /\ pc = "loop"

\* fpm is there (or else Abort), create_temp_dir.
StartPackaging ==
    /\ AllBuilt /\ args.package
    /\ Goto("loop", "package")
    /\ packDir' = TRUE
    /\ toPack' = built
    /\ UNCHANGED <<treeVars, disk, argVars, status, todo, target, root, types,
                   madeVars, leaked>>

\* build_root of the next target: scripts from the working tree, and the binary.
Assemble(t) ==
    /\ t \in toPack
    /\ Goto("package", "types")
    /\ \E f \in disk :
          /\ f.dir = Dir(t) /\ f.name = BinaryName
          /\ root' = [binary |-> f.binary, layout |-> Layout(IsStatic(t))]
    /\ target' = t
    /\ toPack' = toPack \ {t}
    /\ types' = supported_packages[t.platform]
    /\ UNCHANGED <<treeVars, disk, argVars, status, todo, madeVars, tempVars>>

\* The package of type Head(types) is dealt with.
NextType(from) ==
    /\ pc = from /\ types # <<>>
    /\ types' = Tail(types)
    /\ pc' = IF Tail(types) = <<>> THEN "package" ELSE "types"

\* What build_root holds, in a file of the output directory.
PackageFile(name) ==
    [dir |-> Dir(target), name |-> name, layout |-> root.layout, by |-> invocation,
     binary |-> root.binary]

packFrame == <<treeVars, argVars, status, todo, target, toPack, root, built, tempVars>>

\* tar in build_root, and mv.
MakeTar ==
    LET name == TarName(target, IsStatic(target), args.nightly, version, args.iteration)
    IN /\ NextType("types") /\ Head(types) = "tar"
       /\ Write(PackageFile(name))
       /\ outfiles' = outfiles \cup {[target |-> target, name |-> name]}
       /\ UNCHANGED packFrame

SkipType ==
    /\ NextType("types") /\ Skipped(IsStatic(target), Head(types))
    /\ UNCHANGED <<packFrame, disk, outfiles>>

\* The name fpm gives to its package.
FpmOutput == FpmName(target, Head(types), version, args.iteration)

\* Mutant of RunFpm: a failing fpm is not noticed.
RunFpmOrNot ==
    /\ pc = "types" /\ types # <<>>
    /\ Head(types) # "tar" /\ ~Skipped(IsStatic(target), Head(types))
    /\ pc' = "fpm"
    /\ Write(PackageFile(FpmOutput)) \/ UNCHANGED disk
    /\ UNCHANGED <<packFrame, types, outfiles>>

RunFpm ==
    /\ pc = "types" /\ types # <<>>
    /\ Head(types) # "tar" /\ ~Skipped(IsStatic(target), Head(types))
    /\ pc' = "fpm"
    /\ Write(PackageFile(FpmOutput))
    /\ UNCHANGED <<packFrame, types, outfiles>>

\* os.rename of the file that fpm says it has made.
RenamePackage ==
    LET name == RenamedName(target, Head(types), args.nightly, version)
    IN /\ NextType("fpm")
       /\ \E f \in disk :
             /\ f.dir = Dir(target) /\ f.name = FpmOutput
             /\ disk' = {g \in disk : g.dir # f.dir \/ g.name \notin {f.name, name}}
                           \cup {[dir |-> f.dir, name |-> name, layout |-> f.layout,
                                  by |-> f.by, binary |-> f.binary]}
       /\ outfiles' = outfiles \cup {[target |-> target, name |-> name]}
       /\ UNCHANGED packFrame

\* fpm's output does not say what file it has made, which keeps its name, and is
\* not among those that package() returns.
KeepPackage ==
    /\ NextType("fpm")
    /\ UNCHANGED <<packFrame, disk, outfiles>>

\* finally: shutil.rmtree(tmp_build_dir)
FinishPackaging ==
    /\ toPack = {}
    /\ Goto("package", "back")
    /\ packDir' = FALSE
    /\ UNCHANGED <<treeVars, disk, argVars, status, localVars, madeVars, leaked>>

NoPackaging ==
    /\ AllBuilt /\ ~args.package
    /\ Goto("loop", "back")
    /\ UNCHANGED <<treeVars, disk, argVars, status, localVars, madeVars, tempVars>>

(***************************************************************************)
(* The end of main().                                                      *)
(***************************************************************************)
\* Mutant of MoveBack: only --branch is taken for a move.
MoveBackFromBranch ==
    /\ pc = "back"
    /\ head' = IF orig.branch # args.branch THEN CheckOut(orig.branch) ELSE head
    /\ Exit("0")
    /\ UNCHANGED <<changes, lost, disk, argVars, tempVars>>

MoveBack ==
    /\ pc = "back"
    /\ head' = IF orig.branch # head.branch THEN CheckOut(orig.branch) ELSE head
    /\ Exit("0")
    /\ UNCHANGED <<changes, lost, disk, argVars, tempVars>>

\* A command fails and run() exits, something is missing, a file cannot be
\* copied, or the user interrupts: only package() has a `finally'.
Abort ==
    /\ pc # "exited"
    /\ Exit("1")
    /\ packDir' = FALSE
    /\ UNCHANGED <<treeVars, disk, argVars, leaked>>

\* A signal that Python does not turn into an exception.
Kill ==
    /\ pc # "exited"
    /\ Exit("killed")
    /\ UNCHANGED <<treeVars, disk, argVars, tempVars>>

\* Nobody calls build.py again.
Ended == pc = "exited" /\ (invocation = MaxInvocations \/ lost) /\ UNCHANGED vars

-----------------------------------------------------------------------------
Script ==
    \/ Reject \/ Check \/ Move \/ GoGetFails \/ GoGet
    \/ (\E t \in todo : StartBuild(t)) \/ Compile
    \/ StartPackaging \/ (\E t \in toPack : Assemble(t))
    \/ MakeTar \/ SkipType \/ RunFpm \/ RenamePackage \/ KeepPackage
    \/ FinishPackaging \/ NoPackaging \/ MoveBack

Next ==
    \/ Develop \/ (\E a \in Requests : Invoke(a))
    \/ Script \/ Abort \/ Kill \/ Ended

Spec == Init /\ [][Next]_vars
-----------------------------------------------------------------------------
(***************************************************************************)
(* Properties.                                                             *)
(***************************************************************************)
\* The types of the variables.
TypeOK ==
    /\ head \in Heads
    /\ changes \subseteq {"staged", "unstaged"}
    /\ lost \in BOOLEAN
    /\ invocation \in 0..MaxInvocations
    /\ pc \in {"exited", "check", "move", "get", "loop", "compile", "package", "types", "fpm",
              "back"}
    /\ status \in {"none", "0", "1", "killed"}
    /\ orig \in Heads
    /\ \A f, g \in disk : f.dir = g.dir /\ f.name = g.name => f = g
    /\ \A f \in disk : f.by \in 1..invocation
    /\ pc # "exited" => built \cup todo \subseteq Targets
    /\ toPack \subseteq built
    /\ \A p \in outfiles : p.target \in built
    /\ packDir \in BOOLEAN
    /\ leaked \in BOOLEAN

\* The commits the command line allows for.
Requested ==
    CASE asked.branch # Default /\ asked.commit # Default -> {Tip[asked.branch], asked.commit}
      [] asked.branch # Default /\ asked.commit = Default -> {Tip[asked.branch]}
      [] asked.branch = Default /\ asked.commit # Default -> {asked.commit}
      [] OTHER -> {orig.commit}

\* The file on disk, if it is one of this invocation.
MadeNow(dir, name) == {f \in disk : f.dir = dir /\ f.name = name /\ f.by = invocation}

\* The files that fpm is told are configuration, the binary, and what
\* post-install.sh installs and changes the owner of.
NeededByHooks ==
    CONFIGURATION_FILES \cup
    {"/usr/bin/influxdb-relay", "/var/lib/influxdb-relay", "/var/log/influxdb-relay",
     "/usr/lib/influxdb-relay/scripts/init.sh",
     "/usr/lib/influxdb-relay/scripts/influxdb-relay.service"}

\* The packages of a target that this invocation has made.
Packages(t) ==
    {f \in disk : f.dir = Dir(t) /\ f.by = invocation /\ f.name # BinaryName}

\* The GOARCH and the GOARM that the name of an architecture stands for.
Meaning == [amd64 |-> <<"amd64", NoArm>>, static_amd64 |-> <<"amd64", NoArm>>,
            i386 |-> <<"386", NoArm>>, i686 |-> <<"386", NoArm>>,
            arm |-> <<"arm", 6>>, armhf |-> <<"arm", 6>>]

\* The names that build() takes for another, `arm': GOARCH replaces each name with an
\* "arm" in it before GOARM looks at it.
TakenForArm == {"armel", "arm64"}

\* The package f holds the binary of the target t, as this invocation was asked for it.
HoldsItsBuild(f, t) ==
    /\ \E g \in MadeNow(Dir(t), BinaryName) : g.binary = f.binary
    /\ f.binary.os = t.platform
    /\ <<f.binary.arch, f.binary.arm>> =
          Meaning[IF t.arch \in TakenForArm THEN "armhf" ELSE t.arch]
    /\ f.binary.static = (asked.static \/ t.arch = "static_amd64")
    /\ f.binary.commit \in Requested
    /\ f.name.type \in {"deb", "rpm"} => NeededByHooks \subseteq f.layout

\* A package holds the binary of its own target, built by this invocation from
\* what was asked for, although every target is built before any is packaged,
\* earlier invocations have left binaries and packages behind, and static and
\* dynamic builds of a platform have the same names.  The binary is for the
\* architecture in the name of the package, unless that is armel or arm64: then it
\* is the one for armhf.  If it is for a package manager, it also has what its hooks
\* need.  What package() reports is there.
PackagesHoldTheirBuild ==
    /\ \A t \in built : \A f \in Packages(t) : HoldsItsBuild(f, t)
    /\ \A p \in outfiles : MadeNow(Dir(p.target), p.name) # {}

\* Exit status 0 means that every binary and every package asked for is there.
SuccessIsComplete ==
    status = "0" =>
        \A t \in Targets :
            /\ MadeNow(Dir(t), BinaryName) # {}
            /\ asked.package =>
                  \A i \in 1..Len(supported_packages[t.platform]) :
                     LET type == supported_packages[t.platform][i]
                     IN type = "tar" \/ ~IsStatic(t) =>
                           \E f \in Packages(t) : f.name.type = type

\* A successful build leaves the working tree on the branch it found it on.
HeadComesBack ==
    [][pc # "exited" /\ status' = "0" /\ orig.branch # Detached => head' = orig]_vars

\* After a clean build the output directories hold nothing of an earlier one.
CleanBuildIsClean ==
    status = "0" /\ asked.clean =>
        \A f \in disk : (\E t \in Targets : f.dir = Dir(t)) => f.by = invocation

(***************************************************************************)
(* What the code says, and does not do.                                    *)
(***************************************************************************)
\* --no-uncommitted: "Fail if uncommitted changes exist in the working directory".
NoUncommittedBuild ==
    status = "0" /\ asked.noUncommitted =>
        \A t \in built : \A f \in MadeNow(Dir(t), BinaryName) : f.binary.changes = {}
=============================================================================
