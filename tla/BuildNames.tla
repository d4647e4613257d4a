------------------------------ MODULE BuildNames ------------------------------
(***************************************************************************)
(* What build.py computes without touching anything: the parameters of     *)
(* `go build' for a target, and the names of the packages made of it.      *)
(*                                                                         *)
(* A target is a platform and an architecture as the user names it.  The   *)
(* branches for `windows' (lines 369, 436-456) are left out: no supported  *)
(* platform leads there.  So is the refusal of lines 365-368: what comes   *)
(* before it leaves "arm" as the only architecture with an "arm" in it.    *)
(***************************************************************************)
EXTENDS Integers, Sequences

supported_builds == [darwin |-> {"amd64"}, linux |-> {"amd64", "static_amd64"}]

supported_packages == [darwin |-> <<"tar">>, linux |-> <<"deb", "rpm", "tar">>]

\* --arch may be any string.  Here it is one of what its help offers, what is
\* supported, what the code mentions, and what get_system_arch returns.
Architectures ==
    {"amd64", "static_amd64", "i386", "i686", "arm", "armel", "armhf", "arm64", "aarch64"}

\* What uname may say.
Machines == {"x86_64", "386", "i386", "i686", "armv6l", "armv7l", "aarch64"}

\* The names with an "arm" in them, of machines or of architectures.
Arms == {"arm", "armel", "armhf", "arm64", "armv6l", "armv7l"}

\* get_system_arch: the default of --arch, from uname.
SystemArch(machine) ==
    CASE machine = "x86_64" -> "amd64"
      [] machine = "386" -> "i386"
      [] machine \in Arms -> "arm"
      [] OTHER -> machine

\* "static_" in arch, and the name without it.
StaticArch(arch) == arch = "static_amd64"
Plain(arch) == IF StaticArch(arch) THEN "amd64" ELSE arch

(***************************************************************************)
(* build()                                                                 *)
(***************************************************************************)
GOARCH(arch) ==
    CASE Plain(arch) \in {"i386", "i686"} -> "386"
      [] Plain(arch) \in Arms -> "arm"
      [] OTHER -> Plain(arch)

NoArm == 0

\* Mutant of GOARM: `arm' is taken for armel.
GOARMOfArmel(goarch) ==
    CASE goarch \in {"armel", "arm"} -> 5
      [] goarch = "armhf" -> 6
      [] goarch = "arm64" -> 7
      [] OTHER -> NoArm

\* The code selects by the name that is left after GOARCH.
GOARM(goarch) ==
    CASE goarch = "armel" -> 5
      [] goarch \in {"armhf", "arm"} -> 6
      [] goarch = "arm64" -> 7
      [] OTHER -> NoArm

\* Go versions are tuples of numbers.  "1.4" in get_go_version() looks for three
\* characters anywhere: a number that ends in 1 before one that begins with 4.
OldLinkerFlags(go) ==
    \E i \in 1..Len(go) - 1 : go[i] % 10 = 1 /\ (go[i + 1] = 4 \/ go[i + 1] \in 40..49)

\* The linkers of Go 1.5 and later want -X name=value, and since Go 1.7 the form
\* `-X name value' is an error; earlier ones know only that.
Minor(go) == go[2]

\* The architectures Go knows, of those that GOARCH gives.
GOARCHs == {"386", "amd64", "arm"}

Links(go) ==
    IF OldLinkerFlags(go) THEN Minor(go) < 7 ELSE Minor(go) >= 5

\* What `go build' makes: of which commit and local changes, for which machine.
Binary(t, static, version, commit, changes) ==
    [os |-> t.platform, arch |-> GOARCH(t.arch), arm |-> GOARM(GOARCH(t.arch)),
     static |-> static, version |-> version, commit |-> commit, changes |-> changes]

(***************************************************************************)
(* Versions: the commit that was current, or numbers that were given; with *)
(* the date once it is a nightly build.                                    *)
(***************************************************************************)
NoVersion == [of |-> "none", parts |-> <<>>, nightly |-> FALSE]

\* increment_minor_version, and the date.
NightlyVersion(v) ==
    [v EXCEPT !.parts = IF Len(@) = 3 THEN <<@[1], @[2] + 1, 0>> ELSE @,
              !.nightly = TRUE]

(***************************************************************************)
(* package(): the names of files, with the fields that appear in them.     *)
(***************************************************************************)
Name(type, static, nightly, version, iteration, platform, arch) ==
    [type |-> type, static |-> static, nightly |-> nightly, version |-> version,
     iteration |-> iteration, platform |-> platform, arch |-> arch]

\* go build -o
BinaryName == Name("binary", FALSE, FALSE, NoVersion, "", "", "")

TarName(t, static, nightly, version, iteration) ==
    IF nightly
    THEN Name("tar", static, TRUE, NoVersion, "", t.platform, Plain(t.arch))
    ELSE Name("tar", static, FALSE, version, iteration, t.platform, Plain(t.arch))

\* The file fpm makes ...
FpmName(t, type, version, iteration) ==
    Name(type, FALSE, FALSE, version, iteration, "", Plain(t.arch))

\* ... and what it is renamed to: the nightly version, or the iteration, goes.
RenamedName(t, type, nightly, version) ==
    Name(type, FALSE, nightly, IF nightly THEN NoVersion ELSE version, "", "", Plain(t.arch))

\* Mutant of Skipped: fpm is run on static builds too.
SkippedNever(static, type) == FALSE

\* deb and rpm packages are not made of static builds.
Skipped(static, type) == type # "tar" /\ static

(***************************************************************************)
(* The files of a package.                                                 *)
(***************************************************************************)
CONFIGURATION_FILES == {"/etc/influxdb-relay/influxdb-relay.conf",
                        "/etc/logrotate.d/influxdb-relay"}

\* create_package_fs, package_scripts and the copy of the binary; for static
\* builds the configuration and the binary at the root.
Layout(static) ==
    IF static THEN {"influxdb-relay.conf", "influxdb-relay"}
    ELSE CONFIGURATION_FILES \cup
         {"/usr/lib/influxdb-relay/scripts/init.sh",
          "/usr/lib/influxdb-relay/scripts/influxdb-relay.service",
          "/var/log/influxdb-relay", "/var/lib/influxdb-relay", "/usr/bin/influxdb-relay"}
=============================================================================
