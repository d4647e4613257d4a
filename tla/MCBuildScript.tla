----------------------------- MODULE MCBuildScript -----------------------------
(***************************************************************************)
(* Small instances of BuildScript for TLC.                                 *)
(***************************************************************************)
EXTENDS BuildScript

\* Two branches; commit c0 is on neither tip.
MCTip == [master |-> "c1", other |-> "c2"]

\* build.py without options.
Plainly ==
    [branch |-> Default, commit |-> Default, fullHash |-> FALSE,
     platform |-> Default, arch |-> Default,
     outdir |-> "build", version |-> <<>>, iteration |-> "1",
     clean |-> FALSE, noGet |-> FALSE, noUncommitted |-> FALSE, package |-> FALSE,
     static |-> FALSE, nightly |-> FALSE, release |-> FALSE]

Packaged == [Plainly EXCEPT !.package = TRUE]

\* Every way through main(), build() and package().
MCRequests ==
    {Plainly,
     [Packaged EXCEPT !.branch = "other", !.noUncommitted = TRUE],
     [Packaged EXCEPT !.commit = "c0", !.static = TRUE, !.clean = TRUE],
     [Packaged EXCEPT !.arch = "all", !.clean = TRUE],
     [Packaged EXCEPT !.platform = "all", !.arch = "all", !.nightly = TRUE,
                      !.version = <<0, 9, 3>>],
     [Packaged EXCEPT !.arch = "armhf", !.commit = "c1", !.fullHash = TRUE],
     [Packaged EXCEPT !.arch = "arm64", !.static = TRUE],
     [Plainly EXCEPT !.branch = "other", !.commit = "c0"],
     [Plainly EXCEPT !.outdir = ".", !.clean = TRUE],
     [Plainly EXCEPT !.platform = "windows"]}

UncommittedRequests == {[Plainly EXCEPT !.noUncommitted = TRUE],
                        [Plainly EXCEPT !.noUncommitted = TRUE, !.branch = "other"]}

MCEdits == {{}, {"unstaged"}}
AllEdits == SUBSET {"staged", "unstaged"}

OneGo == {<<1, 10>>}
=============================================================================
