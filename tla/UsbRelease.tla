------------------------------ MODULE UsbRelease ------------------------------
(***************************************************************************)
(* A release on its way from the build host to a guest: build-release.sh   *)
(* publishes a package directory, prepare-usb.sh copies it to a stick, and *)
(* the launcher on the stick verifies the payload and starts the client.   *)
(*                                                                         *)
(* The three programs share directories and nothing else.  A directory is  *)
(* moved in one step and copied, removed and read one file at a time; each *)
(* script can fail or be interrupted between any two steps and be run      *)
(* again.  Files on the stick can go bad.                                  *)
(*                                                                         *)
(* A release is one run of build-release.sh; several may have one version. *)
(* A file is represented by the release it was built for, and stands for   *)
(* itself and its detached signature; the signing key never changes.  All  *)
(* targets of a release are represented by one, and its inventory          *)
(* SHA256SUMS.txt by the comparison that Whole makes.                      *)
(***************************************************************************)
EXTENDS Naturals, Sequences, FiniteSetsExt, Functions

CONSTANTS
  Releases,    \* runs of build-release.sh that may publish a package
  Version,     \* the version each is built with: see ReleasesAssumption
  First,       \* the release that is published at the beginning
  None, Bad,   \* no file; a file whose content was damaged
  Orders,      \* orders in which a file system lists the files of a package
  MaxDamage    \* bound: files on the stick that go bad

Files == {"launcher", "config", "manifest", "payload", "version"}

\* numericVersion: the part of a version before its first "-" is made of numbers.
Numeric(version) == version.core \in Seq(Nat) \ {<<>>}

\* A version is a core, whose parts between dots are numbers or other words, and
\* a suffix after the first "-".  (build-release.sh takes neither the leading "v"
\* nor the blanks that numericVersion would drop.)
ASSUME ReleasesAssumption ==
  /\ DOMAIN Version = Releases
  /\ \A r \in Releases : DOMAIN Version[r] = {"core", "suffix"}
  /\ First \in Releases /\ Numeric(Version[First])
  /\ None \notin Releases /\ Bad \notin Releases /\ None # Bad
  /\ MaxDamage \in Nat
  /\ \A o \in Orders : o \in Seq(Files) /\ IsInjective(o) /\ Range(o) = Files

VARIABLES
  package,   \* packaging/usb on the build host
  previous,  \* packaging/.usb-previous
  build,     \* the run of build-release.sh
  published, \* history: releases that were published
  order,     \* the order in which cp and rm take the files
  stage,     \* OPENCLAW_BRIDGE.stage on the stick
  current,   \* OPENCLAW_BRIDGE on the stick
  archive,   \* releases that are whole under BRIDGE_USB_BACKUP_ROOT
  prepare,   \* the step of prepare-usb.sh
  delivered, \* history: releases prepare-usb.sh put on the stick
  damage,    \* number of files that went bad
  launcher,  \* the run of the launcher
  temp       \* OpenClawBridge-* directories with a client, on the guest

hostVars == <<package, previous, build, published>>
stickVars == <<order, stage, current, archive, prepare, delivered, damage>>
guestVars == <<launcher, temp>>
vars == <<package, previous, build, published, order, stage, current, archive, prepare,
          delivered, damage, launcher, temp>>

Empty == [f \in Files |-> None]
Complete(r) == [f \in Files |-> r]

\* sha256sum -c SHA256SUMS.txt
Whole(d) == \E r \in Releases : d = Complete(r)

NoBuild == [pc |-> "idle"]
NoLauncher == [pc |-> "idle"]

Init ==
  /\ package = Complete(First)
  /\ previous = Empty
  /\ build = NoBuild
  /\ published = {First}
  /\ order \in Orders
  /\ stage = Empty
  /\ current \in {Empty, Complete(First)}
  /\ archive = {}
  /\ prepare = "idle"
  /\ delivered = IF current = Empty THEN {} ELSE {First}
  /\ damage = 0
  /\ launcher = NoLauncher
  /\ temp = {}

-----------------------------------------------------------------------------
(* Versions.                                                               *)

\* A part of a core that Numeric holds for.
Part(v, i) == IF i <= Len(v) THEN v[i] ELSE 0

Differ(v, w) == {i \in 1..Max({Len(v), Len(w)}) : Part(v, i) # Part(w, i)}

\* Fault: the same version is not enough.
VersionAbove(version, minimum) ==
  /\ Numeric(version) /\ Numeric(minimum)
  /\ LET v == version.core
         w == minimum.core
     IN Differ(v, w) # {} /\ Part(v, Min(Differ(v, w))) > Part(w, Min(Differ(v, w)))

\* Fault: versions are compared like text, part by part and without the rest.
SamePrefixAtLeast(version, minimum) ==
  /\ Numeric(version) /\ Numeric(minimum)
  /\ \A i \in 1..Min({Len(version.core), Len(minimum.core)}) : version.core[i] >= minimum.core[i]

\* The first part that differs decides, absent parts are 0.
CoreAtLeast(v, w) ==
  Differ(v, w) # {} => Part(v, Min(Differ(v, w))) > Part(w, Min(Differ(v, w)))

\* VersionAtLeast: suffixes do not count, what cannot be read is never enough.
VersionAtLeast(version, minimum) ==
  Numeric(version) /\ Numeric(minimum) /\ CoreAtLeast(version.core, minimum.core)

-----------------------------------------------------------------------------
(* build-release.sh                                                        *)

\* Fault: a version that the script lets pass is signed as it is.
BuildUnchecked(r) ==
  /\ build.pc = "idle"
  /\ r \notin published
  /\ package["config"] # None
  /\ build' = [pc |-> "verified", release |-> r]
  /\ UNCHANGED <<package, previous, published, stickVars, guestVars>>

\* The package is put together in a new directory, from the sources and the
\* configuration of the published package.  release-tool signs no version that
\* it cannot read.
Build(r) ==
  /\ build.pc = "idle"
  /\ r \notin published
  /\ package["config"] # None
  /\ VersionAtLeast(Version[r], Version[r])
  /\ build' = [pc |-> "verified", release |-> r]
  /\ UNCHANGED <<package, previous, published, stickVars, guestVars>>

Clear ==
  /\ build.pc = "verified"
  /\ previous' = Empty
  /\ build' = [build EXCEPT !.pc = "cleared"]
  /\ UNCHANGED <<package, published, stickVars, guestVars>>

\* Fault: the old package is not set aside.
RemoveOld ==
  /\ build.pc = "cleared"
  /\ package' = Empty
  /\ build' = [build EXCEPT !.pc = "aside"]
  /\ UNCHANGED <<previous, published, stickVars, guestVars>>

SetAside ==
  /\ build.pc = "cleared"
  /\ previous' = package
  /\ package' = Empty
  /\ build' = [build EXCEPT !.pc = "aside"]
  /\ UNCHANGED <<published, stickVars, guestVars>>

\* Fault: the new package is copied over the old one.
PublishOver ==
  /\ build.pc = "aside"
  /\ \E f \in Files :
       /\ package[f] = None
       /\ package' = [package EXCEPT ![f] = build.release]
       /\ build' = IF \A g \in Files \ {f} : package[g] # None
                   THEN [build EXCEPT !.pc = "published"] ELSE build
  /\ UNCHANGED <<previous, published, stickVars, guestVars>>

Publish ==
  /\ build.pc = "aside"
  /\ package' = Complete(build.release)
  /\ published' = published \cup {build.release}
  /\ build' = [build EXCEPT !.pc = "published"]
  /\ UNCHANGED <<previous, stickVars, guestVars>>

\* The move failed: the old package is put back.
Restore ==
  /\ build.pc = "aside"
  /\ package' = previous
  /\ previous' = Empty
  /\ build' = NoBuild
  /\ UNCHANGED <<published, stickVars, guestVars>>

Forget ==
  /\ build.pc = "published"
  /\ previous' = Empty
  /\ build' = NoBuild
  /\ UNCHANGED <<package, published, stickVars, guestVars>>

\* The script fails or is interrupted; cleanup removes its own directory.
StopBuild ==
  /\ build.pc # "idle"
  /\ build' = NoBuild
  /\ UNCHANGED <<package, previous, published, stickVars, guestVars>>

Builder ==
  \/ \E r \in Releases : Build(r)
  \/ Clear \/ SetAside \/ Publish \/ Restore \/ Forget \/ StopBuild

-----------------------------------------------------------------------------
(* prepare-usb.sh                                                          *)

\* What happens on the stick disturbs a launcher that runs.
Beside ==
  /\ UNCHANGED <<hostVars, order, temp>>
  /\ launcher' = IF launcher.pc = "idle" THEN launcher ELSE [launcher EXCEPT !.quiet = FALSE]

Prepare ==
  /\ prepare = "idle"
  /\ package # Empty
  /\ stage' = Empty
  /\ prepare' = "copying"
  /\ UNCHANGED <<current, archive, delivered, damage>>
  /\ Beside

\* f is the first of fs in the order of the file system.
IsNext(f, fs) ==
  \E i \in DOMAIN order : order[i] = f /\ \A j \in 1..i : order[j] \in fs <=> j = i

\* cp -a: one more file, as the published package has it now.
Copy(f) ==
  /\ prepare = "copying"
  /\ IsNext(f, {g \in Files : stage[g] = None})
  /\ package[f] # None
  /\ stage' = [stage EXCEPT ![f] = package[f]]
  /\ UNCHANGED <<current, archive, prepare, delivered, damage>>
  /\ Beside

\* Fault: what was copied is not checked.
CheckNothing ==
  /\ prepare = "copying"
  /\ None \notin {stage[f] : f \in Files}
  /\ prepare' = IF current = Empty THEN "moving" ELSE "archiving"
  /\ UNCHANGED <<stage, current, archive, delivered, damage>>
  /\ Beside

Check ==
  /\ prepare = "copying"
  /\ Whole(stage)
  /\ prepare' = IF current = Empty THEN "moving" ELSE "archiving"
  /\ UNCHANGED <<stage, current, archive, delivered, damage>>
  /\ Beside

\* Fault: an archive that is there already is taken for the one to make.
ArchiveOnce ==
  /\ prepare = "archiving"
  /\ archive' = IF archive = {} THEN {r \in Releases : current = Complete(r)} ELSE archive
  /\ prepare' = "removing"
  /\ UNCHANGED <<stage, current, delivered, damage>>
  /\ Beside

\* archive_from_usb: a copy under a new name, compared with the original ...
Archive ==
  /\ prepare = "archiving"
  /\ archive' = archive \cup {r \in Releases : current = Complete(r)}
  /\ prepare' = "removing"
  /\ UNCHANGED <<stage, current, delivered, damage>>
  /\ Beside

\* ... which is then removed, file by file.
Remove(f) ==
  /\ prepare = "removing"
  /\ IsNext(f, {g \in Files : current[g] # None})
  /\ current' = [current EXCEPT ![f] = None]
  /\ prepare' = IF current' = Empty THEN "moving" ELSE prepare
  /\ UNCHANGED <<stage, archive, delivered, damage>>
  /\ Beside

Move ==
  /\ prepare = "moving"
  /\ current' = stage
  /\ stage' = Empty
  /\ prepare' = "checking"
  /\ UNCHANGED <<archive, delivered, damage>>
  /\ Beside

\* "Prepared and verified"
Prepared ==
  /\ prepare = "checking"
  /\ \E r \in Releases :
       current = Complete(r) /\ delivered' = delivered \cup {r}
  /\ prepare' = "idle"
  /\ UNCHANGED <<stage, current, archive, damage>>
  /\ Beside

\* The script fails at any of its steps, or the stick is pulled out.
StopPrepare ==
  /\ prepare # "idle"
  /\ prepare' = "idle"
  /\ UNCHANGED <<stage, current, archive, delivered, damage>>
  /\ Beside

Preparer ==
  \/ Prepare \/ Check \/ Archive \/ Move \/ Prepared \/ StopPrepare
  \/ \E f \in Files : Copy(f) \/ Remove(f)

Damage(f) ==
  /\ damage < MaxDamage
  /\ current[f] \in Releases
  /\ current' = [current EXCEPT ![f] = Bad]
  /\ damage' = damage + 1
  /\ UNCHANGED <<stage, archive, prepare, delivered>>
  /\ Beside

-----------------------------------------------------------------------------
(* The launcher.                                                           *)

\* The directory the launcher was started from is read by its path.
Root == IF launcher.root = "current" THEN current ELSE stage

Reaches(pc) == launcher' = [launcher EXCEPT !.pc = pc]
Fails == launcher' = [launcher EXCEPT !.pc = "refused"]
GuestOnly == UNCHANGED <<hostVars, stickVars>>

\* run, findPortableRoot: the version of the running launcher is built in, the
\* directory is known by its config and manifest.  quiet: the package is whole
\* and nothing has disturbed it since.
Launch(root) ==
  LET d == IF root = "current" THEN current ELSE stage IN
  /\ launcher.pc = "idle"
  /\ d["launcher"] \in Releases
  /\ launcher' = [pc |-> IF d["config"] # None /\ d["manifest"] # None
                         THEN "rooted" ELSE "refused",
                  root |-> root, self |-> d["launcher"], manifest |-> None,
                  payload |-> None, quiet |-> Whole(d) /\ prepare = "idle"]
  /\ UNCHANGED temp
  /\ GuestOnly

\* loadPublicConfig
LoadConfig ==
  /\ launcher.pc = "rooted"
  /\ IF Root["config"] \in Releases THEN Reaches("configured") ELSE Fails
  /\ UNCHANGED temp
  /\ GuestOnly

\* LoadAndVerify: the manifest and its signature ...
LoadManifest ==
  /\ launcher.pc = "configured"
  /\ IF Root["manifest"] \in Releases
     THEN launcher' = [launcher EXCEPT !.pc = "manifest", !.manifest = Root["manifest"]]
     ELSE Fails
  /\ UNCHANGED temp
  /\ GuestOnly

\* Fault: any payload with a good signature will do.
LoadSigned ==
  /\ launcher.pc = "manifest"
  /\ IF Root["payload"] \in Releases
     THEN launcher' = [launcher EXCEPT !.pc = "loaded", !.payload = Root["payload"]]
     ELSE Fails
  /\ UNCHANGED temp
  /\ GuestOnly

\* ... then the payload, its signature, and the hash the manifest has of it.
LoadPayload ==
  /\ launcher.pc = "manifest"
  /\ IF Root["payload"] = launcher.manifest
     THEN launcher' = [launcher EXCEPT !.pc = "loaded", !.payload = Root["payload"]]
     ELSE Fails
  /\ UNCHANGED temp
  /\ GuestOnly

\* The manifest's minimumLauncher is the version of its own release, and
\* VERSION.txt must have the text of its version.
VersionsMatch ==
  /\ VersionAtLeast(Version[launcher.self], Version[launcher.manifest])
  /\ Root["version"] \in Releases
  /\ Version[Root["version"]] = Version[launcher.manifest]

\* If both fit, the verified bytes are written to a new directory ...
Accept ==
  /\ launcher.pc = "loaded"
  /\ VersionsMatch
  /\ temp' = temp \cup {"own"}
  /\ Reaches("staged")
  /\ GuestOnly

Mismatch ==
  /\ launcher.pc = "loaded"
  /\ ~VersionsMatch
  /\ Fails
  /\ UNCHANGED temp
  /\ GuestOnly

\* ... and started once the user has consented.
Consent ==
  /\ launcher.pc = "staged"
  /\ Reaches("running")
  /\ UNCHANGED temp
  /\ GuestOnly

\* The client ended, the user did not consent, or a check failed: run returns
\* and the deferred RemoveAll runs.
Return ==
  /\ launcher.pc \in {"staged", "running", "refused"}
  /\ launcher' = NoLauncher
  /\ temp' = temp \ {"own"}
  /\ GuestOnly

\* Ctrl+C ends the launcher, which has no handler for it: nothing deferred runs.
Interrupt ==
  /\ launcher.pc # "idle"
  /\ launcher' = NoLauncher
  /\ temp' = IF "own" \in temp THEN {"left"} ELSE temp
  /\ GuestOnly

Launcher ==
  \/ \E root \in {"current", "stage"} : Launch(root)
  \/ LoadConfig \/ LoadManifest \/ LoadPayload \/ Accept \/ Mismatch
  \/ Consent \/ Return \/ Interrupt

Next == Builder \/ Preparer \/ (\E f \in Files : Damage(f)) \/ Launcher

Spec == Init /\ [][Next]_vars

-----------------------------------------------------------------------------
(* Properties.                                                             *)

\* Whoever looks into packaging/usb finds one whole release or nothing, however
\* the builds before it ended (build-release.sh, publication).
PackageWhole == package = Empty \/ Whole(package)

\* No interruption of a build loses the published release, and with it the
\* configuration every later build needs (build-release.sh, publication).
ReleaseKept == Whole(package) \/ Whole(previous)

\* The published release is always there as a whole, in its place or set aside.
PackageKept == PackageWhole /\ ReleaseKept

\* The files of the package on the stick are of one release, although they are
\* copied while another release may be published (prepare-usb.sh, check).
StickNotMixed ==
  \E r \in Releases : \A f \in Files : current[f] \in {r, None, Bad}

\* A release once delivered is whole on the stick or in the backups, after any
\* number of interrupted runs (prepare-usb.sh, archive_from_usb).
StickKept ==
  damage = 0 => \A r \in delivered : r \in archive \/ current = Complete(r)

\* The client that runs is the payload of the manifest that was checked, of a
\* published release, whatever was exchanged on the stick between two reads of
\* the launcher (LoadAndVerify, run).
OneRelease ==
  launcher.pc = "running" =>
    launcher.payload = launcher.manifest /\ launcher.payload \in published

\* Reference for CoreAtLeast, part by part: w is not ahead where nothing before
\* decides.
NotOlder(v, w) ==
  \A i \in 1..(Len(v) + Len(w)) :
    (\A j \in 1..(i - 1) : Part(v, j) = Part(w, j)) => Part(v, i) >= Part(w, i)

\* A client is started only by a launcher whose numbers are not behind those of
\* the client's release.  Suffixes do not count, so a beta may start a later beta,
\* and a launcher may start what is older than itself (VersionAtLeast, run).
CompatibleOnly ==
  launcher.pc = "running" =>
    /\ Numeric(Version[launcher.self]) /\ Numeric(Version[launcher.payload])
    /\ NotOlder(Version[launcher.self].core, Version[launcher.payload].core)

\* A launcher started from a whole package that nothing disturbed is not refused:
\* what build-release.sh publishes passes every check of the launcher, the reading
\* of its own version included.
RefusedForCause == launcher.pc = "refused" => ~launcher.quiet

\* The launcher starts what its numbers are enough for, and nothing that was
\* published and left alone is refused.
VersionsDecide == CompatibleOnly /\ RefusedForCause

\* USAGE.md: "Use `session.disconnect`, Ctrl+C, or close the window. [...]
\* launcher-owned [temporary directory] is removed."
StageRemoved == launcher.pc = "idle" => temp = {}

\* CHANGELOG.md: "Embed the launcher version, sign the minimum compatible launcher
\* version, and reject mismatches between the launcher, manifest, and `VERSION.txt`."
MismatchRejected ==
  launcher.pc = "running" => Version[launcher.self] = Version[launcher.manifest]
=============================================================================
