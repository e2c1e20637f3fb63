--------------------------- MODULE UsbReleaseProofs ---------------------------
(***************************************************************************)
(* The way of a release to a guest, for any set of versions, any order in  *)
(* which files are copied and removed, and any number of damaged files.    *)
(* Each of the three programs trusts what the one before it checked: the   *)
(* package directory holds one release or nothing, prepare-usb.sh moves    *)
(* only a stage that it has found whole, and the launcher runs the payload *)
(* that the manifest it read was signed with.                              *)
(***************************************************************************)
EXTENDS UsbRelease, WellFoundedInduction, TLAPS

\* Packages that a directory can hold, and what a file of it can be.
Packages == {Empty} \cup {Complete(v) : v \in published}

BuildRuns == [pc : {"verified", "cleared", "aside", "published"}, release : Releases]

LauncherRuns ==
  [pc : {"rooted", "configured", "manifest", "loaded", "staged", "running", "refused"},
   root : {"current", "stage"}, self : Releases, manifest : Releases \cup {None},
   payload : Releases \cup {None}, quiet : BOOLEAN]

HostOK ==
  /\ published \subseteq Releases
  /\ build \in BuildRuns \cup {NoBuild}
  /\ package \in Packages
  /\ previous \in Packages
  /\ build.pc \in {"verified", "cleared", "published"} => package # Empty
  /\ build.pc = "aside" => package = Empty
  /\ package = Empty => previous # Empty
  /\ \A r \in published : Numeric(Version[r])
  /\ build.pc # "idle" => Numeric(Version[build.release])

\* The stage is only moved when it was found whole, and from the moment the old
\* package is in the archive nothing that was delivered is on the stick alone.
StickOK ==
  /\ stage \in [Files -> published \cup {None}]
  /\ current \in [Files -> published \cup {None, Bad}]
  /\ StickNotMixed
  /\ prepare \in {"archiving", "removing", "moving"} => Whole(stage)
  /\ delivered \subseteq Releases /\ damage \in Nat
  /\ StickKept
  /\ damage = 0 /\ prepare \in {"removing", "moving"} => delivered \subseteq archive

Compatible(r, q) ==
  Numeric(Version[r]) /\ Numeric(Version[q]) /\ NotOlder(Version[r].core, Version[q].core)

\* What the launcher has checked of its release, at each of its steps.  While
\* nothing disturbs it, it reads the release that it is part of.
LauncherOK ==
  /\ launcher \in LauncherRuns \cup {NoLauncher}
  /\ launcher.pc \in {"manifest", "loaded", "staged", "running"} =>
       launcher.manifest \in published
  /\ launcher.pc \in {"loaded", "staged", "running"} => launcher.payload = launcher.manifest
  /\ launcher.pc \in {"staged", "running"} => Compatible(launcher.self, launcher.manifest)
  /\ launcher.pc # "idle" /\ launcher.quiet =>
       /\ Root = Complete(launcher.self)
       /\ launcher.pc # "refused"
       /\ launcher.pc \in {"manifest", "loaded"} => launcher.manifest = launcher.self

UsbInv == HostOK /\ StickOK /\ LauncherOK
-----------------------------------------------------------------------------
(* Versions.                                                               *)

LEMMA LeastOf ==
  ASSUME NEW S \in SUBSET Nat, S # {}
  PROVE  Min(S) \in S /\ \A x \in S : Min(S) <= x
<1>1. PICK m \in S : \A x \in S : ~(<<x, m>> \in OpToRel(<, Nat))
  BY WFMin, NatLessThanWellFounded
<1>2. ASSUME NEW x \in S PROVE m <= x
  <2>1. m \in Nat /\ x \in Nat /\ <<x, m>> \in Nat \X Nat
    OBVIOUS
  <2>2. x < m => <<x, m>> \in OpToRel(<, Nat)
    BY <2>1, Zenon DEF OpToRel
  <2>3. ~(x < m)
    BY <1>1, <2>2, Zenon
  <2> QED BY <2>1, <2>3
<1> QED BY <1>1, <1>2 DEF Min

LEMMA LargerOf ==
  ASSUME NEW m \in Nat, NEW n \in Nat
  PROVE  Max({m, n}) \in Nat /\ Max({m, n}) >= m /\ Max({m, n}) >= n /\ Max({m, n}) <= m + n
<1>1. \E x \in {m, n} : \A y \in {m, n} : x >= y
  OBVIOUS
<1>2. Max({m, n}) \in {m, n} /\ \A y \in {m, n} : Max({m, n}) >= y
  BY <1>1 DEF Max
<1> QED BY <1>2

LEMMA PartNat ==
  ASSUME NEW v \in Seq(Nat), NEW i \in Nat \ {0}
  PROVE  Part(v, i) \in Nat /\ (i > Len(v) => Part(v, i) = 0)
  BY DEF Part

\* The first part that differs decides, for cores of any length with parts of any
\* size.
LEMMA CoreOrder ==
  ASSUME NEW v \in Seq(Nat), NEW w \in Seq(Nat)
  PROVE  CoreAtLeast(v, w) <=> NotOlder(v, w)
<1> DEFINE m == Max({Len(v), Len(w)})
           n == Len(v) + Len(w)
           D == {i \in 1..m : Part(v, i) # Part(w, i)}
<1>0. Len(v) \in Nat /\ Len(w) \in Nat
  OBVIOUS
<1>1. m \in Nat /\ m >= Len(v) /\ m >= Len(w) /\ m <= n /\ n \in Nat
  <2>1. \A a, b \in Nat : /\ Max({a, b}) \in Nat /\ Max({a, b}) >= a
                           /\ Max({a, b}) >= b /\ Max({a, b}) <= a + b
    BY LargerOf
  <2>2. n \in Nat
    BY <1>0
  <2> HIDE DEF n
  <2>3. m \in Nat /\ m >= Len(v) /\ m >= Len(w) /\ m <= Len(v) + Len(w)
    BY <1>0, <2>1
  <2> HIDE DEF m
  <2> QED BY <2>2, <2>3 DEF n
<1>2. \A i \in 1..n : Part(v, i) \in Nat /\ Part(w, i) \in Nat
  BY PartNat
<1>3. \A i \in 1..n : i \notin D => Part(v, i) = Part(w, i)
  <2>1. ASSUME NEW i \in 1..n, i \notin 1..m PROVE Part(v, i) = 0 /\ Part(w, i) = 0
    <3> HIDE DEF m, n
    <3>1. i \in Nat \ {0} /\ i > m
      BY <1>1, <2>1
    <3>2. i > Len(v) /\ i > Len(w)
      BY <1>0, <1>1, <3>1
    <3> QED BY <3>1, <3>2, PartNat
  <2> QED BY <2>1
<1>4. CoreAtLeast(v, w) <=> (D # {} => Part(v, Min(D)) > Part(w, Min(D)))
  BY DEF CoreAtLeast, Differ
<1>5. D \subseteq 1..n /\ D \subseteq Nat
  BY <1>1
<1>6. \A i \in D : Part(v, i) # Part(w, i)
  OBVIOUS
<1> HIDE DEF D, m, n
<1>7. CASE D = {}
  <2>1. NotOlder(v, w)
    BY <1>2, <1>3, <1>7 DEF NotOlder, n
  <2> QED BY <1>4, <1>7, <2>1
<1>8. CASE D # {}
  <2> DEFINE d == Min(D)
  <2>1. d \in D /\ d \in 1..n /\ \A i \in D : d <= i
    BY <1>5, <1>8, LeastOf
  <2> HIDE DEF d
  <2>2. \A j \in 1..(d - 1) : j \in 1..n /\ j \notin D
    BY <1>1, <2>1
  <2>3. \A j \in 1..(d - 1) : Part(v, j) = Part(w, j)
    BY <1>3, <2>2
  <2>4. Part(v, d) \in Nat /\ Part(w, d) \in Nat /\ Part(v, d) # Part(w, d)
    BY <1>2, <1>6, <2>1
  <2>5. ASSUME Part(v, d) > Part(w, d) PROVE NotOlder(v, w)
    <3> SUFFICES ASSUME NEW i \in 1..n, \A j \in 1..(i - 1) : Part(v, j) = Part(w, j)
                 PROVE  Part(v, i) >= Part(w, i)
      BY DEF NotOlder, n
    <3>1. CASE i < d
      BY <1>1, <1>2, <2>1, <2>3, <3>1
    <3>2. CASE i = d
      BY <2>4, <2>5, <3>2
    <3>3. CASE i > d
      <4>1. d \in 1..(i - 1)
        BY <1>1, <2>1, <3>3
      <4> QED BY <2>4, <4>1
    <3> QED BY <1>1, <2>1, <3>1, <3>2, <3>3
  <2>6. ASSUME NotOlder(v, w) PROVE Part(v, d) > Part(w, d)
    <3>1. Part(v, d) >= Part(w, d)
      BY <2>1, <2>3, <2>6 DEF NotOlder, n
    <3> QED BY <2>4, <3>1
  <2> QED BY <1>4, <1>8, <2>5, <2>6 DEF d
<1> QED BY <1>7, <1>8

\* A version is enough for another exactly if both can be read and the first part
\* that differs, if any does, is greater in its core; their suffixes do not matter
\* (VersionAtLeast, numericVersion).
THEOREM VersionOrder ==
  ASSUME NEW version, NEW minimum
  PROVE  VersionAtLeast(version, minimum) <=>
           /\ Numeric(version) /\ Numeric(minimum)
           /\ NotOlder(version.core, minimum.core)
<1>1. Numeric(version) /\ Numeric(minimum) =>
        (CoreAtLeast(version.core, minimum.core) <=> NotOlder(version.core, minimum.core))
  <2> SUFFICES ASSUME Numeric(version), Numeric(minimum)
               PROVE  CoreAtLeast(version.core, minimum.core) <=>
                        NotOlder(version.core, minimum.core)
    OBVIOUS
  <2>1. version.core \in Seq(Nat) /\ minimum.core \in Seq(Nat)
    BY DEF Numeric
  <2> QED BY <2>1, CoreOrder
<1> QED BY <1>1 DEF VersionAtLeast

LEMMA SameVersion == ASSUME NEW v, Numeric(v) PROVE VersionAtLeast(v, v)
  BY DEF VersionAtLeast, CoreAtLeast, Differ

-----------------------------------------------------------------------------
(* Directories.                                                            *)

LEMMA Directories ==
  /\ \A v \in Releases : /\ Complete(v) # Empty /\ Whole(Complete(v))
                         /\ \A f \in Files : Complete(v)[f] = v /\ Complete(v)[f] # None
  /\ \A v, w \in Releases : Complete(v) = Complete(w) => v = w
  /\ ~Whole(Empty)
<1>1. "config" \in Files /\ None \notin Releases
  BY ReleasesAssumption DEF Files
<1>2. \A v \in Releases : \A f \in Files : Complete(v)[f] = v
  BY DEF Complete
<1>3. \A f \in Files : Empty[f] = None
  BY DEF Empty
<1>4. \A v \in Releases : Complete(v) # Empty
  BY <1>1, <1>2, <1>3
<1> QED BY <1>1, <1>2, <1>3, <1>4 DEF Whole

LEMMA ReleaseFiles ==
  ASSUME HostOK, NEW d \in Packages
  PROVE  /\ d = Empty \/ Whole(d)
         /\ d \in [Files -> published \cup {None}]
         /\ d["config"] # None => d # Empty
  BY Directories DEF HostOK, Packages, Complete, Empty, Whole, Files

-----------------------------------------------------------------------------
(* The build host.                                                         *)

LEMMA HostStep == HostOK /\ [Next]_vars => HostOK' /\ published \subseteq published'
<1> SUFFICES ASSUME HostOK, [Next]_vars PROVE HostOK' /\ published \subseteq published'
  OBVIOUS
<1> DEFINE G == HostOK' /\ published \subseteq published'
<1>0. /\ build \in BuildRuns \cup {NoBuild} /\ NoBuild.pc = "idle"
      /\ build.pc # "idle" => build \in BuildRuns
  BY DEF HostOK, NoBuild
<1>1. CASE UNCHANGED hostVars
  BY <1>1 DEF HostOK, hostVars, Packages
<1>2. ASSUME NEW v \in Releases, Build(v) PROVE G
  <2>1. build' = [pc |-> "verified", release |-> v] /\ UNCHANGED <<package, previous, published>>
    BY <1>2 DEF Build
  <2>2. build' \in BuildRuns /\ build'.pc = "verified"
    BY <2>1 DEF BuildRuns
  <2>3. package # Empty
    BY <1>2, ReleaseFiles DEF Build, HostOK
  <2>4. Numeric(Version[build'.release])
    <3>1. build'.release = v
      BY <2>1
    <3>2. Numeric(Version[v])
      BY <1>2 DEF Build, VersionAtLeast
    <3> QED BY <3>1, <3>2
  <2> QED BY <2>1, <2>2, <2>3, <2>4 DEF HostOK, Packages
<1>3. ASSUME NEW pc \in {"cleared", "aside", "published"}, build \in BuildRuns,
             build' = [build EXCEPT !.pc = pc]
      PROVE  build' \in BuildRuns /\ build'.pc = pc /\ build'.release = build.release
  BY <1>3 DEF BuildRuns
<1>4. CASE Clear
  BY <1>0, <1>3, <1>4 DEF Clear, HostOK, Packages
<1>5. CASE SetAside
  BY <1>0, <1>3, <1>5 DEF SetAside, HostOK, Packages
<1>6. CASE Publish
  <2>1. build.release \in Releases
    BY <1>0, <1>6 DEF Publish, BuildRuns
  <2>2. /\ package' = Complete(build.release) /\ published' = published \cup {build.release}
        /\ UNCHANGED previous
    BY <1>6 DEF Publish
  <2>3. build' \in BuildRuns /\ build'.pc = "published"
    BY <1>0, <1>3, <1>6 DEF Publish
  <2>4. build.pc # "idle" /\ build'.release = build.release
    BY <1>0, <1>3, <1>6 DEF Publish
  <2>5. Numeric(Version[build'.release]) /\ \A r \in published' : Numeric(Version[r])
    BY <2>2, <2>4 DEF HostOK
  <2> QED BY <2>1, <2>2, <2>3, <2>5, Directories DEF HostOK, Packages
<1>7. CASE Restore
  BY <1>0, <1>7 DEF Restore, HostOK, Packages
<1>8. CASE Forget
  BY <1>0, <1>8 DEF Forget, HostOK, Packages
<1>9. CASE StopBuild
  BY <1>0, <1>9 DEF StopBuild, HostOK, Packages
<1>10. CASE Preparer \/ (\E f \in Files : Damage(f)) \/ Launcher \/ UNCHANGED vars
  <2>1. UNCHANGED hostVars
    BY <1>10 DEF Preparer, Prepare, Check, Archive, Move, Prepared, StopPrepare, Copy,
                 Remove, Damage, Beside, Launcher, Launch, LoadConfig, LoadManifest,
                 LoadPayload, Accept, Mismatch, Consent, Return, Interrupt, GuestOnly,
                 vars, hostVars
  <2> QED BY <1>1, <2>1 DEF hostVars
<1> QED BY <1>2, <1>4, <1>5, <1>6, <1>7, <1>8, <1>9, <1>10 DEF Next, Builder
-----------------------------------------------------------------------------
(* The stick.                                                              *)

\* What the files of the package are when nothing but Files is known of it.
LEMMA Grows ==
  ASSUME NEW X, NEW Y, NEW d \in [Files -> X], X \subseteq Y
  PROVE  d \in [Files -> Y]
  OBVIOUS

LEMMA StickStep == HostOK /\ StickOK /\ [Next]_vars => StickOK'
<1> SUFFICES ASSUME HostOK, StickOK, [Next]_vars PROVE StickOK'
  OBVIOUS
<1>0. published \subseteq published'
  BY HostStep
<1>1. CASE UNCHANGED stickVars
  <2>1. UNCHANGED <<stage, current, archive, prepare, delivered, damage>>
    BY <1>1 DEF stickVars
  <2> QED BY <1>0, <2>1 DEF StickOK, StickNotMixed, StickKept, Whole
<1>2. CASE Prepare
  <2>1. stage' \in [Files -> published' \cup {None}]
    BY <1>2 DEF Prepare, Empty
  <2>2. prepare' = "copying" /\ UNCHANGED <<current, archive, delivered, damage, published>>
    BY <1>2 DEF Prepare, Beside, hostVars
  <2> QED BY <2>1, <2>2 DEF StickOK, StickNotMixed, StickKept
<1>3. ASSUME NEW f \in Files, Copy(f) PROVE StickOK'
  <2>1. package[f] \in published \cup {None}
    BY ReleaseFiles DEF HostOK
  <2>2. /\ stage' = [stage EXCEPT ![f] = package[f]] /\ prepare = "copying"
        /\ UNCHANGED <<current, archive, prepare, delivered, damage, published>>
    BY <1>3 DEF Copy, Beside, hostVars
  <2> QED BY <2>1, <2>2 DEF StickOK, StickNotMixed, StickKept
<1>4. CASE Check
  <2>1. /\ Whole(stage) /\ UNCHANGED <<stage, current, archive, delivered, damage, published>>
        /\ prepare' = IF current = Empty THEN "moving" ELSE "archiving"
    BY <1>4 DEF Check, Beside, hostVars
  <2>2. damage = 0 /\ current = Empty => delivered \subseteq archive
    BY Directories DEF StickOK, StickKept
  <2> QED BY <2>1, <2>2 DEF StickOK, StickNotMixed, StickKept, Whole
<1>5. CASE Archive
  <2>1. /\ archive' = archive \cup {v \in Releases : current = Complete(v)}
        /\ prepare = "archiving" /\ prepare' = "removing"
        /\ UNCHANGED <<stage, current, delivered, damage, published>>
    BY <1>5 DEF Archive, Beside, hostVars
  <2>2. damage = 0 => delivered \subseteq archive'
    BY <2>1 DEF StickOK, StickKept
  <2> QED BY <2>1, <2>2 DEF StickOK, StickNotMixed, StickKept, Whole
<1>6. ASSUME NEW f \in Files, Remove(f) PROVE StickOK'
  <2>1. /\ current' = [current EXCEPT ![f] = None]
        /\ prepare = "removing" /\ prepare' \in {"removing", "moving"}
        /\ UNCHANGED <<stage, archive, delivered, damage, published>>
    BY <1>6 DEF Remove, Beside, hostVars
  <2>2. damage' = 0 => delivered' \subseteq archive'
    BY <2>1 DEF StickOK
  <2>3. StickNotMixed'
    BY <2>1 DEF StickOK, StickNotMixed
  <2>4. current' \in [Files -> published' \cup {None, Bad}]
    BY <2>1 DEF StickOK
  <2> QED BY <2>1, <2>2, <2>3, <2>4 DEF StickOK, StickKept, Whole
<1>7. CASE Move
  <2>1. /\ current' = stage /\ stage' = Empty
        /\ prepare = "moving" /\ prepare' = "checking"
        /\ UNCHANGED <<archive, delivered, damage, published>>
    BY <1>7 DEF Move, Beside, hostVars
  <2>2. PICK v \in Releases : stage = Complete(v)
    BY <2>1 DEF StickOK, Whole
  <2>3. StickNotMixed'
    BY <2>1, <2>2, Directories DEF StickNotMixed
  <2>4. damage' = 0 => delivered' \subseteq archive'
    BY <2>1 DEF StickOK
  <2>5. stage' \in [Files -> published' \cup {None}]
    BY <2>1 DEF Empty
  <2>6. current' \in [Files -> published' \cup {None, Bad}]
    BY <2>1 DEF StickOK
  <2> QED BY <2>1, <2>3, <2>4, <2>5, <2>6 DEF StickOK, StickKept
<1>8. CASE Prepared
  <2>1. PICK v \in Releases : current = Complete(v) /\ delivered' = delivered \cup {v}
    BY <1>8 DEF Prepared
  <2>2. prepare' = "idle" /\ UNCHANGED <<stage, current, archive, damage, published>>
    BY <1>8 DEF Prepared, Beside, hostVars
  <2>3. StickKept'
    BY <2>1, <2>2 DEF StickOK, StickKept
  <2> QED BY <2>1, <2>2, <2>3 DEF StickOK, StickNotMixed
<1>9. CASE StopPrepare
  <2>1. prepare' = "idle" /\ UNCHANGED <<stage, current, archive, delivered, damage, published>>
    BY <1>9 DEF StopPrepare, Beside, hostVars
  <2> QED BY <2>1 DEF StickOK, StickNotMixed, StickKept
<1>10. ASSUME NEW f \in Files, Damage(f) PROVE StickOK'
  <2>1. /\ current' = [current EXCEPT ![f] = Bad] /\ damage' = damage + 1
        /\ UNCHANGED <<stage, archive, prepare, delivered, published>>
    BY <1>10 DEF Damage, Beside, hostVars
  <2>2. damage' \in Nat /\ damage' # 0
    BY <2>1 DEF StickOK
  <2>3. StickNotMixed'
    BY <2>1 DEF StickOK, StickNotMixed
  <2>4. current' \in [Files -> published' \cup {None, Bad}]
    BY <2>1 DEF StickOK
  <2> QED BY <2>1, <2>2, <2>3, <2>4 DEF StickOK, StickKept, Whole
<1>11. CASE Builder \/ Launcher \/ UNCHANGED vars
  <2>1. UNCHANGED stickVars
    BY <1>11 DEF Builder, Build, Clear, SetAside, Publish, Restore, Forget, StopBuild,
                 Launcher, Launch, LoadConfig, LoadManifest, LoadPayload, Accept, Mismatch,
                 Consent, Return, Interrupt, GuestOnly, vars, stickVars
  <2> QED BY <1>1, <2>1
<1> QED BY <1>2, <1>3, <1>4, <1>5, <1>6, <1>7, <1>8, <1>9, <1>10, <1>11
        DEF Next, Preparer

-----------------------------------------------------------------------------
(* The launcher.                                                           *)

\* A file that the launcher can read as the file of some release is the file of
\* a published one.
LEMMA Published ==
  ASSUME HostOK, StickOK, NEW f \in Files, Root[f] \in Releases
  PROVE  Root[f] \in published
  BY ReleasesAssumption DEF StickOK, Root

LEMMA LauncherStep == HostOK /\ StickOK /\ LauncherOK /\ [Next]_vars => LauncherOK'
<1> SUFFICES ASSUME HostOK, StickOK, LauncherOK, [Next]_vars PROVE LauncherOK'
  OBVIOUS
<1>0. /\ NoLauncher.pc = "idle" /\ launcher \in LauncherRuns \cup {NoLauncher}
      /\ launcher.pc # "idle" => launcher \in LauncherRuns
      /\ published \subseteq published'
  BY HostStep DEF LauncherOK, NoLauncher
<1>1. CASE launcher' = NoLauncher
  BY <1>0, <1>1 DEF LauncherOK
<1>2. CASE UNCHANGED <<launcher, stage, current>>
  BY <1>0, <1>2 DEF LauncherOK, Root
<1>3. CASE Beside
  <2>1. CASE launcher.pc = "idle"
    BY <1>0, <1>1, <1>3, <2>1 DEF Beside, LauncherRuns
  <2>2. CASE launcher.pc # "idle"
    <3> DEFINE g == [launcher EXCEPT !.quiet = FALSE]
    <3>1. /\ g \in LauncherRuns /\ g.quiet = FALSE /\ g.pc = launcher.pc
          /\ g.manifest = launcher.manifest /\ g.payload = launcher.payload
          /\ g.self = launcher.self
      BY <1>0, <2>2 DEF LauncherRuns
    <3>2. launcher' = g /\ UNCHANGED published
      BY <1>3, <2>2 DEF Beside, hostVars
    <3> HIDE DEF g
    <3> QED BY <3>1, <3>2 DEF LauncherOK
  <2> QED BY <2>1, <2>2
<1>4. CASE Preparer \/ \E f \in Files : Damage(f)
  BY <1>3, <1>4 DEF Preparer, Prepare, Check, Archive, Move, Prepared, StopPrepare, Copy,
                    Remove, Damage
<1>5. CASE Builder \/ UNCHANGED vars
  BY <1>2, <1>5 DEF Builder, Build, Clear, SetAside, Publish, Restore, Forget, StopBuild,
                    stickVars, guestVars, vars
<1>6. ASSUME launcher \in LauncherRuns, launcher' \in LauncherRuns, GuestOnly,
             launcher'.root = launcher.root, launcher'.self = launcher.self,
             launcher'.quiet = launcher.quiet,
             launcher'.pc \in {"manifest", "loaded", "staged", "running"} =>
               launcher'.manifest \in published,
             launcher'.pc \in {"loaded", "staged", "running"} =>
               launcher'.payload = launcher'.manifest,
             launcher'.pc \in {"staged", "running"} =>
               Compatible(launcher'.self, launcher'.manifest),
             launcher.quiet =>
               /\ launcher'.pc # "refused"
               /\ launcher'.pc \in {"manifest", "loaded"} => launcher'.manifest = launcher'.self
      PROVE  LauncherOK'
  <2>1. Root' = Root /\ published' = published
    BY <1>6 DEF Root, GuestOnly, hostVars, stickVars
  <2>2. launcher.pc # "idle"
    BY <1>6 DEF LauncherRuns
  <2> QED BY <1>6, <2>1, <2>2 DEF LauncherOK
<1>7. ASSUME launcher \in LauncherRuns,
             NEW pc \in {"configured", "manifest", "loaded", "staged", "running", "refused"},
             Reaches(pc)
      PROVE  /\ launcher' \in LauncherRuns /\ launcher'.pc = pc
             /\ launcher'.root = launcher.root /\ launcher'.self = launcher.self
             /\ launcher'.quiet = launcher.quiet
             /\ launcher'.manifest = launcher.manifest /\ launcher'.payload = launcher.payload
  BY <1>7 DEF LauncherRuns, Reaches
<1>8. Fails => Reaches("refused")
  BY DEF Fails, Reaches
<1>9. launcher.pc # "idle" /\ launcher.quiet =>
        \A f \in Files : Root[f] = launcher.self /\ Root[f] \in Releases
  BY <1>0, Directories DEF LauncherOK, LauncherRuns
<1>10. {"config", "manifest", "payload", "version", "launcher"} \subseteq Files
  BY DEF Files
<1>11. ASSUME NEW root \in {"current", "stage"}, Launch(root) PROVE LauncherOK'
  <2> DEFINE d == IF root = "current" THEN current ELSE stage
             g == [pc |-> IF d["config"] # None /\ d["manifest"] # None
                          THEN "rooted" ELSE "refused",
                   root |-> root, self |-> d["launcher"], manifest |-> None,
                   payload |-> None, quiet |-> Whole(d) /\ prepare = "idle"]
  <2>1. d["launcher"] \in Releases /\ launcher' = g /\ UNCHANGED <<stage, current>>
    BY <1>11 DEF Launch, GuestOnly, stickVars
  <2>2. g \in LauncherRuns /\ g.pc \in {"rooted", "refused"}
    <3>1. (Whole(d) /\ prepare = "idle") \in BOOLEAN
      OBVIOUS
    <3> QED BY <2>1, <3>1 DEF LauncherRuns
  <2>3. Root' = d
    BY <2>1 DEF Root
  <2>4. ASSUME g.quiet PROVE d = Complete(g.self) /\ g.pc = "rooted"
    <3>1. PICK v \in Releases : d = Complete(v)
      BY <2>4 DEF Whole
    <3>2. d["launcher"] = v /\ d["config"] # None /\ d["manifest"] # None
      BY <1>10, <3>1, Directories
    <3> QED BY <3>1, <3>2
  <2> HIDE DEF g, d
  <2> QED BY <2>1, <2>2, <2>3, <2>4 DEF LauncherOK
<1>12. CASE LoadConfig
  <2>1. launcher \in LauncherRuns /\ GuestOnly /\ (Reaches("configured") \/ Reaches("refused"))
    BY <1>0, <1>8, <1>12 DEF LoadConfig
  <2>2. launcher.quiet => Reaches("configured")
    BY <1>9, <1>10, <1>12 DEF LoadConfig
  <2> QED BY <1>6, <1>7, <2>1, <2>2
<1>13. CASE LoadManifest
  <2>1. launcher \in LauncherRuns /\ GuestOnly /\ launcher.pc = "configured"
    BY <1>0, <1>13 DEF LoadManifest
  <2>2. CASE Root["manifest"] \in Releases
    <3>1. launcher' = [launcher EXCEPT !.pc = "manifest", !.manifest = Root["manifest"]]
      BY <1>13, <2>2 DEF LoadManifest
    <3>2. /\ launcher' \in LauncherRuns /\ launcher'.pc = "manifest"
          /\ launcher'.root = launcher.root /\ launcher'.self = launcher.self
          /\ launcher'.quiet = launcher.quiet /\ launcher'.manifest = Root["manifest"]
      BY <2>1, <2>2, <3>1 DEF LauncherRuns
    <3>3. Root["manifest"] \in published
      BY <1>10, <2>2, Published
    <3>4. launcher.quiet => Root["manifest"] = launcher.self
      BY <1>9, <1>10, <2>1
    <3> QED BY <1>6, <2>1, <3>2, <3>3, <3>4
  <2>3. CASE Root["manifest"] \notin Releases
    <3>1. Reaches("refused") /\ ~launcher.quiet
      BY <1>8, <1>9, <1>10, <1>13, <2>1, <2>3 DEF LoadManifest
    <3> QED BY <1>6, <1>7, <2>1, <3>1
  <2> QED BY <2>2, <2>3
<1>14. CASE LoadPayload
  <2>1. launcher \in LauncherRuns /\ GuestOnly /\ launcher.pc = "manifest"
    BY <1>0, <1>14 DEF LoadPayload
  <2>2. /\ launcher.manifest \in published /\ launcher.manifest \in Releases
        /\ launcher.quiet => launcher.manifest = launcher.self
    BY <2>1 DEF LauncherOK, HostOK
  <2>3. CASE Root["payload"] = launcher.manifest
    <3>1. launcher' = [launcher EXCEPT !.pc = "loaded", !.payload = launcher.manifest]
      BY <1>14, <2>3 DEF LoadPayload
    <3>2. /\ launcher' \in LauncherRuns /\ launcher'.pc = "loaded"
          /\ launcher'.root = launcher.root /\ launcher'.self = launcher.self
          /\ launcher'.quiet = launcher.quiet /\ launcher'.manifest = launcher.manifest
          /\ launcher'.payload = launcher.manifest
      BY <2>1, <2>2, <3>1 DEF LauncherRuns
    <3> QED BY <1>6, <2>1, <2>2, <3>2
  <2>4. CASE Root["payload"] # launcher.manifest
    <3>1. Reaches("refused") /\ ~launcher.quiet
      BY <1>8, <1>9, <1>10, <1>14, <2>1, <2>2, <2>4 DEF LoadPayload
    <3> QED BY <1>6, <1>7, <2>1, <3>1
  <2> QED BY <2>3, <2>4
<1>15. CASE Accept
  <2>1. /\ launcher \in LauncherRuns /\ GuestOnly /\ launcher.pc = "loaded"
        /\ Reaches("staged")
        /\ VersionAtLeast(Version[launcher.self], Version[launcher.manifest])
    BY <1>0, <1>15 DEF Accept, VersionsMatch
  <2>2. launcher.manifest \in published /\ launcher.payload = launcher.manifest
    BY <2>1 DEF LauncherOK
  <2>3. Compatible(launcher.self, launcher.manifest)
    BY <2>1, VersionOrder DEF Compatible
  <2> QED BY <1>6, <1>7, <2>1, <2>2, <2>3
<1>16. CASE Mismatch
  <2>1. launcher \in LauncherRuns /\ GuestOnly /\ launcher.pc = "loaded" /\ Reaches("refused")
    BY <1>0, <1>8, <1>16 DEF Mismatch
  <2>2. ~launcher.quiet
    <3>1. launcher.quiet =>
            /\ launcher.manifest = launcher.self /\ launcher.self \in published
            /\ Root["version"] = launcher.self /\ launcher.self \in Releases
      BY <1>9, <1>10, <2>1 DEF LauncherOK
    <3>2. launcher.quiet => VersionsMatch
      BY <3>1, SameVersion DEF HostOK, VersionsMatch
    <3> QED BY <1>16, <3>2 DEF Mismatch
  <2> QED BY <1>6, <1>7, <2>1, <2>2
<1>17. CASE Consent
  <2>1. launcher \in LauncherRuns /\ GuestOnly /\ launcher.pc = "staged" /\ Reaches("running")
    BY <1>0, <1>17 DEF Consent
  <2>2. /\ launcher.manifest \in published /\ launcher.payload = launcher.manifest
        /\ Compatible(launcher.self, launcher.manifest)
    BY <2>1 DEF LauncherOK
  <2> QED BY <1>6, <1>7, <2>1, <2>2
<1>18. CASE Return \/ Interrupt
  BY <1>1, <1>18 DEF Return, Interrupt
<1> QED BY <1>4, <1>5, <1>11, <1>12, <1>13, <1>14, <1>15, <1>16, <1>17, <1>18
        DEF Next, Launcher

-----------------------------------------------------------------------------

\* What each of the three programs relies on holds in every reachable state.
THEOREM UsbInvariance == Spec => []UsbInv
<1>1. Init => UsbInv
  <2> SUFFICES ASSUME Init PROVE UsbInv
    OBVIOUS
  <2>1. HostOK
    BY ReleasesAssumption, Directories DEF Init, HostOK, Packages, NoBuild
  <2>2. StickOK
    <3>1. First \in Releases /\ stage = Empty /\ published = {First} /\ damage = 0
      BY ReleasesAssumption DEF Init
    <3>2. stage \in [Files -> published \cup {None}]
      BY <3>1 DEF Empty
    <3>3. current \in [Files -> published \cup {None, Bad}]
      BY <3>1 DEF Init, Empty, Complete
    <3>4. StickNotMixed
      BY <3>1 DEF Init, StickNotMixed, Empty, Complete
    <3>5. StickKept /\ delivered \subseteq Releases /\ prepare = "idle"
      BY <3>1 DEF Init, StickKept
    <3> QED BY <3>1, <3>2, <3>3, <3>4, <3>5 DEF StickOK
  <2>3. LauncherOK
    BY DEF Init, LauncherOK, NoLauncher
  <2> QED BY <2>1, <2>2, <2>3 DEF UsbInv
<1>2. UsbInv /\ [Next]_vars => UsbInv'
  BY HostStep, StickStep, LauncherStep DEF UsbInv
<1> QED BY <1>1, <1>2, PTL DEF Spec

\* Builds that fail or are interrupted anywhere leave a whole release, and leave
\* it where the next build finds it (build-release.sh, publication).
THEOREM PackageCorrect == Spec => []PackageKept
<1>1. UsbInv => PackageKept
  <2> SUFFICES ASSUME UsbInv PROVE PackageWhole /\ ReleaseKept
    BY DEF PackageKept
  <2> QED BY ReleaseFiles DEF UsbInv, HostOK, PackageWhole, ReleaseKept
<1> QED BY <1>1, UsbInvariance, PTL

\* No package on the stick mixes releases, whatever was published while it was
\* copied (prepare-usb.sh, check).
THEOREM NotMixedCorrect == Spec => []StickNotMixed
<1>1. UsbInv => StickNotMixed
  BY DEF UsbInv, StickOK
<1> QED BY <1>1, UsbInvariance, PTL

\* Interrupted preparations lose no delivered release (archive_from_usb).
THEOREM StickCorrect == Spec => []StickKept
<1>1. UsbInv => StickKept
  BY DEF UsbInv, StickOK
<1> QED BY <1>1, UsbInvariance, PTL

\* What runs is what was checked, and was published (LoadAndVerify, run).
THEOREM LauncherCorrect == Spec => []OneRelease
<1>1. UsbInv => OneRelease
  BY DEF UsbInv, LauncherOK, OneRelease
<1> QED BY <1>1, UsbInvariance, PTL

\* The launcher starts only what the numbers of its version are enough for, by the
\* order of VersionOrder, and refuses no package that was published, is whole and
\* left alone (VersionAtLeast, run).
THEOREM VersionsCorrect == Spec => []VersionsDecide
<1>1. UsbInv => VersionsDecide
  <2> SUFFICES ASSUME UsbInv PROVE CompatibleOnly /\ RefusedForCause
    BY DEF VersionsDecide
  <2> QED BY DEF UsbInv, LauncherOK, Compatible, CompatibleOnly, RefusedForCause
<1> QED BY <1>1, UsbInvariance, PTL
===============================================================================
