--------------------------- MODULE ReleaseChoice ---------------------------
(***************************************************************************)
(* Which published release a running program is offered, and whether it    *)
(* may install it by itself (commands.rs:1494-1590, 1791-1903,             *)
(* update_auth.rs, update_download.rs).  Constant-level operators only.    *)
(*                                                                         *)
(* A version text is a record of the numbers it is made of; meta holds the *)
(* number after "+", if there is one.  Texts that are no version at all    *)
(* end the check with an error and are outside the model, and so is the    *)
(* wording of names: an asset is its kind, the architectures its name      *)
(* mentions and whether a manifest was published beside it.                *)
(***************************************************************************)
EXTENDS Naturals

NoMeta == << >>

\* Mutant: the revision encoded in the patch is dropped.
VersionPartsWithoutRevision(text) ==
  LET major   == IF text.major >= 2000 THEN text.major - 2000 ELSE text.major
      encoded == major < 100 /\ text.patch >= 100
  IN  << major, text.minor,
         IF encoded THEN text.patch \div 100 ELSE text.patch,
         IF text.meta # NoMeta THEN text.meta[1] ELSE 0 >>

\* VersionParts::parse: 2026.9.2801, 26.9.2801 and 26.9.28+1 are the same version.
VersionParts(text) ==
  LET major   == IF text.major >= 2000 THEN text.major - 2000 ELSE text.major
      encoded == major < 100 /\ text.patch >= 100
  IN  << major, text.minor,
         IF encoded THEN text.patch \div 100 ELSE text.patch,
         IF text.meta # NoMeta THEN text.meta[1]
         ELSE IF encoded THEN text.patch % 100 ELSE 0 >>

\* The derived lexicographic order of VersionParts.
Below(a, b) ==
  \E i \in 1..4 : a[i] < b[i] /\ \A j \in 1..(i - 1) : a[j] = b[j]

IsNewer(text, current) == Below(VersionParts(current), VersionParts(text))

\* A release is named by its day, and a later one of that day by a revision.
Dates == [year : 0..99, month : 1..12, day : 1..31, revision : 0..99]

Earlier(d, e) ==
  \/ d.year < e.year
  \/ d.year = e.year /\ d.month < e.month
  \/ d.year = e.year /\ d.month = e.month /\ d.day < e.day
  \/ d.year = e.year /\ d.month = e.month /\ d.day = e.day /\ d.revision < e.revision

\* The texts a release may be published under: a full or a short year, and the
\* revision as the last two digits of the patch, after "+", or left out if 0.
Texts(d) ==
  {[major |-> major, minor |-> d.month, patch |-> form.patch, meta |-> form.meta] :
     major \in {d.year, 2000 + d.year},
     form \in {[patch |-> 100 * d.day + d.revision, meta |-> NoMeta],
               [patch |-> d.day, meta |-> << d.revision >>]}
              \union (IF d.revision = 0 THEN {[patch |-> d.day, meta |-> NoMeta]} ELSE {})}

-----------------------------------------------------------------------------
InstallModes == {"portable", "installed"}

\* is_current_platform_artifact, of a Windows build.
CurrentPlatform(kind, mode) ==
  IF mode = "portable" THEN kind = "windows-portable"
                       ELSE kind \in {"windows-nsis", "windows-msi"}

\* matches_architecture: the name mentions the right one and no other.
MatchesArchitecture(asset, arch) == asset.archs = {arch}

Artifacts(assets, mode, arch) ==
  {a \in assets : CurrentPlatform(a.kind, mode) /\ MatchesArchitecture(a, arch)}

\* installation_policy and artifact_manual_reason: without a key or without a
\* manifest the user is sent to the release page.
Automatic(asset, signed) ==
  /\ signed
  /\ asset.manifest
  /\ asset.kind \in {"windows-portable", "windows-nsis", "windows-msi"}
=============================================================================
