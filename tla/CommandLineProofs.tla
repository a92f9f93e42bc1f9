------------------------- MODULE CommandLineProofs -------------------------
(***************************************************************************)
(* Proofs about the invocations of ti, for scripts of any length, any      *)
(* number of attempts and of changes by another client.  The first part    *)
(* shows of every command of the table what kind of scripts it has, the    *)
(* second what a run of such a script can do.                              *)
(***************************************************************************)
EXTENDS CommandLine, TLAPS, SequenceTheorems

-----------------------------------------------------------------------------
(* The steps the scripts consist of, by what they can do: read or prepare, *)
(* write a local file, change the object, do something that counts.        *)
FileEffects ==
    {"registry", "configuration", "executable", "passwords", "exports", "locator", "noLocator",
     "credentialStore", "credential", "noCredential", "recovery", "audit", "overlay"}

DryStep ==
    [kind : {"check", "profile", "resolve", "poll", "attempts", "known", "companion", "retried",
             "observed", "once"},
     effect : {"none"}]
    \cup [kind : {"api"}, effect : {"none"}, method : {"GET"}]
    \cup [kind : {"write"}, effect : {"overlay"}]
MildStep == DryStep \cup [kind : {"write", "offer", "migrate", "audit"}, effect : FileEffects]
PlainStep ==
    MildStep
    \cup [kind : {"guard"}, effect : FileEffects]
    \cup [kind : {"companion", "retried", "deleted", "ignored", "tolerated"},
          effect : {"set", "create", "delete"}]
    \cup [kind : {"api"}, effect : {"set", "create", "delete"}, method : {"POST", "PUT", "PATCH", "DELETE"}]
ActStep ==
    [kind : {"companion", "deferred", "once"}, effect : {"act"}]
    \cup [kind : {"api"}, effect : {"act"}, method : {"POST"}]
ProbeStep == [kind : {"probe"}, effect : {"none"}]
RepeatedActStep == [kind : {"retried"}, effect : {"act"}]
AnyStep == PlainStep \cup ActStep \cup ProbeStep \cup RepeatedActStep

\* Nothing before a probe changes the object it asks for.
ProbeFirst(s) ==
    \A i \in DOMAIN s : s[i].kind = "probe" => \A k \in 1 .. (i - 1) : s[k] \in MildStep
ActsOnce(s) ==
    \A i, k \in DOMAIN s : s[i].effect = "act" /\ s[k].effect = "act" => i = k

SoundScript == {s \in Seq(AnyStep) : ProbeFirst(s)}
OnceScript ==
    {s \in Seq(PlainStep \cup ActStep \cup ProbeStep) : ProbeFirst(s) /\ ActsOnce(s)}

IsDry(A) == A \subseteq Seq(DryStep)
IsMild(A) == A \subseteq Seq(MildStep)
IsPlain(A) == A \subseteq Seq(PlainStep)
IsOnce(A) == A \subseteq OnceScript
IsSound(A) == A \subseteq SoundScript

\* What is shown of a command, and of a table of commands.
Proper(c) == IsDry(c.dryRun) /\ IsOnce(c.run)
ProperTable(t) ==
    \A c \in DOMAIN t : /\ IsDry(t[c].dryRun) /\ IsSound(t[c].run)
                        /\ c # "create_layer_checkpoint" => IsOnce(t[c].run)

-----------------------------------------------------------------------------
(* The invariant: the script is one of its command, and what has been done *)
(* is what the steps behind it account for.                                *)
Exits == {"starting", "refused", "running", "ok", "error"}

LineTypes ==
    /\ command \in DOMAIN newRootCommand /\ dryRun \in BOOLEAN
    /\ script \in SoundScript
    /\ command # "create_layer_checkpoint" => script \in OnceScript
    /\ dryRun => script \in Seq(DryStep)
    /\ pc \in 1 .. (Len(script) + 1) /\ tries \in Nat
    /\ failed \in BOOLEAN /\ canceled \in BOOLEAN
    /\ exit \in Exits
    /\ object \in {"absent", "theirs", "ours"} /\ object \in seen
    /\ acts \in Nat /\ changes \in Nat

\* The step that counts is behind the one the command is at, or the command is over.
ActedOnce ==
    command # "create_layer_checkpoint" =>
      /\ acts <= 1
      /\ Going /\ acts = 1 => \E i \in 1 .. (pc - 1) : script[i].effect = "act"

AllBroughtAbout == ~failed => \A i \in 1 .. (pc - 1) : BroughtAbout(script[i])

\* The file that was there is still there, and the probe has not let the command by.
Untouched ==
    changes = 0 /\ (\E i \in DOMAIN script : script[i].kind = "probe") /\ "theirs" \in seen =>
      /\ seen = {"theirs"}
      /\ \A i \in 1 .. (pc - 1) : script[i].kind # "probe"

LineInv ==
    /\ LineTypes /\ DryRunOnlyPrepares /\ ActedOnce /\ AllBroughtAbout /\ Untouched

-----------------------------------------------------------------------------
(* Scripts joined one after the other, and the choices of a flag.          *)

\* Each kind of step is among the next.
LEMMA StepKinds ==
    /\ DryStep \subseteq MildStep /\ MildStep \subseteq PlainStep /\ PlainStep \subseteq AnyStep
    /\ \A s \in PlainStep : s.kind # "probe" /\ s.effect # "act"
    /\ \A s \in ActStep : s.kind # "probe" /\ s.effect = "act"
    /\ \A s \in ProbeStep : s.kind = "probe" /\ s.effect = "none"
    /\ \A s \in RepeatedActStep : s.kind = "retried" /\ s.effect = "act"
  BY DEF DryStep, MildStep, PlainStep, AnyStep, ActStep, ProbeStep, RepeatedActStep, FileEffects

\* s is a joined with b.
Joined(s, a, b) ==
    /\ Len(a) \in Nat /\ Len(b) \in Nat /\ DOMAIN a = 1 .. Len(a) /\ DOMAIN b = 1 .. Len(b)
    /\ DOMAIN s = 1 .. (Len(a) + Len(b))
    /\ \A i \in DOMAIN s : s[i] = IF i <= Len(a) THEN a[i] ELSE b[i - Len(a)]

\* What a joined script is made of.
LEMMA JoinedScript ==
  ASSUME NEW S, NEW A, A \subseteq Seq(S), NEW B, B \subseteq Seq(S), NEW s \in A ++ B
  PROVE  \E a \in A, b \in B : Joined(s, a, b) /\ s \in Seq(S) /\ a \in Seq(S) /\ b \in Seq(S)
  <1>1. PICK a \in A, b \in B : s = a \o b  BY DEF ++
  <1>2. a \in Seq(S) /\ b \in Seq(S)  OBVIOUS
  <1>3. /\ s \in Seq(S) /\ Len(s) = Len(a) + Len(b)
        /\ \A i \in 1 .. (Len(a) + Len(b)) : s[i] = IF i <= Len(a) THEN a[i] ELSE b[i - Len(a)]
    BY <1>1, <1>2
  <1>4. Len(a) \in Nat /\ Len(b) \in Nat /\ DOMAIN a = 1 .. Len(a) /\ DOMAIN b = 1 .. Len(b)
        /\ DOMAIN s = 1 .. Len(s)
    BY <1>2, <1>3
  <1>5. Joined(s, a, b)  BY <1>3, <1>4 DEF Joined
  <1> QED  BY <1>2, <1>3, <1>5

\* A script of steps of a kind, whatever the kind, joined with another.
LEMMA JoinSteps ==
  ASSUME NEW S, NEW A, A \subseteq Seq(S), NEW B, B \subseteq Seq(S)
  PROVE  A ++ B \subseteq Seq(S)
  BY JoinedScript

\* Two that only read.
LEMMA JoinDry == \A A, B : IsDry(A) /\ IsDry(B) => IsDry(A ++ B)
  BY JoinSteps DEF IsDry

\* Two that do not touch the object.
LEMMA JoinMild == \A A, B : IsMild(A) /\ IsMild(B) => IsMild(A ++ B)
  BY JoinSteps DEF IsMild

\* Two that do not act.
LEMMA JoinPlain == \A A, B : IsPlain(A) /\ IsPlain(B) => IsPlain(A ++ B)
  BY JoinSteps DEF IsPlain

\* Scripts of more restricted steps are scripts of the others.
LEMMA SeqSteps == \A S, T : S \subseteq T => Seq(S) \subseteq Seq(T)
  OBVIOUS

\* A script that does less is also one that may do more.
LEMMA Weaken ==
  ASSUME NEW A
  PROVE  /\ IsDry(A) => IsMild(A)
         /\ IsMild(A) => IsPlain(A)
         /\ IsPlain(A) => IsOnce(A)
         /\ IsOnce(A) => IsSound(A)
  <1>1. IsDry(A) => IsMild(A)  BY StepKinds, SeqSteps DEF IsDry, IsMild
  <1>2. IsMild(A) => IsPlain(A)  BY StepKinds, SeqSteps DEF IsPlain, IsMild
  <1>3. ASSUME IsPlain(A), NEW s \in A PROVE s \in OnceScript
    <2>1. s \in Seq(PlainStep)  BY <1>3 DEF IsPlain
    <2>2. \A i \in DOMAIN s : s[i] \in PlainStep  BY <2>1
    <2>3. ProbeFirst(s) /\ ActsOnce(s)  BY <2>2, StepKinds DEF ProbeFirst, ActsOnce
    <2>4. PlainStep \subseteq PlainStep \cup ActStep \cup ProbeStep  OBVIOUS
    <2>5. s \in Seq(PlainStep \cup ActStep \cup ProbeStep)  BY <2>1, <2>4, SeqSteps
    <2> QED  BY <2>3, <2>5 DEF OnceScript
  <1>4. ASSUME IsOnce(A), NEW s \in A PROVE s \in SoundScript
    <2>1. s \in Seq(PlainStep \cup ActStep \cup ProbeStep) /\ ProbeFirst(s)
      BY <1>4 DEF IsOnce, OnceScript
    <2>2. PlainStep \cup ActStep \cup ProbeStep \subseteq AnyStep  BY DEF AnyStep
    <2>3. s \in Seq(AnyStep)  BY <2>1, <2>2, SeqSteps
    <2> QED  BY <2>1, <2>3 DEF SoundScript
  <1> QED  BY <1>1, <1>2, <1>3, <1>4 DEF IsOnce, IsSound

\* A probe stays first behind steps that do not touch the object and before steps
\* that do not probe.
LEMMA ProbeStaysFirst ==
  ASSUME NEW s, NEW a, NEW b, Joined(s, a, b),
         \/ (\A i \in DOMAIN a : a[i] \in MildStep) /\ ProbeFirst(b)
         \/ ProbeFirst(a) /\ \A i \in DOMAIN b : b[i].kind # "probe"
  PROVE  ProbeFirst(s)
  <1> SUFFICES ASSUME NEW i \in DOMAIN s, s[i].kind = "probe", NEW k \in 1 .. (i - 1)
               PROVE  s[k] \in MildStep
    BY DEF ProbeFirst
  <1>1. /\ i \in 1 .. (Len(a) + Len(b)) /\ k \in 1 .. (Len(a) + Len(b)) /\ k < i
        /\ Len(a) \in Nat /\ Len(b) \in Nat /\ k \in DOMAIN s
    BY DEF Joined
  <1>2. CASE i <= Len(a)
    <2>1. s[i] = a[i] /\ s[k] = a[k] /\ i \in DOMAIN a /\ k \in DOMAIN a /\ k \in 1 .. (i - 1)
      BY <1>1, <1>2 DEF Joined
    <2> QED  BY <2>1 DEF ProbeFirst
  <1>3. CASE i > Len(a)
    <2>1. s[i] = b[i - Len(a)] /\ i - Len(a) \in DOMAIN b  BY <1>1, <1>3 DEF Joined
    <2>2. (\A m \in DOMAIN a : a[m] \in MildStep) /\ ProbeFirst(b)  BY <2>1
    <2>3. CASE k <= Len(a)
      <3>1. s[k] = a[k] /\ k \in DOMAIN a  BY <1>1, <2>3 DEF Joined
      <3> QED  BY <2>2, <3>1
    <2>4. CASE k > Len(a)
      <3>1. s[k] = b[k - Len(a)] /\ k - Len(a) \in 1 .. (i - Len(a) - 1)
        BY <1>1, <1>3, <2>4 DEF Joined
      <3> QED  BY <2>1, <2>2, <3>1 DEF ProbeFirst
    <2> QED  BY <1>1, <2>3, <2>4
  <1> QED  BY <1>1, <1>2, <1>3

\* One act stays one, beside steps that do not act.
LEMMA ActStaysOne ==
  ASSUME NEW s, NEW a, NEW b, Joined(s, a, b),
         \/ (\A i \in DOMAIN a : a[i].effect # "act") /\ ActsOnce(b)
         \/ ActsOnce(a) /\ \A i \in DOMAIN b : b[i].effect # "act"
  PROVE  ActsOnce(s)
  <1> SUFFICES ASSUME NEW i \in DOMAIN s, NEW k \in DOMAIN s, s[i].effect = "act", s[k].effect = "act"
               PROVE  i = k
    BY DEF ActsOnce
  <1>1. /\ i \in 1 .. (Len(a) + Len(b)) /\ k \in 1 .. (Len(a) + Len(b))
        /\ Len(a) \in Nat /\ Len(b) \in Nat
    BY DEF Joined
  <1>2. \A m \in {i, k} : \/ m <= Len(a) /\ m \in DOMAIN a /\ s[m] = a[m]
                          \/ m > Len(a) /\ m - Len(a) \in DOMAIN b /\ s[m] = b[m - Len(a)]
    BY <1>1 DEF Joined
  <1>3. CASE i <= Len(a) /\ k <= Len(a)
    BY <1>1, <1>2, <1>3 DEF ActsOnce
  <1>4. CASE i > Len(a) /\ k > Len(a)
    <2>1. i - Len(a) = k - Len(a)  BY <1>1, <1>2, <1>4 DEF ActsOnce
    <2> QED  BY <1>1, <2>1
  <1>5. CASE (i <= Len(a) /\ k > Len(a)) \/ (i > Len(a) /\ k <= Len(a))
    BY <1>1, <1>2, <1>5
  <1> QED  BY <1>1, <1>3, <1>4, <1>5

\* Steps that do not touch the object before a script that acts once, and steps that
\* do not act after it.
LEMMA JoinOnce ==
  \A A, B : (IsMild(A) /\ IsOnce(B)) \/ (IsOnce(A) /\ IsPlain(B)) => IsOnce(A ++ B)
  <1> DEFINE S == PlainStep \cup ActStep \cup ProbeStep
  <1> SUFFICES ASSUME NEW A, NEW B, (IsMild(A) /\ IsOnce(B)) \/ (IsOnce(A) /\ IsPlain(B)), NEW s \in A ++ B
               PROVE  s \in OnceScript
    BY DEF IsOnce
  <1>1. IsOnce(A) /\ IsOnce(B)  BY Weaken
  <1>2. A \subseteq Seq(S) /\ B \subseteq Seq(S)  BY <1>1 DEF IsOnce, OnceScript
  <1> HIDE DEF S
  <1>3. PICK a \in A, b \in B : Joined(s, a, b) /\ s \in Seq(S) /\ a \in Seq(S) /\ b \in Seq(S)
    BY <1>2, JoinedScript
  <1>4. ProbeFirst(a) /\ ProbeFirst(b) /\ ActsOnce(a) /\ ActsOnce(b)
    BY <1>1 DEF IsOnce, OnceScript
  <1>5. CASE IsMild(A)
    <2>1. \A i \in DOMAIN a : a[i] \in MildStep  BY <1>5 DEF IsMild
    <2>2. \A i \in DOMAIN a : a[i].effect # "act"  BY <2>1, StepKinds
    <2>3. ProbeFirst(s) /\ ActsOnce(s)  BY <1>3, <1>4, <2>1, <2>2, ProbeStaysFirst, ActStaysOne
    <2> QED  BY <1>3, <2>3 DEF OnceScript, S
  <1>6. CASE IsPlain(B)
    <2>1. \A i \in DOMAIN b : b[i] \in PlainStep  BY <1>6 DEF IsPlain
    <2>2. \A i \in DOMAIN b : b[i].effect # "act" /\ b[i].kind # "probe"  BY <2>1, StepKinds
    <2>3. ProbeFirst(s) /\ ActsOnce(s)  BY <1>3, <1>4, <2>2, ProbeStaysFirst, ActStaysOne
    <2> QED  BY <1>3, <2>3 DEF OnceScript, S
  <1> QED  BY <1>5, <1>6

\* The same of scripts that may act again.
LEMMA JoinSound ==
  \A A, B : (IsMild(A) /\ IsSound(B)) \/ (IsSound(A) /\ IsPlain(B)) => IsSound(A ++ B)
  <1> DEFINE S == AnyStep
  <1> SUFFICES ASSUME NEW A, NEW B, (IsMild(A) /\ IsSound(B)) \/ (IsSound(A) /\ IsPlain(B)), NEW s \in A ++ B
               PROVE  s \in SoundScript
    BY DEF IsSound
  <1>1. IsSound(A) /\ IsSound(B)  BY Weaken
  <1>2. A \subseteq Seq(S) /\ B \subseteq Seq(S)  BY <1>1 DEF IsSound, SoundScript
  <1> HIDE DEF S
  <1>3. PICK a \in A, b \in B : Joined(s, a, b) /\ s \in Seq(S) /\ a \in Seq(S) /\ b \in Seq(S)
    BY <1>2, JoinedScript
  <1>4. ProbeFirst(a) /\ ProbeFirst(b)  BY <1>1 DEF IsSound, SoundScript
  <1>5. CASE IsMild(A)
    <2>1. \A i \in DOMAIN a : a[i] \in MildStep  BY <1>5 DEF IsMild
    <2>2. ProbeFirst(s)  BY <1>3, <1>4, <2>1, ProbeStaysFirst
    <2> QED  BY <1>3, <2>2 DEF SoundScript, S
  <1>6. CASE IsPlain(B)
    <2>1. \A i \in DOMAIN b : b[i] \in PlainStep  BY <1>6 DEF IsPlain
    <2>2. \A i \in DOMAIN b : b[i].kind # "probe"  BY <2>1, StepKinds
    <2>3. ProbeFirst(s)  BY <1>3, <1>4, <2>2, ProbeStaysFirst
    <2> QED  BY <1>3, <2>3 DEF SoundScript, S
  <1> QED  BY <1>5, <1>6

\* One of two choices, and what a flag may leave out.
LEMMA Choices ==
  \A A, B : /\ IsDry(A) /\ IsDry(B) => IsDry(A \cup B)
            /\ IsMild(A) /\ IsMild(B) => IsMild(A \cup B)
            /\ IsPlain(A) /\ IsPlain(B) => IsPlain(A \cup B)
            /\ IsOnce(A) /\ IsOnce(B) => IsOnce(A \cup B)
            /\ IsSound(A) /\ IsSound(B) => IsSound(A \cup B)
  BY DEF IsDry, IsMild, IsPlain, IsOnce, IsSound

\* The empty script only reads, and so a step may be left out.
LEMMA MayBeEmpty ==
    /\ IsDry({<<>>})
    /\ \A A : /\ IsDry(A) => IsDry(Optional(A))
              /\ IsMild(A) => IsMild(Optional(A))
              /\ IsPlain(A) => IsPlain(Optional(A))
              /\ IsOnce(A) => IsOnce(Optional(A))
  <1>1. IsDry({<<>>})  BY DEF IsDry
  <1>2. IsMild({<<>>}) /\ IsPlain({<<>>}) /\ IsOnce({<<>>})  BY <1>1, Weaken
  <1> QED  BY <1>1, <1>2, Choices DEF Optional

-----------------------------------------------------------------------------
(* The words the scripts are written with.                                 *)

\* A script of one step.
LEMMA OneStep == \A S : \A x \in S : {<<x>>} \subseteq Seq(S)
  OBVIOUS

\* The words for reading, and for the root of an overlay.
LEMMA DryWords ==
    /\ IsDry(Check) /\ IsDry(Profile) /\ IsDry(Resolve) /\ IsDry(Get) /\ IsDry(Poll)
    /\ IsDry(Companion("none")) /\ IsDry(Retried("none")) /\ IsDry(Once("none")) /\ IsDry(Attempts)
    /\ IsDry(Step("known", "none")) /\ IsDry(Step("observed", "none")) /\ IsDry(Write("overlay"))
  BY OneStep
     DEF IsDry, DryStep, Check, Profile, Resolve, Get, Poll, Companion, Retried, Once, Attempts,
         Write, Step, Api

\* The words for local files.
LEMMA MildWords ==
    /\ IsMild(Migrate) /\ IsMild(Step("offer", "credential")) /\ IsMild(Step("audit", "audit"))
    /\ \A file \in FileEffects \ {"registry", "audit"} : IsMild(Write(file))
  BY OneStep DEF IsMild, MildStep, FileEffects, Migrate, Write, Step

\* The words for changing the object.
LEMMA PlainWords ==
    /\ IsPlain(Step("guard", "credential")) /\ IsPlain(Step("guard", "locator"))
    /\ IsPlain(Deleted) /\ IsPlain(Step("ignored", "delete")) /\ IsPlain(Step("tolerated", "delete"))
    /\ \A effect \in {"set", "create", "delete"} :
         /\ IsPlain(Companion(effect)) /\ IsPlain(Retried(effect))
         /\ \A method \in {"POST", "PUT", "PATCH", "DELETE"} : IsPlain(Api(method, effect))
  BY OneStep DEF IsPlain, PlainStep, FileEffects, Deleted, Companion, Retried, Api, Step

\* The words for what counts, and for the probe.
LEMMA OnceWords ==
    /\ IsOnce(Companion("act")) /\ IsOnce(Api("POST", "act")) /\ IsOnce(Step("deferred", "act"))
    /\ IsOnce(Once("act"))
    /\ IsOnce(Step("probe", "none"))
    /\ IsSound(Retried("act"))
  <1> DEFINE S == PlainStep \cup ActStep \cup ProbeStep
  <1>1. ASSUME NEW x \in S PROVE IsOnce({<<x>>})
    <2>1. {<<x>>} \subseteq Seq(S)  BY OneStep
    <2>2. ProbeFirst(<<x>>) /\ ActsOnce(<<x>>)  BY DEF ProbeFirst, ActsOnce
    <2> QED  BY <2>1, <2>2 DEF IsOnce, OnceScript
  <1>2. ASSUME NEW x \in RepeatedActStep PROVE IsSound({<<x>>})
    <2>1. {<<x>>} \subseteq Seq(AnyStep)  BY OneStep DEF AnyStep
    <2>2. ProbeFirst(<<x>>)  BY DEF ProbeFirst
    <2> QED  BY <2>1, <2>2 DEF IsSound, SoundScript
  <1>3. /\ [kind |-> "companion", effect |-> "act"] \in ActStep
        /\ [kind |-> "deferred", effect |-> "act"] \in ActStep
        /\ [kind |-> "once", effect |-> "act"] \in ActStep
        /\ [kind |-> "api", effect |-> "act", method |-> "POST"] \in ActStep
        /\ [kind |-> "probe", effect |-> "none"] \in ProbeStep
        /\ [kind |-> "retried", effect |-> "act"] \in RepeatedActStep
    BY DEF ActStep, ProbeStep, RepeatedActStep
  <1> QED  BY <1>1, <1>2, <1>3 DEF Companion, Api, Step, Retried, Once

-----------------------------------------------------------------------------
(* The operations of the file system (FsOperations).                       *)

\* What validates, selects or asks for capabilities reads.
LEMMA FsChecks ==
    /\ IsDry(drive9CopyArgs) /\ IsDry(drive9VaultSetFieldsFromDirectory) /\ IsDry(drive9VaultGrantScopes)
    /\ IsDry(journalAppendStdin) /\ IsDry(parseVaultPath) /\ IsDry(validateVaultSecretName)
    /\ IsDry(normalizeLayerMountOptions) /\ IsDry(mountInputs)
    /\ IsDry(resolvePackFileSystemRequest) /\ IsDry(resolveUnpackFileSystemRequest)
    /\ IsDry(validateAdminTenantListOptions) /\ IsDry(adminTenantClient)
    /\ IsDry(adminCreateInputs) /\ IsDry(adminItemInputs) /\ IsDry(adminDeleteInputs)
    /\ IsDry(validateGenerate) /\ IsDry(validateGenerateScoped) /\ IsDry(validateTokenID)
    /\ IsDry(controlClient) /\ IsDry(resolveBearer) /\ IsDry(resolveManagementAuth)
    /\ IsDry(validateExtractUpdate) /\ IsDry(validateEmbeddingUpdate)
    /\ IsDry(extractInputs) /\ IsDry(embeddingInputs) /\ IsDry(validateResponse)
    /\ IsDry(unpackAuditLocalRoot) /\ IsDry(scanOverlayEntries)
    /\ IsDry(waitUntilFileSystemReady) /\ IsDry(importFileSystemToken) /\ IsDry(vaultMountInputs)
    /\ IsDry(requireDrive9Capabilities)
  BY DryWords, JoinDry, MayBeEmpty
     DEF drive9CopyArgs, drive9VaultSetFieldsFromDirectory, drive9VaultGrantScopes, journalAppendStdin,
         parseVaultPath, validateVaultSecretName, normalizeLayerMountOptions, mountInputs,
         mountOverlayInputs,
         resolvePackFileSystemRequest, resolveUnpackFileSystemRequest, validateAdminTenantListOptions,
         adminTenantClient, adminCreateInputs, validateCreateMetadata, adminItemInputs, adminDeleteInputs,
         validateGenerate, validateGenerateScoped, validateTokenID, controlClient, resolveBearer,
         resolveManagementAuth, validateExtractUpdate, validateEmbeddingUpdate, extractInputs,
         embeddingInputs, validateResponse, unpackAuditLocalRoot, scanOverlayEntries,
         waitUntilFileSystemReady, importFileSystemToken, vaultMountInputs, requireDrive9Capabilities

\* So do the reading commands.
LEMMA FsReads ==
    /\ IsDry(drive9CheckFileSystem) /\ IsDry(drive9ReadFile) /\ IsDry(drive9ListFiles)
    /\ IsDry(drive9DescribeFile) /\ IsDry(drive9SearchFileContent) /\ IsDry(drive9FindFiles)
    /\ IsDry(drive9ListLayers) /\ IsDry(drive9ListLayerChain) /\ IsDry(drive9DescribeLayer)
    /\ IsDry(drive9DiffLayer)
    /\ IsDry(drive9ReadJournalEntries) /\ IsDry(drive9SearchJournal) /\ IsDry(drive9VerifyJournal)
    /\ IsDry(drive9ReadVaultSecret) /\ IsDry(drive9ListVaultSecrets) /\ IsDry(drive9ListVaultAuditEvents)
    /\ IsDry(List) /\ IsDry(DescribeExtract) /\ IsDry(DescribeEmbedding)
  BY DryWords, JoinDry, FsChecks
     DEF drive9CheckFileSystem, drive9ReadFile, drive9ListFiles, drive9DescribeFile,
         drive9SearchFileContent, drive9FindFiles, drive9ListLayers, drive9ListLayerChain,
         drive9DescribeLayer, drive9DiffLayer, drive9ReadJournalEntries, drive9SearchJournal,
         drive9VerifyJournal, drive9ReadVaultSecret, drive9ListVaultSecrets,
         drive9ListVaultAuditEvents, List, DescribeExtract, DescribeEmbedding

\* And every dry run.
LEMMA FsDryRuns ==
    /\ IsDry(DryRunMountFileSystem) /\ IsDry(DryRunUnmountFileSystem) /\ IsDry(DryRunDrainFileSystem)
    /\ IsDry(DryRunMountVault) /\ IsDry(DryRunLayerMutation) /\ IsDry(DryRunPackFileSystem)
    /\ IsDry(DryRunUnpackFileSystem) /\ IsDry(DryRunCreateFileSystem) /\ IsDry(DryRunDeleteFileSystem)
    /\ IsDry(DryRunImportFileSystemToken) /\ IsDry(DryRunGenerate) /\ IsDry(DryRunGenerateScoped)
    /\ IsDry(DryRunMutation) /\ IsDry(DryRunRefresh) /\ IsDry(DryRunUpdateExtract)
    /\ IsDry(DryRunUpdateEmbedding)
  BY DryWords, JoinDry, MayBeEmpty, FsChecks
     DEF DryRunMountFileSystem, DryRunUnmountFileSystem, DryRunDrainFileSystem, DryRunMountVault,
         DryRunLayerMutation, DryRunPackFileSystem, DryRunUnpackFileSystem, DryRunCreateFileSystem,
         DryRunDeleteFileSystem, DryRunImportFileSystemToken, DryRunGenerate, DryRunGenerateScoped,
         DryRunMutation, DryRunRefresh, DryRunUpdateExtract, DryRunUpdateEmbedding

\* An upload without --overwrite reads, probes, and then replaces.
LEMMA FsCopies == IsOnce(drive9CopyFile)
  <1> DEFINE Upload == ensureDrive9UploadTargetAbsent ++ (Companion("set") \cup Retried("set"))
             Replace == Companion("act") \cup Companion("set") \cup Retried("set")
             Download == Optional(Check) ++ (Companion("none") \cup Retried("none"))
  <1>1. IsPlain(Companion("set")) /\ IsPlain(Retried("set"))  BY PlainWords
  <1>2. IsOnce(ensureDrive9UploadTargetAbsent)
    BY DryWords, OnceWords, Weaken, JoinOnce DEF ensureDrive9UploadTargetAbsent
  <1>3. IsOnce(Upload)  BY <1>1, <1>2, Choices, JoinOnce
  <1>4. IsOnce(Replace)  BY <1>1, OnceWords, Weaken, Choices
  <1>5. IsDry(Download)  BY DryWords, MayBeEmpty, Choices, JoinDry
  <1>6. IsOnce(Upload \cup Replace \cup Download)  BY <1>3, <1>4, <1>5, Weaken, Choices
  <1>7. IsMild(drive9CopyArgs)  BY FsChecks, Weaken
  <1>8. drive9CopyFile = drive9CopyArgs ++ (Upload \cup Replace \cup Download)
    BY DEF drive9CopyFile
  <1> HIDE DEF Upload, Replace, Download
  <1> QED  BY <1>6, <1>7, <1>8, JoinOnce

\* The other operations on files, layers, workspaces, journals and the vault: reads,
\* then at most one request that counts.
LEMMA FsMutations ==
    /\ IsOnce(drive9MoveFile) /\ IsOnce(drive9DeleteFile) /\ IsOnce(drive9CreateDirectory)
    /\ IsOnce(drive9ChmodFile) /\ IsOnce(drive9SymlinkFile) /\ IsOnce(drive9HardlinkFile)
    /\ IsOnce(drive9CreateLayer) /\ IsOnce(drive9ForkLayer) /\ IsOnce(drive9DeleteLayer)
    /\ IsOnce(drive9RollbackLayer) /\ IsOnce(drive9CommitLayer)
    /\ IsOnce(drive9GitCloneWorkspace) /\ IsOnce(drive9GitHydrateWorkspace)
    /\ IsOnce(drive9GitAddWorktree) /\ IsOnce(drive9GitRemoveWorktree)
    /\ IsOnce(drive9CreateJournal) /\ IsOnce(drive9AppendJournalEntries)
    /\ IsOnce(drive9CreateVaultSecret) /\ IsOnce(drive9ReplaceVaultSecret)
    /\ IsOnce(drive9DeleteVaultSecret) /\ IsOnce(drive9CreateVaultGrant)
    /\ IsOnce(drive9DeleteVaultGrant) /\ IsOnce(drive9RunWithVaultSecret)
    /\ IsOnce(drive9PackFileSystem) /\ IsOnce(drive9DrainFileSystem)
  BY DryWords, PlainWords, OnceWords, FsChecks, Weaken, JoinDry, JoinOnce, JoinPlain
     DEF drive9MoveFile, drive9DeleteFile, drive9CreateDirectory, drive9ChmodFile, drive9SymlinkFile,
         drive9HardlinkFile, drive9CreateLayer, drive9ForkLayer, drive9DeleteLayer,
         drive9RollbackLayer, drive9CommitLayer, drive9GitCloneWorkspace, drive9GitHydrateWorkspace,
         drive9GitAddWorktree, drive9GitRemoveWorktree, drive9CreateJournal,
         drive9AppendJournalEntries, drive9CreateVaultSecret, drive9ReplaceVaultSecret,
         drive9DeleteVaultSecret, drive9CreateVaultGrant, drive9DeleteVaultGrant,
         drive9RunWithVaultSecret, drive9PackFileSystem, drive9DrainFileSystem

\* A checkpoint without a name is created again when its reply is lost.
LEMMA FsCheckpoint == IsSound(drive9CreateLayerCheckpoint)
  <1>1. IsSound(Retried("create") \cup Retried("act"))  BY PlainWords, OnceWords, Weaken, Choices
  <1>2. IsPlain(Check)  BY DryWords, Weaken
  <1> QED  BY <1>1, <1>2, JoinSound DEF drive9CreateLayerCheckpoint

\* Mounts start and stop a process and keep its locator; unpacking acts once, and is
\* audited whatever came of it.
LEMMA FsMounts ==
    /\ IsOnce(drive9MountFileSystem) /\ IsOnce(drive9MountVault)
    /\ IsOnce(drive9UnmountFileSystem) /\ IsOnce(drive9UnpackFileSystem)
  <1>1. IsOnce(drive9MountFileSystem) /\ IsOnce(drive9MountVault)
    BY DryWords, PlainWords, FsChecks, Weaken, MayBeEmpty, JoinPlain
       DEF drive9MountFileSystem, drive9MountVault, writeDrive9MountLocator
  <1>2. IsMild(Write("noLocator"))  BY MildWords DEF FileEffects
  <1>3. /\ IsPlain(Resolve ++ Companion("delete") ++ Write("noLocator"))
        /\ IsPlain(Step("known", "none") ++ Step("tolerated", "delete") ++ Write("noLocator"))
    BY <1>2, DryWords, PlainWords, Weaken, JoinPlain
  <1>4. drive9UnmountFileSystem =
          (Resolve ++ Companion("delete") ++ Write("noLocator"))
            \cup (Step("known", "none") ++ Step("tolerated", "delete") ++ Write("noLocator"))
    BY DEF drive9UnmountFileSystem
  <1>5. IsOnce(drive9UnmountFileSystem)  BY <1>3, <1>4, Choices, Weaken
  <1>6. IsMild(unpackAuditLocalRoot ++ scanOverlayEntries)  BY FsChecks, JoinDry, Weaken
  <1>7. IsPlain(auditUnpackedOverlaySymlinks)  BY MildWords, Weaken DEF auditUnpackedOverlaySymlinks
  <1>8. IsOnce(drive9UnpackFileSystem)
    BY <1>6, <1>7, OnceWords, JoinOnce DEF drive9UnpackFileSystem
  <1> QED  BY <1>1, <1>5, <1>8

\* File systems are listed, described, created and deleted over the tenant API, and
\* their credentials are kept here.
LEMMA FsTenants ==
    /\ IsOnce(CreateFileSystem) /\ IsOnce(ListFileSystems) /\ IsOnce(DescribeFileSystem)
    /\ IsOnce(DeleteFileSystem) /\ IsOnce(ImportFileSystemToken)
  <1>1. /\ IsMild(Write("credential")) /\ IsMild(Write("noCredential"))
        /\ IsMild(PrepareCredentialStore)
    BY MildWords DEF FileEffects, PrepareCredentialStore
  <1>2. IsMild(adminCreateInputs ++ Migrate ++ PrepareCredentialStore)
    BY <1>1, FsChecks, DryWords, MildWords, Weaken, JoinMild
  <1>3. IsPlain(Check) /\ IsPlain(Step("offer", "credential"))
        /\ IsPlain(Optional(waitUntilFileSystemReady))
    BY FsChecks, DryWords, MildWords, Weaken, MayBeEmpty
  <1>4. IsOnce(CreateFileSystem)
    BY <1>2, <1>3, OnceWords, JoinOnce DEF CreateFileSystem
  <1>5. IsDry(Optional(Check ++ Get))  BY DryWords, JoinDry, MayBeEmpty
  <1>6. IsMild(ListFileSystems)
    BY <1>5, FsChecks, DryWords, MildWords, Weaken, JoinMild DEF ListFileSystems
  <1>7. IsMild(DescribeFileSystem)
    BY FsChecks, DryWords, MildWords, Weaken, JoinMild DEF DescribeFileSystem
  <1>8. IsPlain(DeleteFileSystem)
    BY <1>1, FsChecks, DryWords, PlainWords, Weaken, JoinPlain DEF DeleteFileSystem
  <1>9. IsMild(ImportFileSystemToken)
    BY <1>1, FsChecks, Weaken, JoinMild DEF ImportFileSystemToken
  <1> QED  BY <1>4, <1>6, <1>7, <1>8, <1>9, Weaken

\* A token is generated or rotated by one request that counts; the files come after it.
LEMMA FsTokens ==
    /\ IsOnce(Generate) /\ IsOnce(GenerateScoped) /\ IsOnce(setEnabled) /\ IsOnce(Delete)
    /\ IsOnce(Refresh)
  <1>1. /\ IsMild(Write("credential")) /\ IsMild(Write("noCredential")) /\ IsMild(Write("recovery"))
        /\ IsMild(PrepareCredentialTarget)
    BY MildWords DEF FileEffects, PrepareCredentialTarget, PrepareCredentialStore
  <1>2. /\ IsPlain(Step("guard", "credential")) /\ IsPlain(Optional(Write("noCredential")))
        /\ IsPlain(Write("recovery")) /\ IsPlain(Write("credential"))
    BY <1>1, PlainWords, MayBeEmpty, Weaken
  <1>3. IsMild(validateGenerate) /\ IsMild(controlClient) /\ IsMild(resolveBearer ++ Check)
        /\ IsMild(validateGenerateScoped ++ resolveBearer)
    BY FsChecks, DryWords, JoinDry, Weaken
  <1>4. IsPlain(Check) /\ IsMild(Check) /\ IsMild(PrepareCredentialTarget ++ Check)
        /\ IsMild(Check ++ PrepareCredentialTarget ++ Check)
    BY <1>1, DryWords, Weaken, JoinMild
  <1>5. \A request : IsOnce(request) =>
          /\ IsOnce(PrepareCredentialTarget ++ Check ++ request ++ Step("guard", "credential"))
          /\ IsOnce(Check ++ PrepareCredentialTarget ++ Check ++ request
                      ++ Write("recovery") ++ Write("credential"))
    BY <1>2, <1>4, JoinOnce
  <1>6. IsOnce(Generate)
    <2>1. IsOnce(controlClient ++ Api("POST", "act") ++ Check)
      BY <1>3, <1>4, OnceWords, JoinOnce
    <2>2. IsOnce(generate)  BY <1>5, <2>1, Choices DEF generate
    <2> QED  BY <1>3, <2>2, JoinOnce DEF Generate
  <1>7. IsOnce(Check ++ Api("POST", "act") ++ Check)
    BY <1>4, OnceWords, JoinOnce
  <1>8. IsOnce(GenerateScoped)
    <2>1. IsOnce(generateScoped)  BY <1>5, <1>7, Choices DEF generateScoped
    <2> QED  BY <1>3, <2>1, JoinOnce DEF GenerateScoped
  <1>9. IsOnce(Refresh)
    <2>1. IsOnce(refreshRemote)  BY <1>7 DEF refreshRemote
    <2>2. IsOnce(refreshRemote \cup (Check ++ PrepareCredentialTarget ++ Check ++ refreshRemote
                                        ++ Write("recovery") ++ Write("credential")))
      BY <1>5, <2>1, Choices
    <2> QED  BY <1>3, <2>2, JoinOnce DEF Refresh
  <1>10. IsPlain(setEnabled)
    BY <1>4, FsChecks, PlainWords, Weaken, JoinPlain DEF setEnabled
  <1>11. IsPlain(Delete)
    BY <1>2, <1>4, FsChecks, PlainWords, Weaken, JoinPlain DEF Delete
  <1> QED  BY <1>6, <1>10, <1>11, <1>8, <1>9, Weaken

\* AI provider configuration is read, or replaced as a whole.
LEMMA FsProviders == IsOnce(UpdateExtract) /\ IsOnce(UpdateEmbedding)
  <1>1. IsPlain(UpdateExtract)
    BY FsChecks, PlainWords, Weaken, JoinPlain DEF UpdateExtract
  <1>2. IsPlain(UpdateEmbedding)
    BY FsChecks, PlainWords, Weaken, JoinPlain DEF UpdateEmbedding
  <1> QED  BY <1>1, <1>2, Weaken

-----------------------------------------------------------------------------
(* The operations on databases (DbOperations).                             *)

\* Choosing the product, validation and the waits only read.
LEMMA DbChecks ==
    /\ IsDry(selectedProvider) /\ IsDry(discoveredProvider) /\ IsDry(starterClient)
    /\ IsDry(ensureStarterCluster) /\ IsDry(clusterFromDispatchOrRead)
    /\ IsDry(createRequestAndEndpoint) /\ IsDry(updateRequestAndEndpoint)
    /\ IsDry(deleteRequestAndEndpoint) /\ IsDry(validateBranchIdentity)
    /\ IsDry(createBranchRequestAndEndpoint) /\ IsDry(deleteBranchRequestAndEndpoint)
    /\ IsDry(Optional(waitUntilClusterActive)) /\ IsDry(Optional(waitUntilClusterDeleted))
    /\ IsDry(Optional(waitUntilBranchActive))
    /\ IsDry(sqlConnectionInputs) /\ IsDry(ValidateEndpoint) /\ IsDry(validateTransport)
    /\ IsDry(sqlsingleValidate) /\ IsDry(prepareExportDownload)
  BY DryWords, JoinDry, MayBeEmpty, Choices
     DEF selectedProvider, discoveredProvider, ResolveCluster, starterClient, ensureStarterCluster,
         clusterFromDispatchOrRead, createRequestAndEndpoint, updateRequestAndEndpoint,
         deleteRequestAndEndpoint, validateBranchIdentity, createBranchRequestAndEndpoint,
         deleteBranchRequestAndEndpoint, waitUntilClusterActive, waitUntilClusterDeleted,
         waitUntilBranchActive, accessMode, sqlConnectionInputs, ValidateEndpoint, validateTransport,
         sqlsingleValidate, prepareExportDownload, listAllExportFiles, safeExportRelativePath

\* So do the reading commands and the dry runs.
LEMMA DbReads ==
    /\ IsDry(DispatchDryRunCreateCluster) /\ IsDry(DispatchListClusters)
    /\ IsDry(DispatchDescribeCluster) /\ IsDry(DispatchDryRunUpdateCluster)
    /\ IsDry(DispatchDryRunDeleteCluster) /\ IsDry(DispatchListBranches)
    /\ IsDry(DispatchDryRunCreateBranch) /\ IsDry(DispatchDescribeBranch)
    /\ IsDry(DispatchDryRunDeleteBranch) /\ IsDry(DispatchDryRunPrepareQueryAccess)
    /\ IsDry(DispatchCreateConnectionString) /\ IsDry(DispatchListExportTasks)
    /\ IsDry(DispatchDryRunDownloadExportedData)
  BY DryWords, JoinDry, MayBeEmpty, DbChecks
     DEF DispatchDryRunCreateCluster, DryRunCreateCluster, DispatchListClusters, decodeListCursor,
         ListClusterPage, DispatchDescribeCluster, DescribeCluster, DispatchDryRunUpdateCluster,
         DryRunUpdateCluster, DispatchDryRunDeleteCluster, DryRunDeleteCluster, DispatchListBranches,
         ListBranches, DispatchDryRunCreateBranch, DryRunCreateBranch, DispatchDescribeBranch,
         DescribeBranch, DispatchDryRunDeleteBranch, DryRunDeleteBranch,
         DispatchDryRunPrepareQueryAccess, DryRunPrepareQueryAccess, DispatchCreateConnectionString,
         CreateConnectionString, DispatchListExportTasks, ListExportTasks,
         DispatchDryRunDownloadExportedData, DryRunDownloadExportedData

\* Clusters and branches: one request that counts, replaces or deletes.
LEMMA DbClusters ==
    /\ IsOnce(DispatchCreateCluster) /\ IsOnce(DispatchUpdateCluster) /\ IsOnce(DispatchDeleteCluster)
    /\ IsOnce(DispatchCreateBranch) /\ IsOnce(DispatchDeleteBranch)
  <1>1. IsMild(createRequestAndEndpoint ++ starterClient) /\ IsMild(selectedProvider)
        /\ IsMild(createBranchRequestAndEndpoint ++ starterClient ++ clusterFromDispatchOrRead)
        /\ IsMild(discoveredProvider)
    BY DbChecks, JoinDry, Weaken
  <1>2. IsPlain(ensureStarterCluster) /\ IsPlain(Optional(waitUntilClusterActive))
        /\ IsPlain(Optional(waitUntilBranchActive))
    BY DbChecks, Weaken
  <1>3. IsOnce(CreateCluster)  BY <1>1, <1>2, OnceWords, JoinOnce DEF CreateCluster
  <1>4. IsOnce(CreateBranch)  BY <1>1, <1>2, OnceWords, JoinOnce DEF CreateBranch
  <1>5. IsPlain(UpdateCluster)
    BY DbChecks, PlainWords, Weaken, JoinPlain DEF UpdateCluster
  <1>6. IsPlain(DeleteCluster)
    BY DryWords, DbChecks, PlainWords, Weaken, JoinPlain DEF DeleteCluster
  <1>7. IsPlain(DeleteBranch)
    BY DryWords, DbChecks, PlainWords, Weaken, JoinPlain DEF DeleteBranch
  <1> QED
    BY <1>1, <1>3, <1>4, <1>5, <1>6, <1>7, Weaken, JoinOnce
       DEF DispatchCreateCluster, DispatchUpdateCluster, DispatchDeleteCluster, DispatchCreateBranch,
           DispatchDeleteBranch

\* SQL users are created or rotated by one request, a statement is sent once, exported
\* data is read and written here.
LEMMA DbAccess ==
    /\ IsOnce(DispatchPrepareQueryAccess) /\ IsOnce(DispatchExecuteSQL)
    /\ IsOnce(DispatchDownloadExportedData)
  <1>1. IsMild(discoveredProvider) /\ IsMild(Check) /\ IsMild(Check ++ Get)
        /\ IsMild(Check ++ clusterFromDispatchOrRead) /\ IsMild(ValidateEndpoint)
        /\ IsMild(sqlsingleValidate ++ validateTransport ++ sqlConnectionInputs)
        /\ IsMild(prepareExportDownload ++ Get)
    BY DryWords, DbChecks, JoinDry, Weaken
  <1>2. IsMild(Write("passwords")) /\ IsMild(Write("exports"))  BY MildWords DEF FileEffects
  <1>3. IsOnce(Optional(Api("POST", "act") \cup Api("PATCH", "set")))
    <2>1. IsOnce(Api("PATCH", "set"))  BY PlainWords, Weaken
    <2> QED  BY <2>1, OnceWords, Choices, MayBeEmpty
  <1>4. IsOnce(Prepare)  BY <1>1, <1>2, <1>3, Weaken, JoinOnce DEF Prepare
  <1>5. IsOnce(PrepareQueryAccess)  BY <1>1, <1>4, JoinOnce DEF PrepareQueryAccess
  <1>6. IsOnce(sqlhttpExecute)  BY <1>1, OnceWords, Weaken, JoinOnce DEF sqlhttpExecute
  <1>7. IsOnce(sqlmysqlExecute)  BY OnceWords DEF sqlmysqlExecute
  <1>8. IsOnce(sqlhttpExecute \cup (ValidateEndpoint ++ sqlmysqlExecute))
    BY <1>1, <1>6, <1>7, JoinOnce, Choices
  <1>9. IsOnce(ExecuteSQL)  BY <1>1, <1>8, JoinOnce DEF ExecuteSQL
  <1>10. IsOnce(DownloadExportedData)  BY <1>1, <1>2, JoinMild, Weaken DEF DownloadExportedData
  <1> QED
    BY <1>1, <1>5, <1>9, <1>10, JoinOnce
       DEF DispatchPrepareQueryAccess, DispatchExecuteSQL, DispatchDownloadExportedData

-----------------------------------------------------------------------------
(* The commands (Commands).                                                *)

\* Profiles and credentials: the migration of the name registry is left out of a dry
\* run.
LEMMA Profiles ==
    /\ IsDry(dbServiceAndProfile) /\ IsDry(fsTIServiceAndProfile) /\ IsDry(fsLocalServiceAndProfile)
    /\ IsDry(fsTokenTIServiceAndProfile) /\ IsDry(fsTokenLocalServiceAndProfile)
    /\ IsDry(fsTokenManagementServiceAndProfile) /\ IsDry(fsAIConfigurationServiceAndProfile)
    /\ IsDry(fsServiceAndProfile(TRUE)) /\ IsMild(fsServiceAndProfile(FALSE))
    /\ IsDry(fsVaultServiceAndProfile(TRUE)) /\ IsMild(fsVaultServiceAndProfile(FALSE))
    /\ IsDry(defaultControlPlaneDryRun)
  <1>1. /\ IsDry(dbServiceAndProfile) /\ IsDry(fsTIServiceAndProfile) /\ IsDry(fsLocalServiceAndProfile)
        /\ IsDry(fsTokenTIServiceAndProfile) /\ IsDry(fsTokenLocalServiceAndProfile)
        /\ IsDry(fsTokenManagementServiceAndProfile) /\ IsDry(fsAIConfigurationServiceAndProfile)
    BY DryWords, JoinDry
       DEF dbServiceAndProfile, fsTIServiceAndProfile, fsLocalServiceAndProfile,
           fsTokenTIServiceAndProfile, fsTokenLocalServiceAndProfile,
           fsTokenManagementServiceAndProfile, fsAIConfigurationServiceAndProfile
  <1>2. fsResolveAuthenticatedProfile(TRUE) = {<<>>} ++ Resolve
        /\ fsResolveAuthenticatedProfile(FALSE) = Migrate ++ Resolve
    BY DEF fsResolveAuthenticatedProfile
  <1>3. IsDry(fsServiceAndProfile(TRUE))
    BY <1>1, <1>2, DryWords, MayBeEmpty, JoinDry DEF fsServiceAndProfile
  <1>4. IsMild(fsServiceAndProfile(FALSE))
    BY <1>1, <1>2, DryWords, MildWords, Weaken, JoinMild DEF fsServiceAndProfile
  <1> QED
    BY <1>1, <1>3, <1>4, DryWords, Weaken, JoinDry, JoinMild
       DEF fsVaultServiceAndProfile, defaultControlPlaneDryRun

\* A command that reads, and perhaps writes local files, before its operation.
LEMMA AnyShape ==
  ASSUME NEW before, IsMild(before), NEW operation, IsOnce(operation), NEW dry, IsDry(dry)
  PROVE  Proper(Command(before ++ operation, dry)) /\ Proper(ReadOnly(before ++ operation))
  <1>1. IsOnce(before ++ operation)  BY JoinOnce
  <1>2. IsDry({})  BY DEF IsDry
  <1> QED  BY <1>1, <1>2 DEF Proper, Command, ReadOnly

\* A command put together from its profile, its options and its operation.
LEMMA Shapes ==
  ASSUME NEW options, IsDry(options), NEW operation, IsOnce(operation), NEW dry, IsDry(dry)
  PROVE  /\ Proper(FsReadOnly(options, operation)) /\ Proper(FsMutating(options, operation))
         /\ Proper(FsMutatingDryRun(options, operation, dry))
         /\ Proper(DbReadOnly(options, operation)) /\ Proper(DbMutating(options, operation, dry))
  <1>1. IsMild(fsServiceAndProfile(FALSE) ++ options) /\ IsMild(dbServiceAndProfile ++ options)
    BY Profiles, Weaken, JoinMild
  <1>2. IsDry(fsServiceAndProfile(TRUE) ++ options ++ dry) /\ IsDry(dbServiceAndProfile ++ options ++ dry)
    BY Profiles, JoinDry
  <1>3. Proper(FsReadOnly(options, operation))  BY <1>1, AnyShape DEF FsReadOnly
  <1>4. Proper(FsMutating(options, operation))  BY <1>1, Profiles, AnyShape DEF FsMutating
  <1>5. Proper(FsMutatingDryRun(options, operation, dry))  BY <1>1, <1>2, AnyShape DEF FsMutatingDryRun
  <1>6. Proper(DbReadOnly(options, operation))  BY <1>1, AnyShape DEF DbReadOnly
  <1>7. Proper(DbMutating(options, operation, dry))  BY <1>1, <1>2, AnyShape DEF DbMutating
  <1> QED  BY <1>3, <1>4, <1>5, <1>6, <1>7

\* A command with a profile of its own, with and without a dry run.
LEMMA OwnShape ==
  ASSUME NEW before, IsDry(before), NEW operation, IsOnce(operation), NEW dry, IsDry(dry)
  PROVE  Proper(Command(before ++ operation, before ++ dry)) /\ Proper(ReadOnly(before ++ operation))
  <1>1. IsMild(before) /\ IsDry(before ++ dry)  BY Weaken, JoinDry
  <1> QED  BY <1>1, AnyShape

\* Configuration and update: what they write comes after what they read.
LEMMA OwnCommands == Proper(newConfigureCommand) /\ Proper(newUpdateCommand)
  <1>1. IsMild(Write("configuration")) /\ IsMild(Write("executable"))  BY MildWords DEF FileEffects
  <1>2. IsOnce(Check ++ Write("configuration"))
    BY <1>1, DryWords, Weaken, JoinMild
  <1>3. IsMild(Get ++ Check ++ Write("executable"))
    BY <1>1, DryWords, JoinDry, Weaken, JoinMild
  <1>4. IsOnce(Check ++ Get ++ Optional(Get ++ Check ++ Write("executable")))
    BY <1>3, DryWords, JoinDry, Weaken, MayBeEmpty, JoinMild
  <1>5. IsDry(Check ++ Get) /\ IsDry({})  BY DryWords, JoinDry DEF IsDry
  <1> QED  BY <1>2, <1>4, <1>5 DEF Proper, Command, newConfigureCommand, newUpdateCommand

\* The database commands.
LEMMA DbCommands ==
    /\ Proper(newDBCreateClusterCommand) /\ Proper(newDBListClustersCommand)
    /\ Proper(newDBDescribeClusterCommand) /\ Proper(newDBUpdateClusterCommand)
    /\ Proper(newDBDeleteClusterCommand) /\ Proper(newDBCreateBranchCommand)
    /\ Proper(newDBListBranchesCommand) /\ Proper(newDBDescribeBranchCommand)
    /\ Proper(newDBDeleteBranchCommand) /\ Proper(newDBPrepareQueryAccessCommand)
    /\ Proper(newDBCreateConnectionStringCommand) /\ Proper(newDBExecuteSQLCommand)
    /\ Proper(newDBListExportTasksCommand) /\ Proper(newDBDownloadExportedDataCommand)
  <1>1. IsDry(Check)  BY DryWords
  <1>2. /\ Proper(newDBListClustersCommand) /\ Proper(newDBDescribeClusterCommand)
        /\ Proper(newDBListBranchesCommand) /\ Proper(newDBDescribeBranchCommand)
        /\ Proper(newDBCreateConnectionStringCommand) /\ Proper(newDBListExportTasksCommand)
    BY <1>1, DbReads, Weaken, Shapes
       DEF newDBListClustersCommand, newDBDescribeClusterCommand, newDBListBranchesCommand,
           newDBDescribeBranchCommand, newDBCreateConnectionStringCommand, connectionStringOptions,
           newDBListExportTasksCommand
  <1>3. /\ Proper(newDBCreateClusterCommand) /\ Proper(newDBUpdateClusterCommand)
        /\ Proper(newDBDeleteClusterCommand)
    BY <1>1, DbClusters, DbReads, Shapes
       DEF newDBCreateClusterCommand, createClusterOptions, newDBUpdateClusterCommand,
           updateClusterOptions, newDBDeleteClusterCommand, deleteClusterOptions
  <1>4. Proper(newDBCreateBranchCommand) /\ Proper(newDBDeleteBranchCommand)
    BY <1>1, DbClusters, DbReads, Shapes
       DEF newDBCreateBranchCommand, createBranchOptions, newDBDeleteBranchCommand,
           deleteBranchOptions
  <1>5. /\ Proper(newDBPrepareQueryAccessCommand) /\ Proper(newDBExecuteSQLCommand)
        /\ Proper(newDBDownloadExportedDataCommand)
    BY <1>1, DbAccess, DbReads, Shapes
       DEF newDBPrepareQueryAccessCommand, newDBExecuteSQLCommand, executeSQLOptions,
           newDBDownloadExportedDataCommand, downloadExportedDataOptions
  <1> QED  BY <1>2, <1>3, <1>4, <1>5

\* The commands on tokens.
LEMMA TokenCommands ==
    /\ Proper(newFSGenerateFileSystemTokenCommand) /\ Proper(newFSGenerateFileSystemScopedTokenCommand)
    /\ Proper(newFSListFileSystemTokensCommand) /\ Proper(newFSEnableFileSystemTokenCommand)
    /\ Proper(newFSDisableFileSystemTokenCommand) /\ Proper(newFSDeleteFileSystemTokenCommand)
    /\ Proper(newFSRefreshFileSystemTokenCommand) /\ Proper(newFSImportFileSystemTokenCommand)
  <1>1. /\ IsDry(fsTokenTIServiceAndProfile ++ fsGenerateTokenOptions)
        /\ IsDry(fsTokenLocalServiceAndProfile ++ fsGenerateScopedTokenOptions)
        /\ IsDry(fsTokenManagementServiceAndProfile ++ Check)
        /\ IsDry(fsTokenManagementServiceAndProfile ++ fsTokenMutationOptions)
        /\ IsDry(fsTokenLocalServiceAndProfile ++ fsRefreshTokenOptions)
        /\ IsDry(fsLocalServiceAndProfile ++ fsImportTokenOptions)
    BY DryWords, Profiles, JoinDry
       DEF fsGenerateTokenOptions, fsGenerateScopedTokenOptions, fsTokenMutationOptions,
           fsRefreshTokenOptions, fsImportTokenOptions
  <1>2. Proper(newFSGenerateFileSystemTokenCommand)
    BY <1>1, FsTokens, FsDryRuns, OwnShape DEF newFSGenerateFileSystemTokenCommand
  <1>3. Proper(newFSGenerateFileSystemScopedTokenCommand)
    BY <1>1, FsTokens, FsDryRuns, OwnShape DEF newFSGenerateFileSystemScopedTokenCommand
  <1>4. Proper(newFSListFileSystemTokensCommand)
    BY <1>1, FsReads, DryWords, Weaken, OwnShape DEF newFSListFileSystemTokensCommand
  <1>5. \A operation : IsOnce(operation) => Proper(newFSTokenMutationCommand(operation))
    BY <1>1, FsDryRuns, OwnShape DEF newFSTokenMutationCommand
  <1>6. /\ Proper(newFSEnableFileSystemTokenCommand) /\ Proper(newFSDisableFileSystemTokenCommand)
        /\ Proper(newFSDeleteFileSystemTokenCommand)
    BY <1>5, FsTokens
       DEF newFSEnableFileSystemTokenCommand, newFSDisableFileSystemTokenCommand,
           newFSDeleteFileSystemTokenCommand
  <1>7. Proper(newFSRefreshFileSystemTokenCommand)
    BY <1>1, FsTokens, FsDryRuns, OwnShape DEF newFSRefreshFileSystemTokenCommand
  <1>8. Proper(newFSImportFileSystemTokenCommand)
    BY <1>1, FsTenants, FsDryRuns, OwnShape DEF newFSImportFileSystemTokenCommand
  <1> QED  BY <1>2, <1>3, <1>4, <1>6, <1>7, <1>8

\* The commands on file systems and their AI provider configuration.
LEMMA FileSystemCommands ==
    /\ Proper(newFSCreateFileSystemCommand) /\ Proper(newFSListFileSystemsCommand)
    /\ Proper(newFSDescribeFileSystemCommand) /\ Proper(newFSDeleteFileSystemCommand)
    /\ Proper(newFSDescribeFileSystemExtractConfigurationCommand)
    /\ Proper(newFSUpdateFileSystemExtractConfigurationCommand)
    /\ Proper(newFSDescribeFileSystemEmbeddingConfigurationCommand)
    /\ Proper(newFSUpdateFileSystemEmbeddingConfigurationCommand)
    /\ Proper(newFSCheckFileSystemCommand)
  <1>1. IsDry(Check)  BY DryWords
  <1>2. /\ IsDry(fsTIServiceAndProfile ++ fsListFileSystemFilters)
        /\ IsDry(fsAIConfigurationServiceAndProfile ++ fsDescribeExtractConfigurationOptions)
        /\ IsDry(fsAIConfigurationServiceAndProfile ++ fsUpdateExtractConfigurationOptions)
        /\ IsDry(fsAIConfigurationServiceAndProfile ++ fsDescribeEmbeddingConfigurationOptions)
        /\ IsDry(fsAIConfigurationServiceAndProfile ++ fsUpdateEmbeddingConfigurationOptions)
    BY <1>1, Profiles, JoinDry
       DEF fsListFileSystemFilters, fsDescribeExtractConfigurationOptions,
           fsUpdateExtractConfigurationOptions, fsDescribeEmbeddingConfigurationOptions,
           fsUpdateEmbeddingConfigurationOptions
  <1>3. Proper(newFSCreateFileSystemCommand)
    <2>1. IsMild(fsTIServiceAndProfile ++ Migrate ++ fsCreateFileSystemOptions)
      BY <1>1, Profiles, MildWords, Weaken, JoinMild DEF fsCreateFileSystemOptions
    <2>2. IsDry(fsTIServiceAndProfile ++ fsCreateFileSystemOptions ++ DryRunCreateFileSystem)
      BY <1>1, Profiles, FsDryRuns, JoinDry DEF fsCreateFileSystemOptions
    <2> QED  BY <2>1, <2>2, FsTenants, AnyShape DEF newFSCreateFileSystemCommand
  <1>4. Proper(newFSListFileSystemsCommand)
    BY <1>1, <1>2, FsTenants, OwnShape DEF newFSListFileSystemsCommand
  <1>5. Proper(newFSDescribeFileSystemCommand) /\ Proper(newFSDeleteFileSystemCommand)
    BY <1>1, Profiles, FsTenants, FsDryRuns, OwnShape
       DEF newFSDescribeFileSystemCommand, newFSDeleteFileSystemCommand
  <1>6. /\ Proper(newFSDescribeFileSystemExtractConfigurationCommand)
        /\ Proper(newFSDescribeFileSystemEmbeddingConfigurationCommand)
    BY <1>1, <1>2, FsReads, Weaken, OwnShape
       DEF newFSDescribeFileSystemExtractConfigurationCommand,
           newFSDescribeFileSystemEmbeddingConfigurationCommand
  <1>7. /\ Proper(newFSUpdateFileSystemExtractConfigurationCommand)
        /\ Proper(newFSUpdateFileSystemEmbeddingConfigurationCommand)
    BY <1>2, FsProviders, FsDryRuns, OwnShape
       DEF newFSUpdateFileSystemExtractConfigurationCommand,
           newFSUpdateFileSystemEmbeddingConfigurationCommand
  <1>8. Proper(newFSCheckFileSystemCommand)
    BY <1>1, FsReads, Weaken, Shapes DEF newFSCheckFileSystemCommand
  <1> QED  BY <1>3, <1>4, <1>5, <1>6, <1>7, <1>8

\* The commands on files.
LEMMA FileCommands ==
    /\ Proper(newFSCopyFileCommand) /\ Proper(newFSReadFileCommand) /\ Proper(newFSListFilesCommand)
    /\ Proper(newFSDescribeFileCommand) /\ Proper(newFSMoveFileCommand)
    /\ Proper(newFSDeleteFileCommand) /\ Proper(newFSCreateDirectoryCommand)
    /\ Proper(newFSChmodFileCommand) /\ Proper(newFSSymlinkFileCommand)
    /\ Proper(newFSHardlinkFileCommand) /\ Proper(newFSSearchFileContentCommand)
    /\ Proper(newFSFindFilesCommand)
  <1>1. IsDry(Check)  BY DryWords
  <1>2. IsOnce(drive9CopyFile \cup drive9ReadFile)  BY FsCopies, FsReads, Weaken, Choices
  <1>3. Proper(newFSCopyFileCommand)
    BY <1>1, <1>2, Shapes DEF newFSCopyFileCommand, fsCopyFileOptions
  <1>4. /\ Proper(newFSReadFileCommand) /\ Proper(newFSListFilesCommand)
        /\ Proper(newFSDescribeFileCommand) /\ Proper(newFSSearchFileContentCommand)
        /\ Proper(newFSFindFilesCommand)
    BY <1>1, FsReads, Weaken, Shapes
       DEF newFSReadFileCommand, newFSListFilesCommand, newFSDescribeFileCommand,
           newFSSearchFileContentCommand, newFSFindFilesCommand, fsFindFilesOptions
  <1>5. /\ Proper(newFSMoveFileCommand) /\ Proper(newFSDeleteFileCommand)
        /\ Proper(newFSCreateDirectoryCommand) /\ Proper(newFSChmodFileCommand)
        /\ Proper(newFSSymlinkFileCommand) /\ Proper(newFSHardlinkFileCommand)
    BY <1>1, FsMutations, Shapes
       DEF newFSMoveFileCommand, newFSDeleteFileCommand, newFSCreateDirectoryCommand,
           newFSChmodFileCommand, newFSSymlinkFileCommand, newFSHardlinkFileCommand
  <1> QED  BY <1>3, <1>4, <1>5

\* The commands on layers; a checkpoint is the one that may be created again.
LEMMA LayerCommands ==
    /\ Proper(newFSCreateLayerCommand) /\ Proper(newFSListLayersCommand)
    /\ Proper(newFSForkLayerCommand) /\ Proper(newFSListLayerChainCommand)
    /\ Proper(newFSDescribeLayerCommand) /\ Proper(newFSDiffLayerCommand)
    /\ Proper(newFSDeleteLayerCommand) /\ Proper(newFSRollbackLayerCommand)
    /\ Proper(newFSCommitLayerCommand)
    /\ IsDry(newFSCreateLayerCheckpointCommand.dryRun)
    /\ IsSound(newFSCreateLayerCheckpointCommand.run)
  <1>1. IsDry(Check)  BY DryWords
  <1>2. /\ Proper(newFSListLayersCommand) /\ Proper(newFSListLayerChainCommand)
        /\ Proper(newFSDescribeLayerCommand) /\ Proper(newFSDiffLayerCommand)
    BY <1>1, FsReads, Weaken, Shapes
       DEF newFSListLayersCommand, newFSListLayerChainCommand, newFSDescribeLayerCommand,
           newFSDiffLayerCommand, fsLayerEntriesOptions
  <1>3. /\ Proper(newFSCreateLayerCommand) /\ Proper(newFSForkLayerCommand)
        /\ Proper(newFSDeleteLayerCommand) /\ Proper(newFSRollbackLayerCommand)
        /\ Proper(newFSCommitLayerCommand)
    BY <1>1, FsMutations, FsDryRuns, Shapes
       DEF newFSCreateLayerCommand, fsCreateLayerOptions, newFSForkLayerCommand, fsForkLayerOptions,
           newFSDeleteLayerCommand, fsDeleteLayerOptions, newFSRollbackLayerCommand,
           newFSCommitLayerCommand
  <1>4. IsMild(fsServiceAndProfile(FALSE) ++ fsCreateLayerCheckpointOptions)
    BY <1>1, Profiles, Weaken, JoinMild DEF fsCreateLayerCheckpointOptions
  <1>5. IsSound(fsServiceAndProfile(FALSE) ++ fsCreateLayerCheckpointOptions ++ drive9CreateLayerCheckpoint)
    BY <1>4, FsCheckpoint, JoinSound
  <1>6. IsDry(fsServiceAndProfile(TRUE) ++ fsCreateLayerCheckpointOptions ++ DryRunLayerMutation)
    BY <1>1, Profiles, FsDryRuns, JoinDry DEF fsCreateLayerCheckpointOptions
  <1>7. /\ newFSCreateLayerCheckpointCommand.run =
             fsServiceAndProfile(FALSE) ++ fsCreateLayerCheckpointOptions ++ drive9CreateLayerCheckpoint
        /\ newFSCreateLayerCheckpointCommand.dryRun =
             fsServiceAndProfile(TRUE) ++ fsCreateLayerCheckpointOptions ++ DryRunLayerMutation
    BY DEF newFSCreateLayerCheckpointCommand, FsMutatingDryRun, Command
  <1> QED  BY <1>2, <1>3, <1>5, <1>6, <1>7

\* Packs and mounts.
LEMMA MountCommands ==
    /\ Proper(newFSPackFileSystemCommand) /\ Proper(newFSUnpackFileSystemCommand)
    /\ Proper(newFSMountFileSystemCommand) /\ Proper(newFSUnmountFileSystemCommand)
    /\ Proper(newFSDrainFileSystemCommand)
    /\ Proper(newVaultMountCommand) /\ Proper(newVaultUnmountCommand)
  <1>1. IsDry(Check)  BY DryWords
  <1>2. /\ Proper(newFSPackFileSystemCommand) /\ Proper(newFSUnpackFileSystemCommand)
        /\ Proper(newFSMountFileSystemCommand)
    BY <1>1, FsMutations, FsMounts, FsDryRuns, Shapes
       DEF newFSPackFileSystemCommand, fsPackFileSystemOptions, newFSUnpackFileSystemCommand,
           fsUnpackFileSystemOptions, newFSMountFileSystemCommand, fsMountOptions
  <1>3. IsDry(fsLocalServiceAndProfile ++ fsUnmountOptions)
    BY <1>1, Profiles, JoinDry DEF fsUnmountOptions
  <1>4. Proper(newFSUnmountFileSystemCommand)
    BY <1>3, FsMounts, FsDryRuns, OwnShape DEF newFSUnmountFileSystemCommand
  <1>5. Proper(newFSDrainFileSystemCommand) /\ Proper(newVaultUnmountCommand)
    BY Profiles, FsMutations, FsMounts, FsDryRuns, OwnShape
       DEF newFSDrainFileSystemCommand, newVaultUnmountCommand
  <1>6. Proper(newVaultMountCommand)
    <2>1. IsMild(fsVaultServiceAndProfile(FALSE) ++ vaultMountOptions)
      BY <1>1, Profiles, Weaken, JoinMild DEF vaultMountOptions
    <2>2. IsDry(fsVaultServiceAndProfile(TRUE) ++ vaultMountOptions ++ DryRunMountVault)
      BY <1>1, Profiles, FsDryRuns, JoinDry DEF vaultMountOptions
    <2> QED  BY <2>1, <2>2, FsMounts, AnyShape DEF newVaultMountCommand
  <1> QED  BY <1>2, <1>4, <1>5, <1>6

\* The vault.
LEMMA VaultCommands ==
    /\ Proper(newVaultCreateSecretCommand) /\ Proper(newVaultReplaceSecretCommand)
    /\ Proper(newVaultReadSecretCommand) /\ Proper(newVaultListSecretsCommand)
    /\ Proper(newVaultDeleteSecretCommand) /\ Proper(newVaultCreateGrantCommand)
    /\ Proper(newVaultDeleteGrantCommand) /\ Proper(newVaultListAuditEventsCommand)
    /\ Proper(newVaultRunWithSecretCommand)
  <1>1. IsDry(Check) /\ IsDry({})  BY DryWords DEF IsDry
  <1>2. IsMild(fsVaultServiceAndProfile(FALSE) ++ vaultToken)
    BY <1>1, Profiles, Weaken, JoinMild DEF vaultToken
  <1>3. /\ Proper(newVaultReadSecretCommand) /\ Proper(newVaultListSecretsCommand)
        /\ Proper(newVaultRunWithSecretCommand)
    BY <1>1, <1>2, FsReads, FsMutations, Weaken, AnyShape
       DEF newVaultReadSecretCommand, newVaultListSecretsCommand, newVaultRunWithSecretCommand
  <1>4. /\ Proper(newVaultCreateSecretCommand) /\ Proper(newVaultReplaceSecretCommand)
        /\ Proper(newVaultDeleteSecretCommand) /\ Proper(newVaultCreateGrantCommand)
        /\ Proper(newVaultDeleteGrantCommand)
    BY <1>1, FsMutations, Shapes
       DEF newVaultCreateSecretCommand, newVaultReplaceSecretCommand, newVaultDeleteSecretCommand,
           newVaultCreateGrantCommand, vaultCreateGrantOptions, newVaultDeleteGrantCommand
  <1>5. Proper(newVaultListAuditEventsCommand)
    BY <1>1, FsReads, Weaken, Shapes DEF newVaultListAuditEventsCommand
  <1> QED  BY <1>3, <1>4, <1>5

\* Git workspaces and journals.
LEMMA WorkspaceCommands ==
    /\ Proper(newGitCloneWorkspaceCommand) /\ Proper(newGitHydrateWorkspaceCommand)
    /\ Proper(newGitAddWorktreeCommand) /\ Proper(newGitRemoveWorktreeCommand)
    /\ Proper(newJournalCreateCommand) /\ Proper(newJournalAppendEntriesCommand)
    /\ Proper(newJournalReadEntriesCommand) /\ Proper(newJournalSearchEntriesCommand)
    /\ Proper(newJournalVerifyCommand)
  <1>1. IsDry(Check)  BY DryWords
  <1>2. /\ Proper(newGitCloneWorkspaceCommand) /\ Proper(newGitHydrateWorkspaceCommand)
        /\ Proper(newGitAddWorktreeCommand) /\ Proper(newGitRemoveWorktreeCommand)
        /\ Proper(newJournalCreateCommand) /\ Proper(newJournalAppendEntriesCommand)
    BY <1>1, FsMutations, Shapes
       DEF newGitCloneWorkspaceCommand, gitWorkspaceCloneOptions, newGitHydrateWorkspaceCommand,
           newGitAddWorktreeCommand, gitWorktreeAddOptions, newGitRemoveWorktreeCommand,
           newJournalCreateCommand, newJournalAppendEntriesCommand
  <1>3. /\ Proper(newJournalReadEntriesCommand) /\ Proper(newJournalSearchEntriesCommand)
        /\ Proper(newJournalVerifyCommand)
    BY <1>1, FsReads, Weaken, Shapes
       DEF newJournalReadEntriesCommand, newJournalSearchEntriesCommand, newJournalVerifyCommand
  <1> QED  BY <1>2, <1>3

-----------------------------------------------------------------------------
(* The command table.                                                      *)

\* Proper commands are proper entries, and two tables of them make one.
LEMMA TableParts ==
    /\ \A c : Proper(c) => IsDry(c.dryRun) /\ IsOnce(c.run) /\ IsSound(c.run)
    /\ \A f, g : ProperTable(f) /\ ProperTable(g) => ProperTable(f @@ g)
  <1>1. \A c : Proper(c) => IsDry(c.dryRun) /\ IsOnce(c.run) /\ IsSound(c.run)
    BY Weaken DEF Proper
  <1>2. ASSUME NEW f, NEW g, ProperTable(f), ProperTable(g) PROVE ProperTable(f @@ g)
    <2> SUFFICES ASSUME NEW c \in DOMAIN (f @@ g)
                 PROVE  /\ IsDry((f @@ g)[c].dryRun) /\ IsSound((f @@ g)[c].run)
                        /\ c # "create_layer_checkpoint" => IsOnce((f @@ g)[c].run)
      BY DEF ProperTable
    <2>1. c \in DOMAIN f \cup DOMAIN g /\ (f @@ g)[c] = IF c \in DOMAIN f THEN f[c] ELSE g[c]
      BY DEF @@
    <2>2. CASE c \in DOMAIN f  BY <1>2, <2>1, <2>2 DEF ProperTable
    <2>3. CASE c \notin DOMAIN f  BY <1>2, <2>1, <2>3 DEF ProperTable
    <2> QED  BY <2>2, <2>3
  <1> QED  BY <1>1, <1>2

\* A table whose every command is proper.
LEMMA WholeTable == \A t : (\A c \in DOMAIN t : Proper(t[c])) => ProperTable(t)
  BY TableParts DEF ProperTable

\* Every command of the table: its dry run reads, it probes first, and it acts once.
LEMMA EveryCommand == ProperTable(newRootCommand)
  <1>1. ProperTable([configure |-> newConfigureCommand, update |-> newUpdateCommand])
    BY OwnCommands, WholeTable
  <1>2. ProperTable(newDBCommand)
    BY DbCommands, WholeTable DEF newDBCommand
  <1>3. ProperTable(newFSVaultCommand)
    BY VaultCommands, MountCommands, WholeTable DEF newFSVaultCommand
  <1>4. ProperTable(newFSGitCommand)
    BY WorkspaceCommands, WholeTable DEF newFSGitCommand
  <1>5. ProperTable(newFSJournalCommand)
    BY WorkspaceCommands, WholeTable DEF newFSJournalCommand
  <1>6. ProperTable(newFSCommand)
    <2>1. \A c \in DOMAIN newFSCommand : c # "create_layer_checkpoint" => Proper(newFSCommand[c])
      BY TokenCommands, FileSystemCommands, FileCommands, LayerCommands, MountCommands DEF newFSCommand
    <2>2. newFSCommand.create_layer_checkpoint = newFSCreateLayerCheckpointCommand
      BY DEF newFSCommand
    <2> QED  BY <2>1, <2>2, LayerCommands, TableParts DEF ProperTable
  <1> QED  BY <1>1, <1>2, <1>3, <1>4, <1>5, <1>6, TableParts DEF newRootCommand

-----------------------------------------------------------------------------
(* A step of a command, or of somebody else, in terms of what it may do.   *)

\* The variables stay in their types, and the script what it is.
KeepsTypes ==
    /\ UNCHANGED <<command, dryRun, script>>
    /\ tries' \in Nat /\ failed' \in BOOLEAN /\ canceled' \in BOOLEAN
    /\ exit' \in Exits
    /\ object' \in {"absent", "theirs", "ours"} /\ object' \in seen'
    /\ acts' \in Nat /\ changes' \in Nat

\* What has been done stays done; a dry run only keeps house.
OnlyAdds ==
    /\ seen \subseteq seen' /\ acts <= acts' /\ files \subseteq files'
    /\ dryRun => applied' = applied /\ files' \subseteq files \cup Housekeeping

\* The step s is passed only when it has brought about its effect, or an error is kept.
Passes(s) ==
    /\ pc' = pc \/ (Running /\ pc' = pc + 1)
    /\ failed => failed'
    /\ pc' = pc + 1 /\ ~failed' => BroughtAbout(s)'

\* What counts is done by the step s, which is then passed or the last.
CountsOnce(s) ==
    \/ acts' = acts /\ (Going' => Going)
    \/ command = "create_layer_checkpoint"
    \/ /\ Running /\ s.effect = "act" /\ acts' = acts + 1
       /\ pc' = pc + 1 \/ ~Going'

\* Before its probe a command leaves the file alone, and it does not pass the probe.
StaysBehindProbe(s) ==
    changes' = 0 /\ (\E i \in DOMAIN script : script[i].kind = "probe") /\ "theirs" \in seen' =>
      /\ changes = 0 /\ "theirs" \in seen
      /\ seen = {"theirs"} /\ (\A i \in 1 .. (pc - 1) : script[i].kind # "probe") =>
           seen' = {"theirs"} /\ (pc' = pc + 1 => s.kind # "probe")

\* What is brought about stays so.
LEMMA StaysBroughtAbout ==
  ASSUME acts \in Nat, acts' \in Nat, OnlyAdds, NEW s, BroughtAbout(s)
  PROVE  BroughtAbout(s)'
  <1>1. seen \subseteq seen' /\ acts <= acts' /\ files \subseteq files'  BY DEF OnlyAdds
  <1>2. acts > 0 => acts' > 0  BY <1>1
  <1> QED  BY <1>1, <1>2 DEF BroughtAbout

\* A step that does only this keeps the invariant.
LEMMA Account ==
  ASSUME LineInv, NEW s, s = script[pc], KeepsTypes, OnlyAdds, Passes(s), CountsOnce(s),
         StaysBehindProbe(s)
  PROVE  LineInv'
  <1> USE DEF LineInv
  <1>0. /\ pc \in Nat /\ pc' \in Nat /\ pc >= 1 /\ Len(script) \in Nat /\ script' = script
        /\ command' = command /\ dryRun' = dryRun /\ acts \in Nat /\ acts' \in Nat
        /\ \A i \in 1 .. (pc' - 1) : i \in 1 .. (pc - 1) \/ (i = pc /\ pc' = pc + 1)
        /\ \A i \in 1 .. (pc - 1) : i \in 1 .. (pc' - 1)
        /\ pc' \in 1 .. (Len(script) + 1)
        /\ pc' = pc + 1 => pc \in 1 .. (pc' - 1)
    <2>1. script \in Seq(AnyStep) /\ pc \in 1 .. (Len(script) + 1)  BY DEF LineTypes, SoundScript
    <2>2. Len(script) \in Nat  BY <2>1
    <2>3. pc' = pc \/ (pc <= Len(script) /\ pc' = pc + 1)  BY DEF Passes, Running
    <2> QED  BY <2>1, <2>2, <2>3 DEF KeepsTypes, LineTypes
  <1>1. LineTypes'  BY <1>0 DEF LineTypes, KeepsTypes
  <1>2. DryRunOnlyPrepares'  BY <1>0 DEF DryRunOnlyPrepares, OnlyAdds
  <1>3. ActedOnce'
    <2> SUFFICES ASSUME command # "create_layer_checkpoint"
                 PROVE  /\ acts' <= 1
                        /\ Going' /\ acts' = 1 =>
                             \E i \in 1 .. (pc' - 1) : script[i].effect = "act"
      BY <1>0 DEF ActedOnce
    <2>1. CASE acts' = acts /\ (Going' => Going)
      BY <1>0, <2>1 DEF ActedOnce
    <2>2. CASE /\ Running /\ s.effect = "act" /\ acts' = acts + 1
               /\ pc' = pc + 1 \/ ~Going'
      <3>1. ActsOnce(script) /\ pc \in DOMAIN script
            /\ \A i \in 1 .. (pc - 1) : i \in DOMAIN script /\ i # pc
        <4>1. script \in OnceScript /\ pc <= Len(script)  BY <2>2 DEF LineTypes, Running
        <4>2. ActsOnce(script) /\ DOMAIN script = 1 .. Len(script)  BY <4>1 DEF OnceScript
        <4> QED  BY <1>0, <4>1, <4>2
      <3>2. acts # 1
        <4>1. \A i \in 1 .. (pc - 1) : script[i].effect # "act"  BY <2>2, <3>1 DEF ActsOnce
        <4> QED  BY <4>1, <2>2 DEF ActedOnce, Running, Going
      <3>3. acts <= 1  BY DEF ActedOnce
      <3>4. acts' = 1  BY <1>0, <2>2, <3>2, <3>3
      <3>5. pc' = pc + 1 => \E i \in 1 .. (pc' - 1) : script[i].effect = "act"
        BY <1>0, <2>2
      <3> QED  BY <2>2, <3>4, <3>5
    <2> QED  BY <2>1, <2>2 DEF CountsOnce
  <1>4. AllBroughtAbout'
    <2> SUFFICES ASSUME ~failed', NEW i \in 1 .. (pc' - 1) PROVE BroughtAbout(script[i])'
      BY <1>0 DEF AllBroughtAbout
    <2>1. CASE i \in 1 .. (pc - 1)
      <3>1. BroughtAbout(script[i])  BY <2>1 DEF AllBroughtAbout, Passes
      <3>2. PICK t : t = script[i]  OBVIOUS
      <3>3. BroughtAbout(t)'  BY <1>0, <3>1, <3>2, StaysBroughtAbout
      <3> QED  BY <1>0, <3>2, <3>3 DEF BroughtAbout
    <2>2. CASE i = pc /\ pc' = pc + 1
      <3>1. BroughtAbout(s)'  BY <2>2 DEF Passes
      <3>2. s = script'[i]  BY <1>0, <2>2
      <3> QED  BY <3>1, <3>2 DEF BroughtAbout
    <2> QED  BY <1>0, <2>1, <2>2
  <1>5. Untouched'
    <2> SUFFICES ASSUME changes' = 0, \E i \in DOMAIN script : script[i].kind = "probe",
                        "theirs" \in seen'
                 PROVE  /\ seen' = {"theirs"}
                        /\ \A i \in 1 .. (pc' - 1) : script[i].kind # "probe"
      BY <1>0 DEF Untouched
    <2>1. /\ seen = {"theirs"} /\ \A i \in 1 .. (pc - 1) : script[i].kind # "probe"
      BY DEF Untouched, StaysBehindProbe
    <2>2. seen' = {"theirs"} /\ (pc' = pc + 1 => s.kind # "probe")  BY <2>1 DEF StaysBehindProbe
    <2> QED  BY <1>0, <2>1, <2>2
  <1> QED  BY <1>1, <1>2, <1>3, <1>4, <1>5

\* What is known of the step a command is at.
LEMMA AtStep ==
  ASSUME LineTypes, Running
  PROVE  /\ step \in AnyStep /\ pc \in Nat /\ pc \in DOMAIN script
         /\ dryRun => step \in DryStep
         /\ command # "create_layer_checkpoint" => step \in PlainStep \cup ActStep \cup ProbeStep
         /\ (\E i \in DOMAIN script : script[i].kind = "probe")
              /\ (\A i \in 1 .. (pc - 1) : script[i].kind # "probe")
              => step.kind = "probe" \/ step \in MildStep
  <1>1. script \in Seq(AnyStep) /\ ProbeFirst(script)  BY DEF LineTypes, SoundScript
  <1>2. pc \in DOMAIN script /\ pc \in Nat /\ DOMAIN script = 1 .. Len(script) /\ Len(script) \in Nat
    BY <1>1 DEF LineTypes, Running
  <1>3. step \in AnyStep  BY <1>1, <1>2 DEF step
  <1>4. dryRun => step \in DryStep  BY <1>2 DEF step, LineTypes
  <1>5. command # "create_layer_checkpoint" => step \in PlainStep \cup ActStep \cup ProbeStep
    BY <1>2 DEF step, LineTypes, OnceScript
  <1>6. ASSUME NEW i \in DOMAIN script, script[i].kind = "probe",
               \A k \in 1 .. (pc - 1) : script[k].kind # "probe"
        PROVE  step.kind = "probe" \/ step \in MildStep
    <2>1. i \notin 1 .. (pc - 1)  BY <1>6
    <2>2. i = pc \/ pc \in 1 .. (i - 1)  BY <1>2, <2>1
    <2> QED  BY <1>1, <1>6, <2>2 DEF ProbeFirst, step
  <1> QED  BY <1>2, <1>3, <1>4, <1>5, <1>6

\* What an exchange can do, and what an answer says of it.
LEMMA Exchanged ==
  ASSUME LineTypes, NEW effect \in Effects, NEW result \in {"ok", "missing", "refused", "transient"},
         Exchange(effect, result)
  PROVE  /\ object' \in {"absent", "theirs", "ours"} /\ object' \in seen' /\ seen \subseteq seen'
         /\ acts' \in Nat /\ (acts' = acts \/ (acts' = acts + 1 /\ effect = "act"))
         /\ effect = "none" => object' = object /\ seen' = seen /\ applied' = applied
         /\ "theirs" \in seen' => "theirs" \in seen
         /\ result = "ok" => /\ effect \in {"set", "create"} => "ours" \in seen'
                             /\ effect = "delete" => "absent" \in seen'
                             /\ effect = "act" => acts' > 0
         /\ result = "missing" => effect = "delete" /\ "absent" \in seen'
  <1>1. CASE Apply(effect)
    <2>1. object \in seen /\ acts \in Nat /\ object \in {"absent", "theirs", "ours"}  BY DEF LineTypes
    <2>2. acts' = acts \/ (acts' = acts + 1 /\ effect = "act")  BY <1>1 DEF Apply
    <2>3. effect = "act" => acts' = acts + 1  BY <1>1 DEF Apply
    <2>4. /\ object' = CASE effect \in {"set", "create"} -> "ours"
                         [] effect = "delete" -> "absent"
                         [] OTHER -> object
          /\ seen' = seen \cup {object'}
      BY <1>1 DEF Apply
    <2>5. effect = "none" => applied' = applied  BY <1>1 DEF Apply
    <2>6. result = "missing" => effect = "delete" /\ "absent" \in seen'
      BY <2>1, <2>4 DEF Exchange, Answer, Effects, remoteVars
    <2> QED  BY <2>1, <2>2, <2>3, <2>4, <2>5, <2>6 DEF Effects
  <1>2. CASE UNCHANGED remoteVars
    <2>1. /\ object' = object /\ seen' = seen /\ acts' = acts /\ applied' = applied
          /\ object \in seen /\ acts \in Nat /\ object \in {"absent", "theirs", "ours"}
      BY <1>2 DEF LineTypes, remoteVars
    <2>2. result = "missing" => effect = "delete" /\ "absent" \in seen'
      BY <2>1 DEF Exchange, Answer, Effects
    <2>3. result = "ok" => Apply(effect)  BY DEF Exchange
    <2>4. result = "ok" => /\ effect \in {"set", "create"} => "ours" \in seen'
                           /\ effect = "delete" => "absent" \in seen'
                           /\ effect = "act" => acts' > 0
      <3>1. Apply(effect) => /\ object' = CASE effect \in {"set", "create"} -> "ours"
                                            [] effect = "delete" -> "absent"
                                            [] OTHER -> object
                             /\ seen' = seen \cup {object'}
        BY DEF Apply
      <3>2. Apply(effect) /\ effect = "act" => acts' = acts + 1  BY DEF Apply
      <3> QED  BY <2>1, <2>3, <3>1, <3>2
    <2> QED  BY <2>1, <2>2, <2>4
  <1> QED  BY <1>1, <1>2 DEF Exchange

\* A step in which the server has no part.
LEMMA Calm ==
  ASSUME LineInv, NEW s, s = script[pc], UNCHANGED <<command, dryRun, script, remoteVars, changes>>,
         tries' \in Nat, failed' \in BOOLEAN, canceled' \in BOOLEAN,
         exit' \in Exits, Going' => Going,
         files \subseteq files', dryRun => files' \subseteq files \cup Housekeeping, Passes(s),
         pc' = pc + 1 => s.kind # "probe"
  PROVE  LineInv'
  <1>1. LineTypes  BY DEF LineInv
  <1>2. object' = object /\ seen' = seen /\ acts' = acts /\ applied' = applied /\ changes' = changes
    BY DEF remoteVars
  <1>3. KeepsTypes  BY <1>1, <1>2 DEF KeepsTypes, LineTypes
  <1>4. acts <= acts'  BY <1>1, <1>2 DEF LineTypes
  <1>5. OnlyAdds  BY <1>2, <1>4 DEF OnlyAdds
  <1>6. CountsOnce(s)  BY <1>2 DEF CountsOnce
  <1>7. StaysBehindProbe(s)  BY <1>2 DEF StaysBehindProbe
  <1> QED  BY <1>3, <1>5, <1>6, <1>7, Account

-----------------------------------------------------------------------------
(* The actions.                                                            *)

\* Initially nothing has been done, and the script is one of the command's.
LEMMA Starts == Init => LineInv
  <1> SUFFICES ASSUME Init PROVE LineInv  OBVIOUS
  <1> DEFINE c == newRootCommand[command]
  <1>1. /\ IsDry(c.dryRun) /\ IsSound(c.run)
        /\ command # "create_layer_checkpoint" => IsOnce(c.run)
    BY EveryCommand DEF ProperTable, Init
  <1>2. script \in (IF dryRun THEN c.dryRun ELSE c.run) /\ dryRun \in BOOLEAN  BY DEF Init
  <1> HIDE DEF c
  <1>3. /\ script \in SoundScript /\ (command # "create_layer_checkpoint" => script \in OnceScript)
        /\ (dryRun => script \in Seq(DryStep))
    BY <1>1, <1>2, Weaken DEF IsDry, IsSound, IsOnce
  <1>4. Len(script) \in Nat  BY <1>3 DEF SoundScript
  <1>5. pc = 1 /\ pc \in 1 .. (Len(script) + 1) /\ 1 .. (pc - 1) = {}  BY <1>4 DEF Init
  <1>6. LineTypes  BY <1>3, <1>5 DEF LineTypes, Init, Exits
  <1>7. DryRunOnlyPrepares /\ ActedOnce  BY DEF DryRunOnlyPrepares, ActedOnce, Init
  <1>8. AllBroughtAbout  BY <1>5 DEF AllBroughtAbout
  <1>9. Untouched  BY <1>5 DEF Untouched, Init
  <1> QED  BY <1>6, <1>7, <1>8, <1>9 DEF LineInv

\* What the kind of a step says of its effect.
LEMMA KindsOfSteps ==
  ASSUME NEW s \in AnyStep
  PROVE  /\ s.kind \in {"check", "profile", "resolve", "poll", "attempts", "known", "observed", "probe"} =>
              s.effect = "none"
         /\ s.kind \in {"write", "offer", "guard", "migrate", "audit"} =>
              s.effect \in FileEffects /\ (s \in DryStep => s.effect = "overlay")
         /\ s.kind = "guard" => s \notin DryStep
         /\ s.kind = "guard" => s \notin MildStep
         /\ s.kind \in RemoteKinds => s.effect \in Effects /\ (s \in MildStep => s.effect = "none")
         /\ s.kind \in {"deleted", "ignored"} => s.effect \in {"set", "create", "delete"}
         /\ s \in PlainStep \cup ActStep \cup ProbeStep /\ s.effect = "act" =>
              s.kind \in {"companion", "deferred", "once", "api"} /\ (s.kind = "api" => s.method = "POST")
  BY DEF AnyStep, DryStep, MildStep, PlainStep, ActStep, ProbeStep, RepeatedActStep, FileEffects,
         RemoteKinds, CompanionKinds, Effects

\* What a run of the companion leaves is the home it is given.
LEMMA HomeIsHousekeeping ==
  ASSUME NEW s, prepareHome(s)
  PROVE  files \subseteq files' /\ files' \subseteq files \cup Housekeeping
  BY DEF prepareHome, Housekeeping

\* A step that only reads leaves nothing to bring about.
LEMMA NothingOwed == \A s : s.effect = "none" => BroughtAbout(s)'
  BY DEF BroughtAbout

\* After Ctrl-C, in a wait, in a check and in a look-up nothing is done.
LEMMA QuietSteps ==
  ASSUME LineInv, CallCanceled \/ PollEnds \/ LocalCheck \/ LookUp
  PROVE  LineInv'
  <1>1. PICK s : s = script[pc]  OBVIOUS
  <1>2. LineTypes /\ Running  BY DEF LineInv, CallCanceled, PollEnds, LocalCheck, LookUp
  <1>3. s = step /\ s \in AnyStep /\ pc \in Nat  BY <1>1, <1>2, AtStep DEF step
  <1>4. tries \in Nat /\ failed \in BOOLEAN /\ exit \in Exits /\ canceled \in BOOLEAN
    BY <1>2 DEF LineTypes
  <1>5. /\ UNCHANGED <<command, dryRun, script, remoteVars, changes, canceled>>
        /\ files \subseteq files' /\ files' \subseteq files \cup Housekeeping
        /\ tries' \in Nat /\ exit' \in Exits /\ (Going' => Going)
        /\ failed' \in BOOLEAN /\ (failed => failed')
        /\ \/ pc' = pc
           \/ pc' = pc + 1 /\ failed'
           \/ /\ pc' = pc + 1
              /\ s.kind \in {"tolerated", "observed", "poll", "attempts", "check", "profile", "resolve",
                            "known"}
        /\ s.kind # "probe" \/ pc' = pc
    <2>1. CASE CallCanceled
      <3>1. /\ UNCHANGED <<command, dryRun, script, remoteVars, changes, canceled>>
            /\ files \subseteq files' /\ files' \subseteq files \cup Housekeeping
            /\ \/ s.kind \in {"tolerated", "observed"} /\ Advance /\ UNCHANGED failed
               \/ s.kind = "deferred" /\ failed' = TRUE /\ Advance
               \/ End("error") /\ UNCHANGED failed
        BY <2>1, <1>3, HomeIsHousekeeping DEF CallCanceled, Rejected
      <3>2. CASE s.kind \in {"tolerated", "observed"} /\ Advance /\ UNCHANGED failed
        BY <3>1, <3>2, <1>4 DEF Advance, Going
      <3>3. CASE s.kind = "deferred" /\ failed' = TRUE /\ Advance
        BY <3>1, <3>3, <1>4 DEF Advance, Going
      <3>4. CASE End("error") /\ UNCHANGED failed
        BY <3>1, <3>4, <1>4 DEF End, Exits, Going
      <3> QED  BY <3>1, <3>2, <3>3, <3>4
    <2>2. CASE PollEnds \/ LocalCheck \/ LookUp
      <3>1. /\ UNCHANGED <<command, dryRun, script, remoteVars, changes, canceled, failed>>
            /\ files \subseteq files' /\ files' \subseteq files \cup Housekeeping
            /\ s.kind \in {"poll", "attempts", "check", "profile", "resolve", "known"}
            /\ Advance \/ End("error") \/ End("ok")
        BY <2>2, <1>3, HomeIsHousekeeping DEF PollEnds, WaitKinds, LocalCheck, LookUp
      <3> QED  BY <3>1, <1>4 DEF Advance, End, Exits, Going
    <2> QED  BY <2>1, <2>2
  <1>6. pc' = pc + 1 /\ ~failed' => BroughtAbout(s)'
    <2> SUFFICES ASSUME pc' = pc + 1, ~failed' PROVE BroughtAbout(s)'  OBVIOUS
    <2>1. pc' # pc  BY <1>3
    <2>2. s.kind \in {"tolerated", "observed", "poll", "attempts", "check", "profile", "resolve",
                     "known"}
      BY <1>5, <2>1
    <2>3. s.kind = "tolerated" \/ s.effect = "none"  BY <1>3, <2>2, KindsOfSteps
    <2> QED  BY <2>3 DEF BroughtAbout
  <1>7. Passes(s) /\ (pc' = pc + 1 => s.kind # "probe")
    BY <1>2, <1>3, <1>5, <1>6 DEF Passes
  <1> QED  BY <1>1, <1>4, <1>5, <1>7, Calm

\* A local write does the file it is for.
LEMMA Writes == LineInv /\ LocalWrite => LineInv'
  <1> SUFFICES ASSUME LineInv, LocalWrite PROVE LineInv'  OBVIOUS
  <1>1. PICK s : s = script[pc]  OBVIOUS
  <1>2. LineTypes /\ Running  BY DEF LineInv, LocalWrite
  <1>3. s = step /\ s \in AnyStep /\ (dryRun => s \in DryStep)  BY <1>1, <1>2, AtStep DEF step
  <1>4. tries \in Nat /\ failed \in BOOLEAN /\ exit \in Exits /\ canceled \in BOOLEAN
    BY <1>2 DEF LineTypes
  <1>5. /\ UNCHANGED <<command, dryRun, script, remoteVars, changes, canceled, failed>>
        /\ s.kind \in {"write", "offer", "guard", "migrate", "audit"}
        /\ files' = files \cup {s.effect} \/ (s.kind \in {"migrate", "audit"} /\ files' = files)
        /\ pc' = pc + 1 /\ tries' = 0 /\ exit' = exit
    BY <1>3 DEF LocalWrite, Advance
  <1>6. s.effect \in FileEffects /\ (dryRun => s.effect \in Housekeeping)
    BY <1>3, <1>5, KindsOfSteps DEF Housekeeping
  <1>7. BroughtAbout(s)'  BY <1>5, <1>6 DEF BroughtAbout, FileEffects
  <1>8. Passes(s)  BY <1>2, <1>5, <1>7 DEF Passes
  <1>9. files \subseteq files' /\ (dryRun => files' \subseteq files \cup Housekeeping)
    BY <1>5, <1>6
  <1>10. Going' => Going  BY <1>5 DEF Going
  <1> QED  BY <1>1, <1>4, <1>5, <1>8, <1>9, <1>10, Calm

\* A failed write ends the command; what it was to record may be taken back.
LEMMA WriteFailures == LineInv /\ LocalWriteFails => LineInv'
  <1> SUFFICES ASSUME LineInv, LocalWriteFails PROVE LineInv'  OBVIOUS
  <1>1. PICK s : s = script[pc]  OBVIOUS
  <1>2. LineTypes /\ Running  BY DEF LineInv, LocalWriteFails
  <1>3. s = step /\ s \in AnyStep /\ (dryRun => s \in DryStep) /\ pc \in Nat
    BY <1>1, <1>2, AtStep DEF step
  <1>4. (\E i \in DOMAIN script : script[i].kind = "probe")
          /\ (\A i \in 1 .. (pc - 1) : script[i].kind # "probe")
          => s.kind = "probe" \/ s \in MildStep
    BY <1>1, <1>2, AtStep DEF step
  <1>5. tries \in Nat /\ failed \in BOOLEAN /\ exit \in Exits /\ canceled \in BOOLEAN
    BY <1>2 DEF LineTypes
  <1>6. /\ UNCHANGED <<command, dryRun, script, changes, canceled, failed, pc, tries>>
        /\ files \subseteq files' /\ files' \subseteq files \cup Housekeeping
        /\ exit' \in Exits /\ ~Going'
        /\ s.kind \in {"write", "offer", "guard", "migrate", "audit"}
    <2>1. /\ UNCHANGED <<command, dryRun, script, changes, canceled, failed, pc, tries>>
          /\ exit' \in {"ok", "error"} /\ prepareHome(s)
          /\ s.kind \in {"write", "offer", "guard", "migrate", "audit"}
      BY <1>3 DEF LocalWriteFails, End
    <2> QED  BY <2>1, HomeIsHousekeeping DEF Exits, Going
  <1>7. \/ UNCHANGED remoteVars
         \/ /\ s.kind = "guard"
            /\ \E result \in {"ok", "missing", "refused", "transient"} : Exchange("delete", result)
    BY <1>3 DEF LocalWriteFails
  <1>8. Passes(s)  BY <1>3, <1>6 DEF Passes
  <1>9. CASE UNCHANGED remoteVars
    BY <1>1, <1>3, <1>5, <1>6, <1>8, <1>9, Calm
  <1>10. CASE s.kind = "guard" /\ \E result \in {"ok", "missing", "refused", "transient"} : Exchange("delete", result)
    <2>1. PICK result \in {"ok", "missing", "refused", "transient"} : Exchange("delete", result)
      BY <1>10
    <2>2. "delete" \in Effects  BY DEF Effects
    <2>3. /\ object' \in {"absent", "theirs", "ours"} /\ object' \in seen' /\ seen \subseteq seen'
          /\ acts' = acts
      BY <1>2, <2>1, <2>2, Exchanged
    <2>4. ~dryRun /\ s \notin MildStep /\ s.kind # "probe"  BY <1>3, <1>10, KindsOfSteps
    <2>5. acts \in Nat /\ changes \in Nat  BY <1>2 DEF LineTypes
    <2>6. KeepsTypes  BY <1>5, <1>6, <2>3, <2>5 DEF KeepsTypes
    <2>7. OnlyAdds  BY <1>6, <2>3, <2>4, <2>5 DEF OnlyAdds
    <2>8. CountsOnce(s)  BY <1>6, <2>3 DEF CountsOnce
    <2>9. StaysBehindProbe(s)
      <3> SUFFICES ASSUME changes' = 0, \E i \in DOMAIN script : script[i].kind = "probe",
                          "theirs" \in seen'
                   PROVE  FALSE
        BY DEF StaysBehindProbe
      <3>1. "theirs" \in seen  BY <1>2, <2>1, <2>2, Exchanged
      <3>2. \A i \in 1 .. (pc - 1) : script[i].kind # "probe"  BY <1>6, <3>1 DEF LineInv, Untouched
      <3> QED  BY <1>4, <2>4, <3>2
    <2> QED  BY <1>1, <1>8, <2>6, <2>7, <2>8, <2>9, Account
  <1> QED  BY <1>9, <1>10, <1>7

\* A command is prepared and recorded, its result is rendered, Ctrl-C is pressed, or
\* it is over.
LEMMA Endings == LineInv /\ (Execute \/ Record \/ Return \/ Interrupt \/ Ended) => LineInv'
  <1> SUFFICES ASSUME LineInv, Execute \/ Record \/ Return \/ Interrupt \/ Ended PROVE LineInv'
    OBVIOUS
  <1>1. PICK s : s = script[pc]  OBVIOUS
  <1>2. /\ tries \in Nat /\ failed \in BOOLEAN /\ exit \in Exits
        /\ canceled \in BOOLEAN /\ script \in Seq(AnyStep) /\ pc \in 1 .. (Len(script) + 1)
    BY DEF LineInv, LineTypes, SoundScript
  <1>3. pc \in Nat  BY <1>2
  <1>4. /\ UNCHANGED <<command, dryRun, script, pc, tries, failed, changes, remoteVars>>
        /\ files \subseteq files' /\ files' \subseteq files \cup Housekeeping
        /\ exit' \in Exits /\ (Going' => Going)
        /\ canceled' \in BOOLEAN
    <2>1. CASE Execute  BY <1>2, <2>1 DEF Execute, Housekeeping, Exits, Going
    <2>2. CASE Record  BY <1>2, <2>2 DEF Record, Housekeeping, Going
    <2>3. CASE Return \/ Interrupt \/ Ended
      BY <1>2, <2>3 DEF Return, Interrupt, Ended, vars, remoteVars, Exits, Going
    <2> QED  BY <2>1, <2>2, <2>3
  <1>5. Passes(s)  BY <1>3, <1>4 DEF Passes
  <1> QED  BY <1>1, <1>2, <1>3, <1>4, <1>5, Calm

\* Another client changes the object, and is counted.
LEMMA Others == LineInv /\ OtherClient => LineInv'
  <1> SUFFICES ASSUME LineInv, OtherClient PROVE LineInv'  OBVIOUS
  <1>1. PICK s : s = script[pc]  OBVIOUS
  <1>2. LineTypes  BY DEF LineInv
  <1>3. pc \in Nat /\ acts \in Nat /\ changes \in Nat
    <2>1. script \in Seq(AnyStep) /\ pc \in 1 .. (Len(script) + 1)  BY <1>2 DEF LineTypes, SoundScript
    <2> QED  BY <1>2, <2>1 DEF LineTypes
  <1>4. /\ changes' = changes + 1 /\ object' \in {"absent", "theirs"} /\ seen' = seen \cup {object'}
        /\ UNCHANGED <<command, dryRun, script, pc, tries, failed, exit, canceled, acts, applied, files>>
    BY DEF OtherClient
  <1>5. changes' \in Nat /\ changes' # 0  BY <1>3, <1>4
  <1>6. KeepsTypes  BY <1>2, <1>4, <1>5 DEF KeepsTypes, LineTypes
  <1>7. OnlyAdds /\ Passes(s)  BY <1>3, <1>4 DEF OnlyAdds, Passes
  <1>8. CountsOnce(s)  BY <1>4 DEF CountsOnce, Going
  <1>9. StaysBehindProbe(s)  BY <1>5 DEF StaysBehindProbe
  <1> QED  BY <1>1, <1>6, <1>7, <1>8, <1>9, Account

\* A call that was accepted has brought about what it is for.
LEMMA AcceptedIsDone ==
  ASSUME LineTypes, NEW s \in AnyStep, s.kind \in RemoteKinds \ {"probe"},
         NEW result \in {"ok", "missing", "refused", "transient"}, Exchange(s.effect, result),
         Accepts(s, result)
  PROVE  BroughtAbout(s)'
  <1>1. s.effect \in Effects  BY KindsOfSteps
  <1>2. CASE s.kind \in {"ignored", "tolerated", "observed"}  BY <1>2 DEF BroughtAbout
  <1>3. CASE s.kind \notin {"ignored", "tolerated", "observed"}
    <2>1. result = "ok" \/ (s.kind = "deleted" /\ result = "missing")
      BY <1>3 DEF Accepts, drive9RunTransientRetry, drive9RunIdempotentDelete, RemoteKinds
    <2>2. /\ result = "ok" => /\ s.effect \in {"set", "create"} => "ours" \in seen'
                              /\ s.effect = "delete" => "absent" \in seen'
                              /\ s.effect = "act" => acts' > 0
          /\ result = "missing" => s.effect = "delete" /\ "absent" \in seen'
      BY <1>1, Exchanged
    <2> QED  BY <1>1, <2>1, <2>2 DEF BroughtAbout, Effects
  <1> QED  BY <1>2, <1>3

\* What counts is never sent again: its reply ends the step or the command.
LEMMA ActsAreNotRepeated ==
  ASSUME NEW s \in PlainStep \cup ActStep \cup ProbeStep, s.effect = "act", NEW result
  PROVE  ~Repeats(s, result)
  <1>1. s.kind \in {"companion", "deferred", "once", "api"} /\ (s.kind = "api" => s.method = "POST")
    BY KindsOfSteps DEF AnyStep
  <1> QED  BY <1>1 DEF Repeats, RetriesOnceMore, retryableRequest

\* A call of any kind.
LEMMA Calls == LineInv /\ Call => LineInv'
  <1> SUFFICES ASSUME LineInv, Call PROVE LineInv'  OBVIOUS
  <1>1. PICK s : s = script[pc]  OBVIOUS
  <1>2. LineTypes /\ Running  BY DEF LineInv, Call
  <1>3. s = step /\ s \in AnyStep /\ (dryRun => s \in DryStep) /\ pc \in Nat
        /\ (command # "create_layer_checkpoint" => s \in PlainStep \cup ActStep \cup ProbeStep)
    BY <1>1, <1>2, AtStep DEF step
  <1>4. (\E i \in DOMAIN script : script[i].kind = "probe")
          /\ (\A i \in 1 .. (pc - 1) : script[i].kind # "probe")
          => s.kind = "probe" \/ s \in MildStep
    BY <1>1, <1>2, AtStep DEF step
  <1>5. tries \in Nat /\ failed \in BOOLEAN /\ exit = "running" /\ canceled \in BOOLEAN /\ acts \in Nat
        /\ changes \in Nat /\ object \in {"absent", "theirs", "ours"} /\ object \in seen
    BY <1>2 DEF LineTypes, Running
  <1>6. PICK result \in {"ok", "missing", "refused", "transient"} :
          /\ IF s.kind = "probe" THEN ProbeAnswer(result) ELSE Exchange(s.effect, result)
          /\ \/ Accepts(s, result) /\ Advance /\ UNCHANGED failed
             \/ /\ ~Accepts(s, result) /\ Repeats(s, result)
                /\ tries' = tries + 1 /\ UNCHANGED <<pc, exit, failed>>
             \/ ~Accepts(s, result) /\ ~Repeats(s, result) /\ Rejected(s)
    BY <1>3 DEF Call
  <1>7. /\ UNCHANGED <<command, dryRun, script, canceled, changes>> /\ s.kind \in RemoteKinds
        /\ files \subseteq files' /\ files' \subseteq files \cup Housekeeping
    BY <1>3, HomeIsHousekeeping DEF Call
  <1>8. \/ Accepts(s, result) /\ pc' = pc + 1 /\ tries' = 0 /\ exit' = exit /\ failed' = failed
        \/ Repeats(s, result) /\ pc' = pc /\ tries' = tries + 1 /\ exit' = exit /\ failed' = failed
        \/ s.kind = "deferred" /\ pc' = pc + 1 /\ tries' = 0 /\ exit' = exit /\ failed' = TRUE
        \/ pc' = pc /\ tries' = tries /\ exit' = "error" /\ failed' = failed
    BY <1>6 DEF Rejected, Advance, End
  <1>9. tries' \in Nat /\ failed' \in BOOLEAN /\ exit' \in {"running", "error"}
    <2>1. tries' = tries + 1 \/ tries' = 0 \/ tries' = tries  BY <1>8
    <2>2. exit' = exit \/ exit' = "error"  BY <1>8
    <2>3. failed' = failed \/ failed' = TRUE  BY <1>8
    <2>4. tries' \in Nat  BY <1>5, <2>1
    <2>5. failed' \in BOOLEAN  BY <1>5, <2>3
    <2> QED  BY <1>5, <2>2, <2>4, <2>5
  <1>10. CASE s.kind = "probe"
    <2>1. ProbeAnswer(result)  BY <1>6, <1>10
    <2>2. object' = object /\ seen' = seen /\ acts' = acts /\ applied' = applied
      BY <2>1 DEF ProbeAnswer, remoteVars
    <2>3. KeepsTypes  BY <1>5, <1>7, <1>9, <2>2 DEF KeepsTypes, Exits
    <2>4. OnlyAdds  BY <1>5, <1>7, <2>2 DEF OnlyAdds
    <2>5. BroughtAbout(s)'  BY <1>3, <1>10, KindsOfSteps, NothingOwed
    <2>6. failed => failed'  BY <1>8
    <2>7. Passes(s)  BY <1>2, <1>8, <2>5, <2>6 DEF Passes
    <2>8. CountsOnce(s)  BY <1>5, <2>2 DEF CountsOnce, Going
    <2>9. StaysBehindProbe(s)
      <3> SUFFICES ASSUME seen = {"theirs"} PROVE pc' # pc + 1
        BY <1>7, <2>2 DEF StaysBehindProbe
      <3>1. object = "theirs"  BY <1>5
      <3>2. result # "missing"  BY <2>1, <3>1 DEF ProbeAnswer
      <3>3. ~Accepts(s, result)  BY <1>10, <3>2 DEF Accepts, ProbeAccepts
      <3> QED  BY <1>3, <1>8, <1>10, <3>3
    <2> QED  BY <1>1, <2>3, <2>4, <2>7, <2>8, <2>9, Account
  <1>11. CASE s.kind # "probe"
    <2>1. Exchange(s.effect, result) /\ s.effect \in Effects  BY <1>3, <1>6, <1>7, <1>11, KindsOfSteps
    <2>2. /\ object' \in {"absent", "theirs", "ours"} /\ object' \in seen' /\ seen \subseteq seen'
          /\ acts' \in Nat /\ (acts' = acts \/ (acts' = acts + 1 /\ s.effect = "act"))
          /\ s.effect = "none" => object' = object /\ seen' = seen /\ applied' = applied
          /\ "theirs" \in seen' => "theirs" \in seen
      BY <1>2, <2>1, Exchanged
    <2>3. KeepsTypes  BY <1>5, <1>7, <1>9, <2>2 DEF KeepsTypes, Exits
    <2>4. dryRun => s.effect = "none"
      BY <1>3, <1>7, KindsOfSteps, StepKinds
    <2>5. OnlyAdds  BY <1>5, <1>7, <2>2, <2>4 DEF OnlyAdds
    <2>6. Accepts(s, result) => BroughtAbout(s)'
      BY <1>2, <1>3, <1>7, <1>11, <2>1, AcceptedIsDone
    <2>7. failed => failed'  BY <1>8
    <2>8. pc' = pc + 1 /\ ~failed' => BroughtAbout(s)'  BY <1>3, <1>8, <2>6
    <2>9. Passes(s)  BY <1>2, <1>8, <2>7, <2>8 DEF Passes
    <2>10. CountsOnce(s)
      <3> SUFFICES ASSUME acts' # acts, command # "create_layer_checkpoint"
                   PROVE  pc' = pc + 1 \/ ~Going'
        BY <1>2, <1>5, <2>2 DEF CountsOnce, Going
      <3>1. s.effect = "act"  BY <2>2
      <3>2. ~Repeats(s, result)  BY <1>3, <3>1, ActsAreNotRepeated
      <3> QED  BY <1>8, <3>2 DEF Going
    <2>11. StaysBehindProbe(s)
      <3> SUFFICES ASSUME changes' = 0, \E i \in DOMAIN script : script[i].kind = "probe",
                          "theirs" \in seen'
                   PROVE  changes = 0 /\ "theirs" \in seen /\ seen' = seen
        BY <1>11 DEF StaysBehindProbe
      <3>1. changes = 0 /\ "theirs" \in seen  BY <1>7, <2>2
      <3>2. \A i \in 1 .. (pc - 1) : script[i].kind # "probe"  BY <3>1 DEF LineInv, Untouched
      <3>3. s \in MildStep  BY <1>4, <1>11, <3>2
      <3>4. s.effect = "none"  BY <1>3, <1>7, <3>3, KindsOfSteps
      <3> QED  BY <2>2, <3>1, <3>4
    <2> QED  BY <1>1, <2>3, <2>5, <2>9, <2>10, <2>11, Account
  <1> QED  BY <1>10, <1>11

-----------------------------------------------------------------------------
(* The theorems.                                                           *)

\* The invariant holds of every invocation.
LEMMA Invariance == Spec => []LineInv
  <1>1. Init => LineInv  BY Starts
  <1>2. LineInv /\ [Next]_vars => LineInv'
    <2> SUFFICES ASSUME LineInv, [Next]_vars PROVE LineInv'  OBVIOUS
    <2>1. CASE Call  BY <2>1, Calls
    <2>2. CASE CallCanceled \/ PollEnds \/ LocalCheck \/ LookUp  BY <2>2, QuietSteps
    <2>3. CASE LocalWrite  BY <2>3, Writes
    <2>4. CASE LocalWriteFails  BY <2>4, WriteFailures
    <2>5. CASE Execute \/ Record \/ Return \/ Interrupt \/ Ended  BY <2>5, Endings
    <2>6. CASE OtherClient  BY <2>6, Others
    <2>7. CASE UNCHANGED vars
      BY <2>7 DEF vars, LineInv, LineTypes, DryRunOnlyPrepares, ActedOnce, AllBroughtAbout,
                  BroughtAbout, Untouched, Going
    <2> QED
      BY <2>1, <2>2, <2>3, <2>4, <2>5, <2>6, <2>7 DEF Next, CommandStep
  <1> QED  BY <1>1, <1>2, PTL DEF Spec

\* --dry-run makes no request that mutates and leaves nothing here but housekeeping:
\* none of the operations that a dry run of any command is made of does more
\* (defaultControlPlaneDryRun and the DryRun functions).
THEOREM DryRunsOnlyPrepare == Spec => []DryRunOnlyPrepares
  <1>1. LineInv => DryRunOnlyPrepares  BY DEF LineInv
  <1> QED  BY <1>1, Invariance, PTL

\* A request whose repetition would count is applied at most once: a script holds one
\* of them, and neither drive9RunTransientRetry nor api.Client.do sends it again.
THEOREM ActsAtMostOnce == Spec => []AtMostOnce
  <1>1. LineInv => AtMostOnce  BY DEF LineInv, ActedOnce, AtMostOnce
  <1> QED  BY <1>1, Invariance, PTL

\* Success means that every step that was passed has brought about its effect, also
\* where drive9RunIdempotentDelete takes "not found" for done.
THEOREM SuccessDone == Spec => []SuccessMeansDone
  <1>1. LineInv => SuccessMeansDone
    BY DEF LineInv, AllBroughtAbout, SuccessMeansDone, Owed
  <1> QED  BY <1>1, Invariance, PTL

\* An upload without --overwrite leaves a file that was there: nothing before
\* ensureDrive9UploadTargetAbsent touches it, and the probe does not let the upload by.
THEOREM ExistingKept == Spec => []KeepsExisting
  <1>1. LineInv => KeepsExisting
    BY DEF LineInv, LineTypes, Untouched, KeepsExisting
  <1> QED  BY <1>1, Invariance, PTL
=============================================================================
