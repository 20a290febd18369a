---------------------------- MODULE ArchiveProofs ----------------------------
(* The archive of a scope: what the catalog calls verified is complete, is  *)
(* what the archive holds and is never taken back, and what it calls        *)
(* eligible has a complete copy.                                            *)
EXTENDS Archive, FiniteSetTheorems, TLAPS

Role == {"primary", "secondary"}
Pc == {"idle", "exporting", "counting", "publishing", "sidecar", "verifying",
       "marking_exported", "marking_verified", "recording", "failing", "rechecking",
       "copying", "comparing", "recording_copy"}
-----------------------------------------------------------------------------
(* What a step does to the state, field by field.                          *)

LEMMA ConstantTypes ==
  /\ None \notin Nat /\ None \notin Bytes /\ None \notin Manifest /\ None \notin Layout
  /\ None \notin Token /\ Token \subseteq Nat
  /\ LeaseTime \in Nat /\ MaxClock \in Nat /\ MaxClaims \in Nat
  /\ \A fact \in Fact : DimensionOf(fact) \in Dimension
BY ArchiveAssumption DEF Token

\* What a command holds, field by field.
LEMMA MemoryTypes ==
  ASSUME TypeOK, NEW w \in Worker
  PROVE  /\ worker[w] \in Memory /\ worker[w].pc \in Pc
         /\ worker[w].token \in Token \cup {None} /\ worker[w].layout \in Layout \cup {None}
         /\ worker[w].entries \in [File -> Bytes \cup {None}]
         /\ worker[w].manifest \in Manifest \cup {None}
<1>1. worker[w] \in Memory
  BY DEF TypeOK
<1>. QED
  BY <1>1 DEF Memory, Pc

Others(w) == \A v \in Worker : v # w => worker'[v] = worker[v]

\* A command goes on to pc and keeps what it holds.
GoesTo(w, pc) ==
  /\ Others(w) /\ worker'[w].pc = pc
  /\ worker'[w].token = worker[w].token /\ worker'[w].layout = worker[w].layout
  /\ worker'[w].entries = worker[w].entries /\ worker'[w].manifest = worker[w].manifest

LEMMA StepGoes ==
  ASSUME TypeOK, NEW w \in Worker, NEW pc \in Pc, Step(w, pc)
  PROVE  GoesTo(w, pc) /\ worker' \in [Worker -> Memory]
<1>. DEFINE state == [worker[w] EXCEPT !.pc = pc]
<1>1. worker' = [worker EXCEPT ![w] = state] /\ worker \in [Worker -> Memory]
  BY DEF Step, TypeOK
<1>2. /\ state \in Memory /\ state.pc = pc /\ state.token = worker[w].token
      /\ state.layout = worker[w].layout /\ state.entries = worker[w].entries
      /\ state.manifest = worker[w].manifest
  BY MemoryTypes DEF Memory, Pc
<1>. HIDE DEF state
<1>. QED
  BY <1>1, <1>2 DEF GoesTo, Others

\* A command ends, and forgets.
Ends(w) ==
  /\ Others(w) /\ worker'[w].pc = "idle"
  /\ worker'[w].token = None /\ worker'[w].layout = None
  /\ worker'[w].entries = [f \in File |-> None] /\ worker'[w].manifest = None

LEMMA IdleMemory ==
  /\ Idle \in Memory /\ Idle.pc = "idle" /\ Idle.token = None /\ Idle.layout = None
  /\ Idle.entries = [f \in File |-> None] /\ Idle.manifest = None
BY DEF Idle, Memory

LEMMA ExitEnds ==
  ASSUME TypeOK, NEW w \in Worker, Exit(w)
  PROVE  Ends(w) /\ worker' \in [Worker -> Memory]
<1>1. worker' = [worker EXCEPT ![w] = Idle] /\ worker \in [Worker -> Memory]
  BY DEF Exit, TypeOK
<1>. QED
  BY <1>1, IdleMemory DEF Ends, Others

\* A command begins with a claim of its own.
Begins(w, pc, layout) ==
  /\ Others(w) /\ worker'[w].pc = pc
  /\ worker'[w].token = claims + 1 /\ worker'[w].layout = layout
  /\ worker'[w].entries = [f \in File |-> None] /\ worker'[w].manifest = None

LEMMA ClaimBegins ==
  ASSUME TypeOK, NEW w \in Worker, Claim(w)
  PROVE  /\ worker[w].pc = "idle" /\ closed /\ Claimable
         /\ claims' = claims + 1 /\ claims + 1 \in Token
         /\ scope' \in ScopeRow /\ scope'.state = "exporting" /\ scope'.token = claims + 1
         /\ scope'.expires # None /\ scope'.manifest = scope.manifest
         /\ scope'.verified = scope.verified
         /\ \/ scope.state = "exported" /\ Begins(w, "rechecking", None)
            \/ scope.state # "exported" /\ \E layout \in Layout : Begins(w, "exporting", layout)
         /\ worker' \in [Worker -> Memory]
         /\ overtaken' = (overtaken \/ OutlivedLease(w))
         /\ UNCHANGED <<workVars, copies, store, counted>>
<1>. DEFINE reused == scope.state = "exported"
            row == [scope EXCEPT !.state = "exporting", !.token = claims + 1,
                                 !.expires = clock + LeaseTime]
            first == IF reused THEN "rechecking" ELSE "exporting"
<1>1. /\ worker[w].pc = "idle" /\ closed /\ Claimable /\ claims < MaxClaims
      /\ claims' = claims + 1 /\ scope' = row
      /\ overtaken' = (overtaken \/ OutlivedLease(w))
      /\ UNCHANGED <<workVars, copies, store, counted>>
  BY DEF Claim
<1>2. PICK layout \in Layout :
        worker' = [worker EXCEPT ![w] = [Idle EXCEPT !.pc = first, !.token = claims + 1,
                                                     !.layout = IF reused THEN None ELSE layout]]
  BY DEF Claim
<1>3. claims + 1 \in Token /\ clock + LeaseTime \in (0 .. MaxClock + LeaseTime) \ {None}
  BY <1>1, ConstantTypes DEF TypeOK, Token
<1>4. /\ row \in ScopeRow /\ row.state = "exporting" /\ row.token = claims + 1
      /\ row.expires = clock + LeaseTime /\ row.manifest = scope.manifest
      /\ row.verified = scope.verified
  BY <1>3 DEF TypeOK, ScopeRow
<1>. DEFINE chosen == IF reused THEN None ELSE layout
            state == [Idle EXCEPT !.pc = first, !.token = claims + 1, !.layout = chosen]
<1>5. first \in Pc /\ chosen \in Layout \cup {None}
  BY DEF Pc
<1>6. /\ state \in Memory /\ state.pc = first /\ state.token = claims + 1
      /\ state.layout = chosen /\ state.entries = [f \in File |-> None] /\ state.manifest = None
  <2>. HIDE DEF first, chosen
  <2>. QED
    BY <1>3, <1>5, IdleMemory DEF Memory, Pc
<1>7. worker' = [worker EXCEPT ![w] = state] /\ worker \in [Worker -> Memory]
  BY <1>2 DEF TypeOK
<1>. HIDE DEF row, state
<1>8. Begins(w, first, chosen) /\ worker' \in [Worker -> Memory]
  BY <1>6, <1>7 DEF Begins, Others
<1>. QED
  BY <1>1, <1>3, <1>4, <1>8

\* A file of the source's rows is added to what the command holds.
Exports(w, f) ==
  /\ worker[w].pc = "exporting" /\ worker[w].entries[f] = None
  /\ f = "dimensions" => worker[w].entries["facts"] # None
  /\ Others(w)
  /\ worker'[w].pc = IF f = "dimensions" THEN "counting" ELSE "exporting"
  /\ worker'[w].token = worker[w].token /\ worker'[w].layout = worker[w].layout
  /\ worker'[w].manifest = worker[w].manifest
  /\ \E bytes \in Bytes :
       /\ bytes.rows = Rows(f)
       /\ worker'[w].entries = [worker[w].entries EXCEPT ![f] = bytes]

LEMMA RowTypes ==
  ASSUME TypeOK, NEW f \in File
  PROVE  Rows(f) \subseteq Fact \cup Dimension
BY ConstantTypes DEF TypeOK, Rows, FactRows, DimensionRows

LEMMA ExportExports ==
  ASSUME TypeOK, NEW w \in Worker, NEW f \in File, worker[w].layout # None, ExportFile(w, f)
  PROVE  /\ Exports(w, f) /\ worker' \in [Worker -> Memory]
         /\ UNCHANGED <<workVars, scope, copies, store, historyVars>>
<1>. DEFINE bytes == ExportedBytes(f, worker[w].layout)
            next == IF f = "dimensions" THEN "counting" ELSE worker[w].pc
            entries == [worker[w].entries EXCEPT ![f] = bytes]
            state == [[worker[w] EXCEPT !.entries = entries] EXCEPT !.pc = next]
<1>1. bytes \in Bytes /\ bytes.rows = Rows(f)
  BY MemoryTypes, RowTypes DEF ExportedBytes, Bytes
<1>2. entries \in [File -> Bytes \cup {None}] /\ next \in Pc
  <2>. HIDE DEF bytes
  <2>. QED
    BY <1>1, MemoryTypes DEF Pc
<1>3. worker' = [worker EXCEPT ![w] = state] /\ worker \in [Worker -> Memory]
  BY DEF ExportFile, TypeOK
<1>4. /\ state \in Memory /\ state.pc = next /\ state.token = worker[w].token
      /\ state.layout = worker[w].layout /\ state.entries = entries
      /\ state.manifest = worker[w].manifest
  <2>. HIDE DEF entries, next
  <2>. QED
    BY <1>2, MemoryTypes DEF Memory, Pc
<1>. HIDE DEF state
<1>5. /\ Others(w) /\ worker'[w] = state /\ worker' \in [Worker -> Memory]
  BY <1>3, <1>4 DEF Others
<1>6. worker'[w].entries = [worker[w].entries EXCEPT ![f] = bytes] /\ worker'[w].pc = next
  BY <1>4, <1>5
<1>. HIDE DEF bytes
<1>. QED
  BY <1>1, <1>4, <1>5, <1>6 DEF Exports, ExportFile

\* A command reads the manifest of the primary archive.
Reads(w, pc) ==
  /\ Others(w) /\ worker'[w].pc = pc
  /\ worker'[w].token = IF worker[w].pc = "idle" THEN None ELSE worker[w].token
  /\ worker'[w].manifest = store["primary"].manifest

LEMMA StoreTypes ==
  ASSUME TypeOK, NEW role \in Role
  PROVE  /\ store[role] \in Store
         /\ store[role].files \in [File -> Bytes \cup {None}]
         /\ store[role].manifest \in Manifest \cup {None}
         /\ store[role].sidecar \in Manifest \cup {None}
<1>1. store[role] \in Store
  BY DEF TypeOK, Role
<1>. QED
  BY <1>1 DEF Store

LEMMA BeginsReading ==
  ASSUME TypeOK, NEW w \in Worker, NEW pc \in Pc, worker[w].pc = "idle",
         worker' = [worker EXCEPT ![w] =
           [Idle EXCEPT !.pc = pc, !.manifest = store["primary"].manifest]]
  PROVE  Reads(w, pc) /\ worker' \in [Worker -> Memory]
<1>. DEFINE state == [Idle EXCEPT !.pc = pc, !.manifest = store["primary"].manifest]
<1>1. store["primary"].manifest \in Manifest \cup {None}
  BY StoreTypes DEF Role
<1>2. /\ state \in Memory /\ state.pc = pc /\ state.token = None
      /\ state.manifest = store["primary"].manifest
  BY <1>1, IdleMemory DEF Memory, Pc
<1>3. worker' = [worker EXCEPT ![w] = state] /\ worker \in [Worker -> Memory]
  BY DEF TypeOK
<1>. HIDE DEF state
<1>. QED
  BY <1>2, <1>3 DEF Reads, Others

LEMMA GoesOnReading ==
  ASSUME TypeOK, NEW w \in Worker, NEW pc \in Pc, worker[w].pc # "idle",
         worker' = [worker EXCEPT ![w].pc = pc, ![w].manifest = store["primary"].manifest]
  PROVE  Reads(w, pc) /\ worker' \in [Worker -> Memory]
<1>. DEFINE state == [[worker[w] EXCEPT !.pc = pc] EXCEPT !.manifest = store["primary"].manifest]
<1>1. store["primary"].manifest \in Manifest \cup {None}
  BY StoreTypes DEF Role
<1>2. /\ state \in Memory /\ state.pc = pc /\ state.token = worker[w].token
      /\ state.manifest = store["primary"].manifest
  BY <1>1, MemoryTypes DEF Memory, Pc
<1>3. worker' = [worker EXCEPT ![w] = state] /\ worker \in [Worker -> Memory]
  BY DEF TypeOK
<1>. HIDE DEF state
<1>. QED
  BY <1>2, <1>3 DEF Reads, Others
-----------------------------------------------------------------------------
(* What is written to a place.                                             *)

\* One file, where there was none or the same.
PutsFile(role, f, bytes) ==
  /\ \A other \in Role : other # role => store'[other] = store[other]
  /\ store[role].files[f] \in {None, bytes}
  /\ store'[role].files = [store[role].files EXCEPT ![f] = bytes]
  /\ store'[role].manifest = store[role].manifest /\ store'[role].sidecar = store[role].sidecar
PutsManifest(role, manifest) ==
  /\ \A other \in Role : other # role => store'[other] = store[other]
  /\ store'[role].manifest = manifest
  /\ store'[role].files = store[role].files /\ store'[role].sidecar = store[role].sidecar
PutsSidecar(role, sidecar) ==
  /\ \A other \in Role : other # role => store'[other] = store[other]
  /\ store'[role].sidecar = sidecar
  /\ store'[role].files = store[role].files /\ store'[role].manifest = store[role].manifest

LEMMA FilePut ==
  ASSUME TypeOK, NEW role \in Role, NEW f \in File, NEW bytes \in Bytes \cup {None},
         store[role].files[f] \in {None, bytes},
         store' = [store EXCEPT ![role].files[f] = bytes]
  PROVE  PutsFile(role, f, bytes) /\ store' \in [Role -> Store]
<1>. DEFINE files == [store[role].files EXCEPT ![f] = bytes]
            place == [store[role] EXCEPT !.files = files]
<1>1. files \in [File -> Bytes \cup {None}]
  BY StoreTypes
<1>2. /\ place \in Store /\ place.files = files
      /\ place.manifest = store[role].manifest /\ place.sidecar = store[role].sidecar
  <2>. HIDE DEF files
  <2>. QED
    BY <1>1, StoreTypes DEF Store
<1>3. store' = [store EXCEPT ![role] = place] /\ store \in [Role -> Store]
  BY DEF TypeOK, Role
<1>. HIDE DEF place
<1>. QED
  BY <1>2, <1>3 DEF PutsFile

LEMMA ManifestPut ==
  ASSUME TypeOK, NEW role \in Role, NEW manifest \in Manifest \cup {None},
         store' = [store EXCEPT ![role].manifest = manifest]
  PROVE  PutsManifest(role, manifest) /\ store' \in [Role -> Store]
<1>. DEFINE place == [store[role] EXCEPT !.manifest = manifest]
<1>1. /\ place \in Store /\ place.manifest = manifest
      /\ place.files = store[role].files /\ place.sidecar = store[role].sidecar
  BY StoreTypes DEF Store
<1>2. store' = [store EXCEPT ![role] = place] /\ store \in [Role -> Store]
  BY DEF TypeOK, Role
<1>. HIDE DEF place
<1>. QED
  BY <1>1, <1>2 DEF PutsManifest

LEMMA SidecarPut ==
  ASSUME TypeOK, NEW role \in Role, NEW sidecar \in Manifest \cup {None},
         store' = [store EXCEPT ![role].sidecar = sidecar]
  PROVE  PutsSidecar(role, sidecar) /\ store' \in [Role -> Store]
<1>. DEFINE place == [store[role] EXCEPT !.sidecar = sidecar]
<1>1. /\ place \in Store /\ place.sidecar = sidecar
      /\ place.files = store[role].files /\ place.manifest = store[role].manifest
  BY StoreTypes DEF Store
<1>2. store' = [store EXCEPT ![role] = place] /\ store \in [Role -> Store]
  BY DEF TypeOK, Role
<1>. HIDE DEF place
<1>. QED
  BY <1>1, <1>2 DEF PutsSidecar
-----------------------------------------------------------------------------
(* What is written to the row of the scope.                                *)

Sets(state, manifest, verified) ==
  /\ scope' \in ScopeRow
  /\ scope'.state = state /\ scope'.manifest = manifest /\ scope'.verified = verified

LEMMA ReleasedRow ==
  ASSUME TypeOK
  PROVE  /\ Released(scope) \in ScopeRow
         /\ Released(scope).token = None /\ Released(scope).expires = None
         /\ Released(scope).state = scope.state /\ Released(scope).manifest = scope.manifest
         /\ Released(scope).verified = scope.verified
BY DEF TypeOK, ScopeRow, Released

State == {"absent", "exporting", "exported", "failed"} \cup VerifiedState

LEMMA RowSet ==
  ASSUME TypeOK, NEW state \in State, scope' = [scope EXCEPT !.state = state]
  PROVE  /\ Sets(state, scope.manifest, scope.verified)
         /\ scope'.token = scope.token /\ scope'.expires = scope.expires
BY DEF Sets, ScopeRow, State, TypeOK
-----------------------------------------------------------------------------
(* The inductive invariant: what holds whatever leases expire.             *)

\* A manifest that is in a file, a row or the memory of a command.
Found(m) ==
  /\ m # None
  /\ \/ \E role \in Role : m \in {store[role].manifest, store[role].sidecar}
     \/ \E w \in Worker : m = worker[w].manifest
     \/ m = scope.manifest
     \/ \E c \in copies : m = c.manifest

\* The steps of a claim, and those before it made its manifest.
Claiming == Fencing \cup {"rechecking", "marking_verified", "failing"}
Filling == {"exporting", "counting", "publishing"}

\* Claims have different tokens, and the scope has the last one or none.
TokensApart ==
  /\ \A w \in Worker :
       /\ worker[w].token # None => worker[w].token \in 1 .. claims
       /\ worker[w].pc \in Claiming => worker[w].token # None
  /\ \A v, w \in Worker : v # w /\ worker[w].token # None => worker[v].token # worker[w].token
  /\ scope.state = "exporting" <=> scope.token # None
  /\ scope.token # None => scope.token = claims

\* The facts of an archive are those that were counted, and it has all they refer to.
Counted(entries, facts) ==
  /\ \A f \in File : entries[f] # None
  /\ entries["facts"].rows = facts
  /\ ReferencesResolved(entries)
\* What a command exported were rows of the source; once recounted, all there were.
EntriesOfSource ==
  \A w \in Worker :
    /\ worker[w].pc = "exporting" =>
         worker[w].layout # None /\ worker[w].entries["dimensions"] = None
    /\ worker[w].pc = "counting" => \A f \in File : worker[w].entries[f] # None
    /\ worker[w].pc \in {"exporting", "counting"} =>
         \A f \in File : worker[w].entries[f] # None => worker[w].entries[f].rows \subseteq Rows(f)
    /\ worker[w].pc = "publishing" => Counted(worker[w].entries, counted[worker[w].token])

\* A claim makes one manifest, of what it counted.
ManifestsOfClaims ==
  /\ \A m \in Manifest : Found(m) =>
       /\ m.claim \in 1 .. claims
       /\ Counted(m.entries, counted[m.claim])
       /\ \A w \in Worker : worker[w].pc \in Filling => m.claim # worker[w].token
  /\ \A m, n \in Manifest : Found(m) /\ Found(n) /\ m.claim = n.claim => m = n

\* Copies are of the verified manifest, and an eligible scope has a secondary one.
VerifiedScope ==
  /\ scope.verified <=> scope.state \in VerifiedState
  /\ scope.verified => scope.manifest # None
  /\ \A c \in copies : scope.verified /\ c.manifest = scope.manifest
  /\ scope.state = "retention_eligible" => valid /\ closed /\ HasCopy("secondary")

SourceFinite == IsFiniteSet(source)

Base ==
  /\ TypeOK /\ SourceFinite
  /\ TokensApart /\ EntriesOfSource /\ ManifestsOfClaims /\ VerifiedScope /\ ManifestLast
-----------------------------------------------------------------------------
(* Most steps leave claims and exported rows alone.                        *)

\* Commands keep what they hold, forget it, or read a manifest.
Aside ==
  /\ worker' \in [Worker -> Memory]
  /\ \A v \in Worker :
       \/ worker'[v] = worker[v]
       \/ /\ worker'[v].pc \notin Filling
          /\ worker'[v].token \in {worker[v].token, None}
          /\ worker'[v].pc \in Claiming =>
               worker[v].pc \in Claiming /\ worker'[v].token = worker[v].token
          /\ worker'[v].manifest \in {worker[v].manifest, None, store["primary"].manifest}

LEMMA StepAside ==
  ASSUME TypeOK, NEW w \in Worker, NEW pc \in Pc \ Filling,
         pc \in Claiming => worker[w].pc \in Claiming,
         Step(w, pc)
  PROVE  Aside /\ GoesTo(w, pc)
<1>1. GoesTo(w, pc) /\ worker' \in [Worker -> Memory]
  BY StepGoes
<1>. QED
  BY <1>1 DEF Aside, GoesTo, Others

LEMMA ExitAside ==
  ASSUME TypeOK, NEW w \in Worker, Exit(w)
  PROVE  Aside /\ Ends(w)
<1>1. Ends(w) /\ worker' \in [Worker -> Memory]
  BY ExitEnds
<1>. QED
  BY <1>1 DEF Aside, Ends, Others, Claiming, Filling, Fencing

LEMMA ReadAside ==
  ASSUME TypeOK, NEW w \in Worker, NEW pc \in Pc \ Filling,
         pc \in Claiming => worker[w].pc \in Claiming,
         Reads(w, pc), worker' \in [Worker -> Memory]
  PROVE  Aside
BY DEF Aside, Reads, Others, Claiming, Fencing

LEMMA WorkersAlone ==
  ASSUME TypeOK, UNCHANGED worker
  PROVE  Aside
BY DEF Aside, TypeOK

\* The manifests that are found were there before.
NoneFound == \A m : Found(m)' => Found(m)

LEMMA AsideKeepsClaims ==
  ASSUME Base, Aside, UNCHANGED <<claims, counted>>, source \subseteq source', NoneFound,
         scope'.state = "exporting" <=> scope'.token # None,
         scope'.token \in {scope.token, None}
  PROVE  TokensApart' /\ EntriesOfSource' /\ ManifestsOfClaims'
<1>1. TokensApart'
  BY DEF Base, TokensApart, Aside
<1>2. EntriesOfSource'
  <2>1. \A f \in File : Rows(f) \subseteq Rows(f)'
    BY DEF Rows, FactRows, DimensionRows
  <2>2. \A v \in Worker : worker'[v].pc \in Filling => worker'[v] = worker[v]
    BY DEF Aside
  <2>. QED
    BY <2>1, <2>2 DEF Base, EntriesOfSource, Filling
<1>3. ManifestsOfClaims'
  BY DEF Base, ManifestsOfClaims, NoneFound, Aside
<1>. QED
  BY <1>1, <1>2, <1>3

\* What a step may put where a manifest is.
LEMMA ManifestsMove ==
  ASSUME Base, Aside,
         scope'.manifest = scope.manifest \/ \E w \in Worker : scope'.manifest = worker[w].manifest,
         \A c \in copies' : c \in copies \/ \E w \in Worker : c.manifest = worker[w].manifest,
         \A role \in Role :
           /\ store'[role].manifest \in {store[role].manifest, store["primary"].manifest}
           /\ store'[role].sidecar \in {store[role].sidecar, store["primary"].sidecar,
                                        store["primary"].manifest}
  PROVE  NoneFound
<1>. SUFFICES ASSUME NEW m, Found(m)' PROVE Found(m)
  BY DEF NoneFound
<1>1. "primary" \in Role
  BY DEF Role
<1>2. CASE \E role \in Role : m \in {store'[role].manifest, store'[role].sidecar}
  BY <1>1, <1>2 DEF Found
<1>3. CASE \E w \in Worker : m = worker'[w].manifest
  BY <1>1, <1>3 DEF Found, Aside
<1>4. CASE m = scope'.manifest
  BY <1>4 DEF Found
<1>5. CASE \E c \in copies' : m = c.manifest
  BY <1>5 DEF Found
<1>. QED
  BY <1>2, <1>3, <1>4, <1>5 DEF Found
-----------------------------------------------------------------------------
(* Steps that write neither a file nor the row of the scope.               *)

UntouchedArchive == UNCHANGED <<scope, copies, store>>

LEMMA AsideKeepsBase ==
  ASSUME Base, Aside, UntouchedArchive, UNCHANGED <<workVars, historyVars>>
  PROVE  Base'
<1>1. NoneFound
  BY ManifestsMove DEF UntouchedArchive, Role
<1>2. TokensApart' /\ EntriesOfSource' /\ ManifestsOfClaims'
  BY <1>1, AsideKeepsClaims DEF UntouchedArchive, workVars, historyVars, Base, TokensApart
<1>3. TypeOK' /\ SourceFinite'
  BY DEF Base, TypeOK, SourceFinite, Aside, UntouchedArchive, workVars, historyVars
<1>4. VerifiedScope' /\ ManifestLast'
  BY DEF Base, VerifiedScope, HasCopy, ManifestLast, UntouchedArchive, workVars
<1>. QED
  BY <1>2, <1>3, <1>4 DEF Base

LEMMA OuterKeepsBase ==
  ASSUME Base, Tick \/ CloseEpoch \/ CommitFact \/ UNCHANGED vars
  PROVE  Base'
<1>1. UNCHANGED <<scope, copies, store, worker, claims, counted, overtaken>>
  BY DEF Tick, CloseEpoch, CommitFact, vars, historyVars
<1>2. Aside
  BY <1>1, WorkersAlone DEF Base
<1>3. NoneFound
  BY <1>1, <1>2, ManifestsMove
<1>4. /\ source \subseteq source'
      /\ source' = source \/ \E fact \in Fact : source' = source \cup {fact}
  BY DEF Tick, CloseEpoch, CommitFact, vars
<1>5. TokensApart' /\ EntriesOfSource' /\ ManifestsOfClaims'
  BY <1>1, <1>2, <1>3, <1>4, AsideKeepsClaims DEF Base, TokensApart
<1>6. SourceFinite'
  BY <1>4, FS_AddElement DEF Base, SourceFinite
<1>7. clock' \in 0 .. MaxClock /\ closed' \in BOOLEAN /\ valid' \in BOOLEAN
  <2>1. /\ clock \in 0 .. MaxClock /\ MaxClock \in Nat
        /\ closed \in BOOLEAN /\ valid \in BOOLEAN
    BY ConstantTypes DEF Base, TypeOK
  <2>2. CASE Tick
    BY <2>1, <2>2 DEF Tick
  <2>3. CASE CloseEpoch \/ CommitFact \/ UNCHANGED vars
    BY <2>1, <2>3 DEF CloseEpoch, CommitFact, vars
  <2>. QED
    BY <2>2, <2>3
<1>8. TypeOK'
  BY <1>1, <1>4, <1>7 DEF Base, TypeOK
<1>9. (closed => closed') /\ valid' = valid
  BY DEF Tick, CloseEpoch, CommitFact, vars
<1>10. VerifiedScope' /\ ManifestLast'
  BY <1>1, <1>9 DEF Base, VerifiedScope, HasCopy, ManifestLast
<1>. QED
  BY <1>5, <1>6, <1>8, <1>10 DEF Base

\* The steps of a command that only move it on.
Moves(w) ==
  /\ UntouchedArchive /\ UNCHANGED <<workVars, historyVars>> /\ Aside
  /\ \/ /\ worker[w].pc \in Fencing /\ GoesTo(w, "failing")
        /\ worker[w].pc = "marking_exported" => ~Owns(w)
     \/ worker[w].pc = "marking_verified" /\ GoesTo(w, "failing") /\ ~VerifiesCatalog(w)
     \/ /\ worker[w].pc = "verifying" /\ GoesTo(w, "marking_exported")
        /\ Verified(store["primary"])
     \/ /\ worker[w].pc = "rechecking" /\ Reads(w, "marking_verified")
        /\ Verified(store["primary"])
     \/ /\ worker[w].pc = "idle" /\ Reads(w, "copying") /\ Verified(store["primary"])
     \/ /\ worker[w].pc = "idle" /\ Reads(w, "comparing") /\ Verified(store["primary"])
     \/ worker[w].pc = "comparing" /\ GoesTo(w, "recording_copy") /\ CopyEqual(w)
     \/ Ends(w)

\* What is left when the others are done: a command goes on, gives up or dies.
LEMMA MovingSteps ==
  ASSUME TypeOK, NEW w \in Worker,
         \/ VerifyExport(w) \/ ExportInterrupted(w) \/ Recheck(w) \/ Kill(w)
         \/ BeginCopy(w) \/ BeginVerifyCopy(w) \/ CompareCopy(w)
         \/ /\ \E f \in File : PublishFile(w, f) \/ CopyFile(w, f)
            /\ UNCHANGED store
         \/ (CopySidecar(w) \/ CopyManifest(w)) /\ Exit(w) /\ UNCHANGED store
         \/ MarkExported(w) /\ ~Owns(w)
         \/ MarkVerified(w) /\ ~VerifiesCatalog(w)
  PROVE  Moves(w) \/ (Aside /\ UntouchedArchive /\ UNCHANGED <<workVars, historyVars, worker>>)
<1>. USE DEF UntouchedArchive
<1>1. ASSUME Exit(w), UntouchedArchive, UNCHANGED <<workVars, historyVars>>
      PROVE  Moves(w)
  BY <1>1, ExitAside DEF Moves
<1>2. ASSUME worker[w].pc \in Fencing \ {"marking_exported"}, Step(w, "failing"), UntouchedArchive,
             UNCHANGED <<workVars, historyVars>>
      PROVE  Moves(w)
  BY <1>2, StepAside DEF Moves, Pc, Filling, Claiming
<1>3. CASE VerifyExport(w)
  <2>1. CASE Verified(store["primary"])
    BY <1>3, <2>1, StepAside DEF VerifyExport, Moves, Pc, Filling, Claiming, Fencing
  <2>2. CASE ~Verified(store["primary"])
    BY <1>2, <1>3, <2>2 DEF VerifyExport, Fencing
  <2>. QED
    BY <2>1, <2>2
<1>4. CASE ExportInterrupted(w)
  BY <1>2, <1>4 DEF ExportInterrupted, Fencing
<1>5. CASE Recheck(w)
  <2>1. CASE Verified(store["primary"])
    <3>1. Reads(w, "marking_verified") /\ worker' \in [Worker -> Memory]
      BY <1>5, <2>1, GoesOnReading DEF Recheck, Pc
    <3>2. Aside
      BY <1>5, <3>1, ReadAside DEF Recheck, Pc, Filling, Claiming
    <3>. QED
      BY <1>5, <2>1, <3>1, <3>2 DEF Recheck, Moves
  <2>2. CASE ~Verified(store["primary"])
    BY <1>1, <1>5, <2>2 DEF Recheck
  <2>. QED
    BY <2>1, <2>2
<1>6. CASE Kill(w)
  BY <1>1, <1>6 DEF Kill
<1>7. CASE BeginCopy(w) \/ BeginVerifyCopy(w)
  <2>1. PICK pc \in {"copying", "comparing"} : Reads(w, pc) /\ worker' \in [Worker -> Memory]
    <3>1. CASE BeginCopy(w)
      BY <3>1, BeginsReading DEF BeginCopy, Pc
    <3>2. CASE BeginVerifyCopy(w)
      BY <3>2, BeginsReading DEF BeginVerifyCopy, Pc
    <3>. QED
      BY <1>7, <3>1, <3>2
  <2>2. Aside
    BY <2>1, ReadAside DEF Pc, Filling, Claiming, Fencing
  <2>. QED
    BY <1>7, <2>1, <2>2 DEF BeginCopy, BeginVerifyCopy, Moves
<1>8. CASE CompareCopy(w)
  <2>1. CASE CopyEqual(w)
    BY <1>8, <2>1, StepAside DEF CompareCopy, Moves, Pc, Filling, Claiming, Fencing
  <2>2. CASE ~CopyEqual(w)
    BY <1>1, <1>8, <2>2 DEF CompareCopy
  <2>. QED
    BY <2>1, <2>2
<1>9. ASSUME NEW f \in File, PublishFile(w, f) \/ CopyFile(w, f), UNCHANGED store
      PROVE  Moves(w) \/ (Aside /\ UntouchedArchive /\ UNCHANGED <<workVars, historyVars, worker>>)
  <2>1. CASE PublishFile(w, f)
    BY <1>2, <1>9, <2>1, WorkersAlone DEF PublishFile, Fencing
  <2>2. CASE CopyFile(w, f)
    BY <1>1, <1>9, <2>2, WorkersAlone DEF CopyFile
  <2>. QED
    BY <1>9, <2>1, <2>2
<1>10. CASE (CopySidecar(w) \/ CopyManifest(w)) /\ Exit(w) /\ UNCHANGED store
  BY <1>1, <1>10 DEF CopySidecar, CopyManifest
<1>11. CASE MarkExported(w) /\ ~Owns(w)
  BY <1>11, StepAside DEF MarkExported, Moves, Pc, Filling, Claiming, Fencing
<1>12. CASE MarkVerified(w) /\ ~VerifiesCatalog(w)
  <2>1. /\ worker[w].pc = "marking_verified" /\ Step(w, "failing")
        /\ UntouchedArchive /\ UNCHANGED <<workVars, historyVars>>
    BY <1>12 DEF MarkVerified
  <2>2. Aside /\ GoesTo(w, "failing")
    BY <2>1, StepAside DEF Pc, Filling, Claiming
  <2>. QED
    BY <1>12, <2>1, <2>2 DEF Moves
<1>. QED
  BY <1>3, <1>4, <1>5, <1>6, <1>7, <1>8, <1>9, <1>10, <1>11, <1>12
-----------------------------------------------------------------------------
(* Steps that write a file.                                                *)

\* What is written, and which file already there is left as it is.
Writes(w) ==
  /\ UNCHANGED <<workVars, scope, copies, historyVars>> /\ Aside /\ store' \in [Role -> Store]
  /\ \/ /\ UNCHANGED worker /\ worker[w].pc = "publishing"
        /\ \E f \in File : PutsFile("primary", f, worker[w].entries[f])
     \/ /\ worker[w].pc = "sidecar" /\ Reads(w, "verifying")
        /\ PutsSidecar("primary", store["primary"].manifest)
     \/ /\ UNCHANGED worker /\ worker[w].pc = "copying"
        /\ \E f \in File : PutsFile("secondary", f, store["primary"].files[f])
     \/ /\ UNCHANGED worker /\ worker[w].pc = "copying"
        /\ MayPut(store["secondary"].sidecar, store["primary"].sidecar)
        /\ PutsSidecar("secondary", store["primary"].sidecar)
     \/ /\ worker[w].pc = "copying" /\ ReadyForCopiedManifest
        /\ GoesTo(w, "comparing") \/ GoesTo(w, "recording_copy")
        /\ MayPut(store["secondary"].manifest, store["primary"].manifest)
        /\ PutsManifest("secondary", store["primary"].manifest)

LEMMA WritingSteps ==
  ASSUME TypeOK, NEW w \in Worker,
         \/ \E f \in File : /\ PublishFile(w, f)
                            /\ MayPublish(f, worker[w].entries[f])
         \/ WriteSidecar(w)
         \/ \E f \in File : /\ CopyFile(w, f)
                            /\ MayPut(store["secondary"].files[f], store["primary"].files[f])
         \/ CopySidecar(w) /\ MayPut(store["secondary"].sidecar, store["primary"].sidecar)
         \/ CopyManifest(w) /\ MayPut(store["secondary"].manifest, store["primary"].manifest)
  PROVE  Writes(w)
<1>. DEFINE primary == store["primary"]
<1>1. "primary" \in Role /\ "secondary" \in Role
  BY DEF Role
<1>2. /\ primary.manifest \in Manifest \cup {None} /\ primary.sidecar \in Manifest \cup {None}
      /\ primary.files \in [File -> Bytes \cup {None}]
  BY <1>1, StoreTypes
<1>3. ASSUME NEW f \in File, PublishFile(w, f), MayPublish(f, worker[w].entries[f])
      PROVE  Writes(w)
  <2>1. /\ store' = [store EXCEPT !["primary"].files[f] = worker[w].entries[f]]
        /\ store["primary"].files[f] \in {None, worker[w].entries[f]}
        /\ worker[w].entries[f] \in Bytes \cup {None}
    BY <1>3, MemoryTypes DEF PublishFile, MayPublish
  <2>2. PutsFile("primary", f, worker[w].entries[f]) /\ store' \in [Role -> Store]
    BY <1>1, <2>1, FilePut
  <2>. QED
    BY <1>3, <2>2, WorkersAlone DEF PublishFile, Writes
<1>4. CASE WriteSidecar(w)
  <2>1. PutsSidecar("primary", primary.manifest) /\ store' \in [Role -> Store]
    BY <1>1, <1>2, <1>4, SidecarPut DEF WriteSidecar
  <2>2. Reads(w, "verifying") /\ worker' \in [Worker -> Memory]
    BY <1>4, GoesOnReading DEF WriteSidecar, Pc
  <2>3. Aside
    BY <1>4, <2>2, ReadAside DEF WriteSidecar, Pc, Filling, Claiming, Fencing
  <2>. QED
    BY <1>4, <2>1, <2>2, <2>3 DEF WriteSidecar, Writes
<1>5. ASSUME NEW f \in File, CopyFile(w, f), MayPut(store["secondary"].files[f], primary.files[f])
      PROVE  Writes(w)
  <2>1. /\ store' = [store EXCEPT !["secondary"].files[f] = primary.files[f]]
        /\ store["secondary"].files[f] \in {None, primary.files[f]}
        /\ primary.files[f] \in Bytes \cup {None}
    BY <1>2, <1>5 DEF CopyFile, MayPut
  <2>2. PutsFile("secondary", f, primary.files[f]) /\ store' \in [Role -> Store]
    BY <1>1, <2>1, FilePut
  <2>. QED
    BY <1>5, <2>2, WorkersAlone DEF CopyFile, Writes
<1>6. CASE CopySidecar(w) /\ MayPut(store["secondary"].sidecar, primary.sidecar)
  <2>1. PutsSidecar("secondary", primary.sidecar) /\ store' \in [Role -> Store]
    BY <1>1, <1>2, <1>6, SidecarPut DEF CopySidecar
  <2>. QED
    BY <1>6, <2>1, WorkersAlone DEF CopySidecar, Writes
<1>7. CASE CopyManifest(w) /\ MayPut(store["secondary"].manifest, primary.manifest)
  <2>1. PutsManifest("secondary", primary.manifest) /\ store' \in [Role -> Store]
    BY <1>1, <1>2, <1>7, ManifestPut DEF CopyManifest
  <2>2. /\ Aside /\ (GoesTo(w, "comparing") \/ GoesTo(w, "recording_copy"))
    BY <1>7, StepAside DEF CopyManifest, Pc, Filling, Claiming, Fencing
  <2>. QED
    BY <1>7, <2>1, <2>2 DEF CopyManifest, Writes
<1>. QED
  BY <1>3, <1>4, <1>5, <1>6, <1>7

\* A file whose manifest is there has its bytes already.
LEMMA FilesStay ==
  ASSUME TypeOK, ManifestLast, NEW role \in Role, NEW f \in File, NEW bytes,
         PutsFile(role, f, bytes)
  PROVE  ManifestLast'
<1>. SUFFICES ASSUME NEW other \in Role, store'[other].manifest # None, NEW g \in File
              PROVE  store'[other].files[g] = store'[other].manifest.entries[g]
  BY DEF ManifestLast, Role
<1>1. CASE other # role
  BY <1>1 DEF PutsFile, ManifestLast, Role
<1>2. CASE other = role
  <2>1. store[role].manifest # None /\ store[role].manifest \in Manifest
    BY <1>2, StoreTypes DEF PutsFile
  <2>2. /\ store[role].files[f] = store[role].manifest.entries[f]
        /\ store[role].files[g] = store[role].manifest.entries[g]
        /\ store[role].manifest.entries[f] # None
    BY <2>1, ConstantTypes DEF ManifestLast, Manifest, Role
  <2>3. store[role].files[f] = bytes /\ store[role].files \in [File -> Bytes \cup {None}]
    BY <2>2, StoreTypes DEF PutsFile
  <2>. QED
    BY <1>2, <2>2, <2>3 DEF PutsFile
<1>. QED
  BY <1>1, <1>2

LEMMA WritingKeepsBase ==
  ASSUME Base, NEW w \in Worker, Writes(w)
  PROVE  Base'
<1>1. /\ "primary" \in Role /\ "secondary" \in Role
      /\ \A role \in Role : role \in {"primary", "secondary"}
  BY DEF Role
<1>2. \A role \in Role :
        /\ store'[role].manifest \in {store[role].manifest, store["primary"].manifest}
        /\ store'[role].sidecar \in {store[role].sidecar, store["primary"].sidecar,
                                     store["primary"].manifest}
  BY <1>1 DEF Writes, PutsFile, PutsManifest, PutsSidecar
<1>3. NoneFound
  BY <1>2, ManifestsMove DEF Writes
<1>4. TokensApart' /\ EntriesOfSource' /\ ManifestsOfClaims'
  BY <1>3, AsideKeepsClaims DEF Writes, workVars, historyVars, Base, TokensApart
<1>5. TypeOK' /\ SourceFinite'
  BY DEF Base, TypeOK, SourceFinite, Aside, Writes, workVars, historyVars, Role
<1>6. VerifiedScope'
  BY DEF Base, VerifiedScope, HasCopy, Writes, workVars
<1>7. ManifestLast'
  <2>1. CASE \E role \in Role, f \in File : \E bytes : PutsFile(role, f, bytes)
    BY <2>1, FilesStay DEF Base
  <2>2. CASE \E role \in Role : \E sidecar : PutsSidecar(role, sidecar)
    BY <2>2 DEF Base, ManifestLast, PutsSidecar, Role
  <2>3. CASE ReadyForCopiedManifest /\ PutsManifest("secondary", store["primary"].manifest)
    BY <2>3 DEF Base, ManifestLast, PutsManifest, Role, ReadyForCopiedManifest, FilesCopied
  <2>. QED
    BY <1>1, <2>1, <2>2, <2>3 DEF Writes
<1>. QED
  BY <1>4, <1>5, <1>6, <1>7 DEF Base

\* The manifest of a claim, when its files are there.
LEMMA ManifestWritten ==
  ASSUME Base, NEW w \in Worker, WriteManifest(w)
  PROVE  /\ worker[w].pc = "publishing" /\ GoesTo(w, "sidecar") /\ Aside
         /\ NewManifest(w) \in Manifest /\ NewManifest(w).claim = worker[w].token
         /\ NewManifest(w).entries = worker[w].entries
         /\ Counted(worker[w].entries, counted[worker[w].token])
         /\ PutsManifest("primary", NewManifest(w)) /\ store' \in [Role -> Store]
         /\ store["primary"].files = worker[w].entries
         /\ UNCHANGED <<workVars, scope, copies, historyVars>>
<1>1. worker[w].pc = "publishing" /\ Aside /\ GoesTo(w, "sidecar")
  BY StepAside DEF WriteManifest, Base, Pc, Filling, Claiming, Fencing
<1>2. /\ Counted(worker[w].entries, counted[worker[w].token])
      /\ worker[w].token # None
  BY <1>1 DEF Base, EntriesOfSource, TokensApart, Claiming, Fencing
<1>3. worker[w].token \in Token /\ worker[w].entries \in [File -> Bytes]
  BY <1>2, MemoryTypes DEF Base, Counted
<1>4. /\ NewManifest(w) \in Manifest /\ NewManifest(w).claim = worker[w].token
      /\ NewManifest(w).entries = worker[w].entries
  BY <1>3 DEF NewManifest, Manifest
<1>5. PutsManifest("primary", NewManifest(w)) /\ store' \in [Role -> Store]
  BY <1>4, ManifestPut DEF WriteManifest, Base, Role
<1>6. store["primary"].files = worker[w].entries
  BY <1>3, StoreTypes DEF WriteManifest, ReadyForManifest, Published, Base, Role
<1>. QED
  BY <1>1, <1>2, <1>4, <1>5, <1>6 DEF WriteManifest

LEMMA ManifestKeepsBase ==
  ASSUME Base, NEW w \in Worker, WriteManifest(w)
  PROVE  Base'
<1>. DEFINE new == NewManifest(w)
<1>1. /\ worker[w].pc = "publishing" /\ GoesTo(w, "sidecar") /\ Aside
      /\ new \in Manifest /\ new.claim = worker[w].token /\ new.entries = worker[w].entries
      /\ Counted(worker[w].entries, counted[worker[w].token])
      /\ PutsManifest("primary", new) /\ store' \in [Role -> Store]
      /\ store["primary"].files = worker[w].entries
      /\ UNCHANGED <<workVars, scope, copies, historyVars>>
  BY ManifestWritten
<1>. HIDE DEF new
<1>2. TypeOK' /\ SourceFinite'
  BY <1>1 DEF Base, TypeOK, SourceFinite, Aside, workVars, historyVars, Role
<1>3. VerifiedScope'
  BY <1>1 DEF Base, VerifiedScope, HasCopy, workVars
<1>4. ManifestLast'
  BY <1>1 DEF Base, ManifestLast, PutsManifest, Role
<1>5. TokensApart'
  BY <1>1 DEF Base, TokensApart, Aside, historyVars
<1>6. EntriesOfSource'
  <2>1. \A v \in Worker : worker'[v].pc \in Filling => worker'[v] = worker[v]
    BY <1>1 DEF Aside
  <2>. QED
    BY <1>1, <2>1 DEF Base, EntriesOfSource, Filling, workVars, historyVars, Rows, FactRows,
       DimensionRows
<1>7. \A m : Found(m)' => Found(m) \/ m = new
  <2>. SUFFICES ASSUME NEW m, Found(m)' PROVE Found(m) \/ m = new
    OBVIOUS
  <2>1. \A v \in Worker : worker'[v].manifest = worker[v].manifest
    BY <1>1 DEF GoesTo, Others
  <2>. QED
    BY <1>1, <2>1 DEF Found, PutsManifest, Role
<1>8. ManifestsOfClaims'
  <2>1. worker[w].token \in 1 .. claims /\ claims' = claims /\ counted' = counted
    BY <1>1 DEF Base, TokensApart, Claiming, Fencing, historyVars
  <2>2. \A v \in Worker : worker'[v].pc \in Filling => worker'[v] = worker[v] /\ v # w
    BY <1>1 DEF Aside, GoesTo, Filling
  <2>3. \A v \in Worker : worker'[v].pc \in Filling => worker'[v].token # worker[w].token
    BY <1>1, <2>2 DEF Base, TokensApart, Claiming, Fencing
  <2>4. \A m \in Manifest : Found(m)' =>
          /\ m.claim \in 1 .. claims'
          /\ Counted(m.entries, counted'[m.claim])
          /\ \A v \in Worker : worker'[v].pc \in Filling => m.claim # worker'[v].token
    BY <1>1, <1>7, <2>1, <2>2, <2>3 DEF Base, ManifestsOfClaims
  <2>5. \A m \in Manifest : Found(m) => m.claim # new.claim
    BY <1>1 DEF Base, ManifestsOfClaims, Filling
  <2>6. \A m, n \in Manifest : Found(m)' /\ Found(n)' /\ m.claim = n.claim => m = n
    BY <1>7, <2>5 DEF Base, ManifestsOfClaims
  <2>. QED
    BY <2>4, <2>6 DEF ManifestsOfClaims, Counted, ReferencesResolved
<1>. QED
  BY <1>2, <1>3, <1>4, <1>5, <1>6, <1>8 DEF Base
-----------------------------------------------------------------------------
(* Steps that write the row of the scope.                                  *)

\* A verified scope is not claimed.
LEMMA VerifiedUnclaimed ==
  ASSUME Base
  PROVE  scope.state # "exporting" => scope.token = None /\ scope.expires = None
BY DEF Base, TypeOK, TokensApart

LEMMA RowKeepsBase ==
  ASSUME Base, Aside, UNCHANGED <<store, workVars, historyVars>>,
         scope' \in ScopeRow, scope'.token = None, scope'.expires = None,
         scope'.state # "exporting",
         scope'.manifest = scope.manifest \/ \E w \in Worker : scope'.manifest = worker[w].manifest,
         copies' \subseteq Copy,
         \A c \in copies' : c \in copies \/ \E w \in Worker : c.manifest = worker[w].manifest,
         VerifiedScope'
  PROVE  Base'
<1>1. NoneFound
  BY ManifestsMove
<1>2. TokensApart' /\ EntriesOfSource' /\ ManifestsOfClaims'
  BY <1>1, AsideKeepsClaims DEF workVars, historyVars
<1>3. TypeOK' /\ SourceFinite' /\ ManifestLast'
  BY DEF Base, TypeOK, SourceFinite, ManifestLast, Aside, workVars, historyVars
<1>. QED
  BY <1>2, <1>3 DEF Base

LEMMA ExportedEffect ==
  ASSUME Base, NEW w \in Worker, MarkExported(w), Owns(w)
  PROVE  /\ worker[w].pc = "marking_exported" /\ scope.state = "exporting"
         /\ scope.token = worker[w].token
         /\ Aside /\ GoesTo(w, "marking_verified")
         /\ Sets("exported", worker[w].manifest, scope.verified)
         /\ scope'.token = None /\ scope'.expires = None
         /\ UNCHANGED <<workVars, copies, store, historyVars>>
<1>. DEFINE row == [Released(scope) EXCEPT !.state = "exported", !.manifest = worker[w].manifest]
<1>1. /\ worker[w].pc = "marking_exported" /\ scope' = row /\ Step(w, "marking_verified")
      /\ UNCHANGED <<workVars, copies, store, historyVars>>
  BY DEF MarkExported
<1>2. Aside /\ GoesTo(w, "marking_verified")
  BY <1>1, StepAside DEF Base, Pc, Filling, Claiming, Fencing
<1>3. /\ row \in ScopeRow /\ row.state = "exported" /\ row.manifest = worker[w].manifest
      /\ row.verified = scope.verified /\ row.token = None /\ row.expires = None
  BY ReleasedRow, MemoryTypes DEF Base, ScopeRow
<1>. QED
  BY <1>1, <1>2, <1>3 DEF Sets, Owns

LEMMA VerifiedEffect ==
  ASSUME Base, NEW w \in Worker, MarkVerified(w), VerifiesCatalog(w)
  PROVE  /\ worker[w].pc = "marking_verified"
         /\ scope.manifest # None /\ scope.manifest = worker[w].manifest
         /\ Aside /\ GoesTo(w, "recording")
         /\ Sets("verified", scope.manifest, TRUE)
         /\ scope'.token = None /\ scope'.expires = None
         /\ UNCHANGED <<workVars, copies, store, historyVars>>
<1>. DEFINE row == [Released(scope) EXCEPT !.state = "verified", !.verified = TRUE]
<1>1. /\ worker[w].pc = "marking_verified" /\ scope' = row /\ Step(w, "recording")
      /\ UNCHANGED <<workVars, copies, store, historyVars>>
  BY DEF MarkVerified
<1>2. Aside /\ GoesTo(w, "recording")
  BY <1>1, StepAside DEF Base, Pc, Filling, Claiming, Fencing
<1>3. /\ row \in ScopeRow /\ row.state = "verified" /\ row.manifest = scope.manifest
      /\ row.verified = TRUE /\ row.token = None /\ row.expires = None
  BY ReleasedRow DEF Base, ScopeRow, VerifiedState
<1>. QED
  BY <1>1, <1>2, <1>3 DEF Sets, VerifiesCatalog

\* A copy is recorded of the manifest that is verified.
LEMMA RecordEffect ==
  ASSUME Base, NEW w \in Worker, NEW role \in Role,
         RecordCopy(w, role), Recordable(worker[w].manifest)
  PROVE  /\ scope.state \in VerifiedState /\ scope.manifest = worker[w].manifest
         /\ scope.manifest \in Manifest
         /\ Aside /\ Ends(w)
         /\ copies' = copies \cup {[role |-> role, manifest |-> scope.manifest]}
         /\ copies' \subseteq Copy
         /\ \E state \in {scope.state, "independently_copied"} :
              Sets(state, scope.manifest, scope.verified)
         /\ scope'.state # "retention_eligible" \/ scope' = scope
         /\ scope'.token = None /\ scope'.expires = None
         /\ UNCHANGED <<workVars, store, historyVars>>
<1>1. /\ scope.state \in VerifiedState /\ scope.manifest = worker[w].manifest /\ Exit(w)
      /\ copies' = copies \cup {[role |-> role, manifest |-> scope.manifest]}
      /\ UNCHANGED <<workVars, store, historyVars>>
  BY DEF RecordCopy, Recordable
<1>2. Aside /\ Ends(w)
  BY <1>1, ExitAside DEF Base
<1>3. scope.manifest \in Manifest
  BY <1>1 DEF Base, VerifiedScope, TypeOK, ScopeRow
<1>4. copies' \subseteq Copy
  BY <1>1, <1>3 DEF Base, TypeOK, Copy, Role
<1>5. scope.token = None /\ scope.expires = None
  BY <1>1, VerifiedUnclaimed DEF VerifiedState
<1>6. CASE role = "secondary"
  <2>1. scope' = [scope EXCEPT !.state = "independently_copied"]
    BY <1>6 DEF RecordCopy
  <2>2. /\ Sets("independently_copied", scope.manifest, scope.verified)
        /\ scope'.token = None /\ scope'.expires = None
    BY <1>5, <2>1, RowSet DEF Base, State, VerifiedState
  <2>. QED
    BY <1>1, <1>2, <1>3, <1>4, <2>2 DEF Sets
<1>7. CASE role # "secondary"
  <2>1. scope' = scope
    BY <1>7 DEF RecordCopy
  <2>2. Sets(scope.state, scope.manifest, scope.verified)
    BY <2>1 DEF Base, TypeOK, Sets
  <2>. QED
    BY <1>1, <1>2, <1>3, <1>4, <1>5, <2>1, <2>2
<1>. QED
  BY <1>6, <1>7

LEMMA FailedEffect ==
  ASSUME Base, NEW w \in Worker, MarkFailed(w)
  PROVE  /\ worker[w].pc = "failing" /\ Aside /\ Ends(w)
         /\ UNCHANGED <<workVars, copies, store, historyVars>>
         /\ IF scope.token = worker[w].token
            THEN /\ scope.state = "exporting"
                 /\ Sets("failed", scope.manifest, scope.verified)
                 /\ scope'.token = None /\ scope'.expires = None
            ELSE UNCHANGED scope
<1>1. worker[w].pc = "failing" /\ Exit(w) /\ UNCHANGED <<workVars, copies, store, historyVars>>
  BY DEF MarkFailed
<1>2. Aside /\ Ends(w)
  BY <1>1, ExitAside DEF Base
<1>3. CASE scope.token = worker[w].token
  <2>. DEFINE row == [Released(scope) EXCEPT !.state = "failed"]
  <2>1. scope.state = "exporting"
    BY <1>1, <1>3 DEF Base, TokensApart, Claiming
  <2>2. /\ row \in ScopeRow /\ row.state = "failed" /\ row.manifest = scope.manifest
        /\ row.verified = scope.verified /\ row.token = None /\ row.expires = None
    BY ReleasedRow DEF Base, ScopeRow
  <2>3. scope' = row
    BY <1>3 DEF MarkFailed
  <2>. QED
    BY <1>1, <1>2, <1>3, <2>1, <2>2, <2>3 DEF Sets
<1>4. CASE scope.token # worker[w].token
  BY <1>1, <1>2, <1>4 DEF MarkFailed
<1>. QED
  BY <1>3, <1>4

LEMMA RetentionEffect ==
  ASSUME Base, NEW days \in HotDays, EvaluateRetention(days)
  PROVE  /\ scope.verified /\ scope.state \in VerifiedState
         /\ HasCopy("primary") /\ HasCopy("secondary") /\ valid /\ closed
         /\ Sets("retention_eligible", scope.manifest, scope.verified)
         /\ scope'.token = None /\ scope'.expires = None
         /\ Aside /\ UNCHANGED <<workVars, copies, store, worker, historyVars>>
<1>1. /\ scope.verified /\ HasCopy("primary") /\ HasCopy("secondary") /\ valid /\ closed
      /\ scope' = [scope EXCEPT !.state = "retention_eligible"]
      /\ UNCHANGED <<workVars, copies, store, worker, historyVars>>
  BY DEF EvaluateRetention, Checks
<1>2. scope.state \in VerifiedState
  BY <1>1 DEF Base, VerifiedScope
<1>3. scope.token = None /\ scope.expires = None
  BY <1>2, VerifiedUnclaimed DEF VerifiedState
<1>4. /\ Sets("retention_eligible", scope.manifest, scope.verified)
      /\ scope'.token = None /\ scope'.expires = None
  BY <1>1, <1>3, RowSet DEF Base, State, VerifiedState
<1>5. Aside
  BY <1>1, WorkersAlone DEF Base
<1>. QED
  BY <1>1, <1>2, <1>4, <1>5

\* What happens to the row besides a claim.
Rewrites ==
  \/ \E w \in Worker : MarkExported(w) /\ Owns(w)
  \/ \E w \in Worker : MarkVerified(w) /\ VerifiesCatalog(w)
  \/ \E w \in Worker, role \in Role :
       /\ role = "primary" => worker[w].pc = "recording"
       /\ role = "secondary" => worker[w].pc = "recording_copy"
       /\ RecordCopy(w, role) /\ Recordable(worker[w].manifest)
  \/ \E w \in Worker : MarkFailed(w) /\ scope.token = worker[w].token
  \/ \E days \in HotDays : EvaluateRetention(days)

LEMMA RewritingKeepsBase ==
  ASSUME Base, Rewrites
  PROVE  Base'
<1>1. ASSUME NEW w \in Worker, MarkExported(w), Owns(w)
      PROVE  Base'
  <2>1. VerifiedScope'
    BY <1>1, ExportedEffect DEF Base, VerifiedScope, VerifiedState, Sets
  <2>. QED
    BY <1>1, <2>1, ExportedEffect, RowKeepsBase DEF Sets, Base, TypeOK
<1>2. ASSUME NEW w \in Worker, MarkVerified(w), VerifiesCatalog(w)
      PROVE  Base'
  <2>1. VerifiedScope'
    BY <1>2, VerifiedEffect DEF Base, VerifiedScope, VerifiedState, Sets
  <2>. QED
    BY <1>2, <2>1, VerifiedEffect, RowKeepsBase DEF Sets, Base, TypeOK
<1>3. ASSUME NEW w \in Worker, NEW role \in Role, RecordCopy(w, role),
             Recordable(worker[w].manifest)
      PROVE  Base'
  <2>1. /\ scope.state \in VerifiedState /\ scope.manifest = worker[w].manifest /\ Aside
        /\ copies' = copies \cup {[role |-> role, manifest |-> scope.manifest]}
        /\ copies' \subseteq Copy /\ scope' \in ScopeRow
        /\ scope'.state \in {scope.state, "independently_copied"}
        /\ scope'.manifest = scope.manifest /\ scope'.verified = scope.verified
        /\ scope'.state # "retention_eligible" \/ scope' = scope
        /\ scope'.token = None /\ scope'.expires = None
        /\ UNCHANGED <<workVars, store, historyVars>>
    BY <1>3, RecordEffect DEF Sets
  <2>2. VerifiedScope'
    BY <2>1 DEF Base, VerifiedScope, VerifiedState, HasCopy, workVars
  <2>3. \A c \in copies' : c \in copies \/ c.manifest = worker[w].manifest
    BY <2>1
  <2>. QED
    BY <2>1, <2>2, <2>3, RowKeepsBase DEF VerifiedState
<1>4. ASSUME NEW w \in Worker, MarkFailed(w), scope.token = worker[w].token
      PROVE  Base'
  <2>1. VerifiedScope'
    BY <1>4, FailedEffect DEF Base, VerifiedScope, VerifiedState, Sets
  <2>. QED
    BY <1>4, <2>1, FailedEffect, RowKeepsBase DEF Sets, Base, TypeOK
<1>5. ASSUME NEW days \in HotDays, EvaluateRetention(days)
      PROVE  Base'
  <2>1. VerifiedScope'
    BY <1>5, RetentionEffect DEF Base, VerifiedScope, VerifiedState, HasCopy, Sets, workVars
  <2>. QED
    BY <1>5, <2>1, RetentionEffect, RowKeepsBase DEF Sets, Base, TypeOK
<1>. QED
  BY <1>1, <1>2, <1>3, <1>4, <1>5 DEF Rewrites
-----------------------------------------------------------------------------
(* A claim, its export and its recount.                                    *)

LEMMA ClaimKeepsBase ==
  ASSUME Base, NEW w \in Worker, Claim(w)
  PROVE  Base'
<1>1. /\ worker[w].pc = "idle" /\ closed /\ scope.state \notin VerifiedState
      /\ claims' = claims + 1 /\ claims + 1 \in Token
      /\ scope' \in ScopeRow /\ scope'.state = "exporting" /\ scope'.token = claims + 1
      /\ scope'.expires # None /\ scope'.manifest = scope.manifest
      /\ scope'.verified = scope.verified
      /\ worker' \in [Worker -> Memory]
      /\ overtaken' = (overtaken \/ OutlivedLease(w))
      /\ UNCHANGED <<workVars, copies, store, counted>>
  BY ClaimBegins DEF Base, Claimable
<1>2. /\ Others(w) /\ worker'[w].pc \in {"exporting", "rechecking"}
      /\ worker'[w].token = claims + 1
      /\ worker'[w].entries = [f \in File |-> None] /\ worker'[w].manifest = None
      /\ worker'[w].pc = "exporting" => worker'[w].layout # None
  BY ClaimBegins, ConstantTypes DEF Base, Begins
<1>3. TypeOK' /\ SourceFinite'
  <2>1. overtaken' \in BOOLEAN /\ claims' \in 0 .. MaxClaims
    BY <1>1 DEF Token
  <2>2. scope'.token # None /\ scope'.expires # None
    BY <1>1, ConstantTypes
  <2>. QED
    BY <1>1, <2>1, <2>2 DEF Base, TypeOK, SourceFinite, workVars
<1>4. \A m : Found(m)' => Found(m)
  BY <1>1, <1>2 DEF Found, Others
<1>5. claims \in Nat
  BY DEF Base, TypeOK
<1>6. TokensApart'
  <2>1. \A v \in Worker : v # w => worker'[v] = worker[v]
    BY <1>2 DEF Others
  <2>2. \A v \in Worker : worker[v].token # None => worker[v].token \in 1 .. claims
    BY DEF Base, TokensApart
  <2>3. \A v \in Worker : v # w => worker'[v].token # claims + 1
    BY <1>1, <1>5, <2>1, <2>2, ConstantTypes
  <2>4. \A v \in Worker : worker'[v].token # None => worker'[v].token \in 1 .. claims'
    BY <1>1, <1>2, <1>5, <2>1, <2>2
  <2>5. claims + 1 # None
    BY <1>1, ConstantTypes
  <2>6. \A v \in Worker : worker'[v].pc \in Claiming => worker'[v].token # None
    BY <1>2, <2>1, <2>5 DEF Base, TokensApart
  <2>7. \A u, v \in Worker :
          u # v /\ worker'[v].token # None => worker'[u].token # worker'[v].token
    BY <1>2, <2>1, <2>3, <2>5 DEF Base, TokensApart
  <2>. QED
    BY <1>1, <2>4, <2>5, <2>6, <2>7 DEF TokensApart
<1>7. EntriesOfSource'
  <2>1. \A f \in File : Rows(f)' = Rows(f)
    BY <1>1 DEF Rows, FactRows, DimensionRows, workVars
  <2>2. "dimensions" \in File
    BY DEF File
  <2>. SUFFICES ASSUME NEW v \in Worker
                PROVE  EntriesOfSource!(v)'
    BY DEF EntriesOfSource
  <2>3. CASE v = w
    BY <1>2, <2>2, <2>3
  <2>4. CASE v # w
    BY <1>1, <1>2, <2>1, <2>4 DEF Base, EntriesOfSource, Others
  <2>. QED
    BY <2>3, <2>4
<1>8. ManifestsOfClaims'
  <2>1. \A m \in Manifest : Found(m)' =>
          /\ m.claim \in 1 .. claims' /\ m.claim # claims + 1
          /\ Counted(m.entries, counted'[m.claim])
    BY <1>1, <1>4, <1>5 DEF Base, ManifestsOfClaims
  <2>2. \A m \in Manifest : Found(m)' =>
          \A v \in Worker : worker'[v].pc \in Filling => m.claim # worker'[v].token
    BY <1>2, <1>4, <2>1 DEF Base, ManifestsOfClaims, Others
  <2>3. \A m, n \in Manifest : Found(m)' /\ Found(n)' /\ m.claim = n.claim => m = n
    BY <1>4 DEF Base, ManifestsOfClaims
  <2>. QED
    BY <2>1, <2>2, <2>3 DEF ManifestsOfClaims, Counted, ReferencesResolved
<1>9. VerifiedScope' /\ ManifestLast'
  <2>1. ~scope.verified /\ copies = {}
    BY <1>1 DEF Base, VerifiedScope
  <2>. QED
    BY <1>1, <2>1 DEF Base, VerifiedScope, VerifiedState, ManifestLast
<1>. QED
  BY <1>3, <1>6, <1>7, <1>8, <1>9 DEF Base

LEMMA ExportKeepsBase ==
  ASSUME Base, NEW w \in Worker, NEW f \in File, ExportFile(w, f)
  PROVE  Base'
<1>1. worker[w].layout # None
  BY DEF Base, EntriesOfSource, ExportFile
<1>2. /\ Exports(w, f) /\ worker' \in [Worker -> Memory]
      /\ UNCHANGED <<workVars, scope, copies, store, historyVars>>
  BY <1>1, ExportExports DEF Base
<1>3. PICK bytes \in Bytes :
        bytes.rows = Rows(f) /\ worker'[w].entries = [worker[w].entries EXCEPT ![f] = bytes]
  BY <1>2 DEF Exports
<1>4. /\ worker[w].pc = "exporting" /\ worker'[w].token = worker[w].token
      /\ worker'[w].manifest = worker[w].manifest /\ worker'[w].layout = worker[w].layout
      /\ \A v \in Worker : v # w => worker'[v] = worker[v]
      /\ worker'[w].pc = IF f = "dimensions" THEN "counting" ELSE "exporting"
      /\ f = "dimensions" => worker[w].entries["facts"] # None
  BY <1>2 DEF Exports, Others
<1>5. TypeOK' /\ SourceFinite' /\ VerifiedScope' /\ ManifestLast'
  BY <1>2 DEF Base, TypeOK, SourceFinite, VerifiedScope, HasCopy, ManifestLast, workVars,
     historyVars
<1>6. TokensApart'
  BY <1>2, <1>4 DEF Base, TokensApart, historyVars, Claiming, Fencing
<1>7. \A m : Found(m)' => Found(m)
  BY <1>2, <1>4 DEF Found
<1>8. ManifestsOfClaims'
  <2>1. \A v \in Worker : worker'[v].pc \in Filling =>
          worker[v].pc \in Filling /\ worker'[v].token = worker[v].token
    BY <1>4 DEF Filling
  <2>. QED
    BY <1>2, <1>7, <2>1 DEF Base, ManifestsOfClaims, historyVars
<1>9. EntriesOfSource'
  <2>1. \A g \in File : Rows(g)' = Rows(g)
    BY <1>2 DEF Rows, FactRows, DimensionRows, workVars
  <2>2. /\ worker[w].entries \in [File -> Bytes \cup {None}] /\ bytes # None
        /\ File = {"facts", "dimensions"}
    BY MemoryTypes, ConstantTypes DEF Base, File
  <2>3. \A g \in File : worker'[w].entries[g] = IF g = f THEN bytes ELSE worker[w].entries[g]
    BY <1>3, <2>2
  <2>4. /\ worker[w].layout # None /\ worker[w].entries["dimensions"] = None
        /\ \A g \in File :
             worker[w].entries[g] # None => worker[w].entries[g].rows \subseteq Rows(g)
    BY <1>4 DEF Base, EntriesOfSource
  <2>. SUFFICES ASSUME NEW v \in Worker
                PROVE  EntriesOfSource!(v)'
    BY DEF EntriesOfSource
  <2>5. CASE v # w
    BY <1>2, <1>4, <2>1, <2>5 DEF Base, EntriesOfSource, historyVars
  <2>6. CASE v = w
    <3>1. worker'[w].pc = "counting" => \A g \in File : worker'[w].entries[g] # None
      BY <1>4, <2>2, <2>3
    <3>2. worker'[w].pc = "exporting" =>
            worker'[w].layout # None /\ worker'[w].entries["dimensions"] = None
      BY <1>4, <2>2, <2>3, <2>4
    <3>3. \A g \in File :
            worker'[w].entries[g] # None => worker'[w].entries[g].rows \subseteq Rows(g)'
      BY <1>3, <2>1, <2>3, <2>4
    <3>. QED
      BY <1>4, <2>6, <3>1, <3>2, <3>3
  <2>. QED
    BY <2>5, <2>6
<1>. QED
  BY <1>5, <1>6, <1>8, <1>9 DEF Base

\* The rows of a family are finitely many, and so many that equal counts mean equal rows.
LEMMA RowsFinite ==
  ASSUME Base, NEW f \in File
  PROVE  IsFiniteSet(Rows(f))
<1>1. IsFiniteSet(FactRows)
  BY DEF Base, SourceFinite, FactRows
<1>2. IsFiniteSet(DimensionRows)
  <2>. DEFINE refers == [fact \in source |-> DimensionOf(fact)]
  <2>1. refers \in Surjection(source, DimensionRows)
    BY DEF Surjection, DimensionRows
  <2>. QED
    BY <2>1, FS_Surjection DEF Base, SourceFinite
<1>. QED
  BY <1>1, <1>2 DEF Rows

LEMMA RecountFindsAll ==
  ASSUME Base, NEW entries, SourceCountsMatch(entries),
         \A f \in File : entries[f] # None /\ entries[f].rows \subseteq Rows(f)
  PROVE  Counted(entries, source)
<1>1. \A f \in File : entries[f].rows = Rows(f)
  <2>. SUFFICES ASSUME NEW f \in File PROVE entries[f].rows = Rows(f)
    OBVIOUS
  <2>1. IsFiniteSet(Rows(f)) /\ entries[f].rows \in SUBSET Rows(f)
    BY RowsFinite
  <2>2. Cardinality(entries[f].rows) = Cardinality(Rows(f))
    BY DEF SourceCountsMatch
  <2>. QED
    BY <2>1, <2>2, FS_Subset
<1>2. entries["facts"].rows = source /\ entries["dimensions"].rows = DimensionRows
  BY <1>1 DEF File, Rows, FactRows
<1>. QED
  BY <1>2 DEF Counted, ReferencesResolved, DimensionRows

LEMMA RecountKeepsBase ==
  ASSUME Base, NEW w \in Worker, CountSource(w)
  PROVE  Base'
<1>. DEFINE next == IF SourceCountsMatch(worker[w].entries) THEN "publishing" ELSE "failing"
<1>1. /\ worker[w].pc = "counting" /\ Step(w, next)
      /\ counted' = [counted EXCEPT ![worker[w].token] = source]
      /\ UNCHANGED <<workVars, scope, copies, store, claims, overtaken>>
  BY DEF CountSource
<1>2. GoesTo(w, next) /\ worker' \in [Worker -> Memory]
  BY <1>1, StepGoes DEF Base, Pc
<1>3. /\ worker'[w].pc = next /\ worker'[w].token = worker[w].token
      /\ worker'[w].manifest = worker[w].manifest /\ worker'[w].entries = worker[w].entries
      /\ \A v \in Worker : v # w => worker'[v] = worker[v]
  BY <1>2 DEF GoesTo, Others
<1>4. worker[w].token \in Token /\ worker[w].token # None
  BY <1>1, MemoryTypes DEF Base, TokensApart, Claiming, Fencing
<1>5. /\ counted' \in [Token -> SUBSET Fact] /\ counted'[worker[w].token] = source
      /\ \A t \in Token : t # worker[w].token => counted'[t] = counted[t]
  BY <1>1, <1>4 DEF Base, TypeOK
<1>6. TypeOK' /\ SourceFinite' /\ VerifiedScope' /\ ManifestLast'
  BY <1>1, <1>2, <1>5 DEF Base, TypeOK, SourceFinite, VerifiedScope, HasCopy, ManifestLast, workVars
<1>7. TokensApart'
  BY <1>1, <1>3, <1>4 DEF Base, TokensApart
<1>8. \A m : Found(m)' => Found(m)
  BY <1>1, <1>3 DEF Found
<1>9. ManifestsOfClaims'
  <2>1. \A v \in Worker : worker'[v].pc \in Filling =>
          worker[v].pc \in Filling /\ worker'[v].token = worker[v].token
    BY <1>1, <1>3 DEF Filling
  <2>2. \A m \in Manifest : Found(m)' => m.claim \in Token /\ m.claim # worker[w].token
    BY <1>1, <1>8 DEF Base, ManifestsOfClaims, Filling, Manifest
  <2>3. \A m \in Manifest : Found(m)' =>
          /\ m.claim \in 1 .. claims'
          /\ Counted(m.entries, counted'[m.claim])
          /\ \A v \in Worker : worker'[v].pc \in Filling => m.claim # worker'[v].token
    BY <1>1, <1>5, <1>8, <2>1, <2>2 DEF Base, ManifestsOfClaims
  <2>4. \A m, n \in Manifest : Found(m)' /\ Found(n)' /\ m.claim = n.claim => m = n
    BY <1>8 DEF Base, ManifestsOfClaims
  <2>. QED
    BY <2>3, <2>4 DEF ManifestsOfClaims, Counted, ReferencesResolved
<1>10. EntriesOfSource'
  <2>1. \A f \in File : Rows(f)' = Rows(f)
    BY <1>1 DEF Rows, FactRows, DimensionRows, workVars
  <2>. SUFFICES ASSUME NEW v \in Worker
                PROVE  EntriesOfSource!(v)'
    BY DEF EntriesOfSource
  <2>2. CASE v # w
    <3>1. worker[v].pc = "publishing" => counted'[worker[v].token] = counted[worker[v].token]
      <4>1. worker[v].pc = "publishing" => worker[v].token \in Token
        BY MemoryTypes DEF Base, TokensApart, Claiming, Fencing
      <4>2. worker[v].token # worker[w].token
        BY <1>4, <2>2 DEF Base, TokensApart
      <4>. QED
        BY <1>5, <4>1, <4>2
    <3>. QED
      BY <1>1, <1>3, <2>1, <2>2, <3>1 DEF Base, EntriesOfSource, Counted, ReferencesResolved
  <2>3. CASE v = w
    <3>1. SourceCountsMatch(worker[w].entries) => Counted(worker[w].entries, source)
      BY <1>1, RecountFindsAll DEF Base, EntriesOfSource
    <3>2. worker'[w].pc = "publishing" => Counted(worker'[w].entries, counted'[worker'[w].token])
      BY <1>3, <1>5, <3>1
    <3>. QED
      BY <1>3, <2>3, <3>2 DEF Counted, ReferencesResolved
  <2>. QED
    BY <2>2, <2>3
<1>. QED
  BY <1>6, <1>7, <1>9, <1>10 DEF Base

LEMMA InitiallyBase == Init => Base
<1>. SUFFICES ASSUME Init PROVE Base
  OBVIOUS
<1>1. /\ clock = 0 /\ closed = FALSE /\ valid \in BOOLEAN /\ source = {} /\ claims = 0
      /\ scope.state = "absent" /\ scope.token = None /\ scope.expires = None
      /\ scope.manifest = None /\ scope.verified = FALSE /\ scope \in ScopeRow
      /\ copies = {} /\ overtaken = FALSE
      /\ store = [role \in Role |-> EmptyStore] /\ worker = [w \in Worker |-> Idle]
      /\ counted = [t \in Token |-> {}]
  BY DEF Init, Role, ScopeRow
<1>2. EmptyStore \in Store /\ EmptyStore.manifest = None /\ EmptyStore.sidecar = None
  BY DEF EmptyStore, Store
<1>3. \A role \in Role : store[role].manifest = None /\ store[role].sidecar = None
  BY <1>1, <1>2
<1>4. \A w \in Worker : /\ worker[w].pc = "idle" /\ worker[w].token = None
                        /\ worker[w].manifest = None
  BY <1>1, IdleMemory
<1>5. TypeOK
  <2>1. worker \in [Worker -> Memory]
    BY <1>1, IdleMemory
  <2>2. store \in [{"primary", "secondary"} -> Store]
    BY <1>1, <1>2 DEF Role
  <2>3. clock \in 0 .. MaxClock /\ claims \in 0 .. MaxClaims
    BY <1>1, ConstantTypes
  <2>. QED
    BY <1>1, <2>1, <2>2, <2>3 DEF TypeOK
<1>6. TokensApart /\ EntriesOfSource /\ VerifiedScope
  BY <1>1, <1>4 DEF TokensApart, EntriesOfSource, VerifiedScope, VerifiedState, Claiming, Fencing
<1>7. \A m : ~Found(m)
  BY <1>1, <1>3, <1>4 DEF Found
<1>8. ManifestsOfClaims /\ ManifestLast
  BY <1>3, <1>7 DEF ManifestsOfClaims, ManifestLast, Role
<1>9. SourceFinite
  BY <1>1, FS_EmptySet DEF SourceFinite
<1>. QED
  BY <1>5, <1>6, <1>8, <1>9 DEF Base

LEMMA RecordKinds ==
  ASSUME TypeOK, NEW w \in Worker, NEW role \in Role, RecordCopy(w, role),
         role = "primary" => worker[w].pc = "recording",
         role = "secondary" => worker[w].pc = "recording_copy"
  PROVE  Moves(w) \/ Rewrites
<1>1. CASE Recordable(worker[w].manifest)
  BY <1>1 DEF Rewrites
<1>2. CASE ~Recordable(worker[w].manifest)
  <2>1. Exit(w) /\ UntouchedArchive /\ UNCHANGED <<workVars, historyVars>>
    BY <1>2 DEF RecordCopy, UntouchedArchive
  <2>. QED
    BY <2>1, ExitAside DEF Moves
<1>. QED
  BY <1>1, <1>2

\* A step is of one of these kinds.
LEMMA StepKinds ==
  ASSUME TypeOK, [Next]_vars
  PROVE  \/ Tick \/ CloseEpoch \/ CommitFact \/ UNCHANGED vars
         \/ \E w \in Worker : Claim(w) \/ CountSource(w) \/ WriteManifest(w)
         \/ \E w \in Worker, f \in File : ExportFile(w, f)
         \/ \E w \in Worker : Moves(w) \/ Writes(w)
         \/ Aside /\ UntouchedArchive /\ UNCHANGED <<workVars, historyVars, worker>>
         \/ Rewrites
<1>. DEFINE Kind ==
         \/ \E w \in Worker : Claim(w) \/ CountSource(w) \/ WriteManifest(w)
         \/ \E w \in Worker, f \in File : ExportFile(w, f)
         \/ \E w \in Worker : Moves(w) \/ Writes(w)
         \/ Aside /\ UntouchedArchive /\ UNCHANGED <<workVars, historyVars, worker>>
         \/ Rewrites
<1>1. ASSUME NEW w \in Worker, Export(w)
      PROVE  Kind
  <2>1. CASE CountSource(w) \/ WriteManifest(w) \/ \E f \in File : ExportFile(w, f)
    BY <2>1
  <2>2. ASSUME NEW f \in File, PublishFile(w, f)
        PROVE  Kind
    <3>1. CASE MayPublish(f, worker[w].entries[f])
      BY <2>2, <3>1, WritingSteps
    <3>2. CASE ~MayPublish(f, worker[w].entries[f])
      <4>1. UNCHANGED store
        BY <2>2, <3>2 DEF PublishFile
      <4>. QED
        BY <2>2, <4>1, MovingSteps
    <3>. QED
      BY <3>1, <3>2
  <2>3. CASE WriteSidecar(w)
    BY <2>3, WritingSteps
  <2>4. CASE VerifyExport(w) \/ ExportInterrupted(w) \/ Recheck(w)
    BY <2>4, MovingSteps
  <2>5. CASE MarkExported(w)
    <3>1. CASE Owns(w)
      BY <2>5, <3>1 DEF Rewrites
    <3>2. CASE ~Owns(w)
      BY <2>5, <3>2, MovingSteps
    <3>. QED
      BY <3>1, <3>2
  <2>6. CASE MarkVerified(w)
    <3>1. CASE VerifiesCatalog(w)
      BY <2>6, <3>1 DEF Rewrites
    <3>2. CASE ~VerifiesCatalog(w)
      BY <2>6, <3>2, MovingSteps
    <3>. QED
      BY <3>1, <3>2
  <2>7. CASE RecordPrimary(w)
    BY <2>7, RecordKinds DEF RecordPrimary, Role
  <2>8. CASE MarkFailed(w)
    <3>1. CASE scope.token = worker[w].token
      BY <2>8, <3>1 DEF Rewrites
    <3>2. CASE scope.token # worker[w].token
      <4>1. Exit(w) /\ UntouchedArchive /\ UNCHANGED <<workVars, historyVars>>
        BY <2>8, <3>2 DEF MarkFailed, UntouchedArchive
      <4>. QED
        BY <4>1, ExitAside DEF Moves
    <3>. QED
      BY <3>1, <3>2
  <2>. QED
    BY <1>1, <2>1, <2>2, <2>3, <2>4, <2>5, <2>6, <2>7, <2>8 DEF Export
<1>2. ASSUME NEW w \in Worker, CopyOut(w)
      PROVE  Kind
  <2>1. CASE BeginCopy(w) \/ BeginVerifyCopy(w) \/ CompareCopy(w)
    BY <2>1, MovingSteps
  <2>2. ASSUME NEW f \in File, CopyFile(w, f)
        PROVE  Kind
    <3>1. CASE MayPut(store["secondary"].files[f], store["primary"].files[f])
      BY <2>2, <3>1, WritingSteps
    <3>2. CASE ~MayPut(store["secondary"].files[f], store["primary"].files[f])
      <4>1. UNCHANGED store
        BY <2>2, <3>2 DEF CopyFile
      <4>. QED
        BY <2>2, <4>1, MovingSteps
    <3>. QED
      BY <3>1, <3>2
  <2>3. CASE CopySidecar(w)
    <3>1. CASE MayPut(store["secondary"].sidecar, store["primary"].sidecar)
      BY <2>3, <3>1, WritingSteps
    <3>2. CASE ~MayPut(store["secondary"].sidecar, store["primary"].sidecar)
      <4>1. Exit(w) /\ UNCHANGED store
        BY <2>3, <3>2 DEF CopySidecar
      <4>. QED
        BY <2>3, <4>1, MovingSteps
    <3>. QED
      BY <3>1, <3>2
  <2>4. CASE CopyManifest(w)
    <3>1. CASE MayPut(store["secondary"].manifest, store["primary"].manifest)
      BY <2>4, <3>1, WritingSteps
    <3>2. CASE ~MayPut(store["secondary"].manifest, store["primary"].manifest)
      <4>1. Exit(w) /\ UNCHANGED store
        BY <2>4, <3>2 DEF CopyManifest
      <4>. QED
        BY <2>4, <4>1, MovingSteps
    <3>. QED
      BY <3>1, <3>2
  <2>5. CASE RecordSecondary(w)
    BY <2>5, RecordKinds DEF RecordSecondary, Role
  <2>. QED
    BY <1>2, <2>1, <2>2, <2>3, <2>4, <2>5 DEF CopyOut
<1>3. ASSUME NEW w \in Worker, Kill(w)
      PROVE  Kind
  BY <1>3, MovingSteps
<1>4. ASSUME NEW days \in HotDays, EvaluateRetention(days)
      PROVE  Kind
  BY <1>4 DEF Rewrites
<1>5. ASSUME NEW w \in Worker, Claim(w)
      PROVE  Kind
  BY <1>5
<1>. HIDE DEF Kind
<1>6. Tick \/ CloseEpoch \/ CommitFact \/ UNCHANGED vars \/ Kind
  BY <1>1, <1>2, <1>3, <1>4, <1>5 DEF Next
<1>. QED
  BY <1>6 DEF Kind

LEMMA BaseStep == Base /\ [Next]_vars => Base'
<1>. SUFFICES ASSUME Base, [Next]_vars PROVE Base'
  OBVIOUS
<1>1. TypeOK
  BY DEF Base
<1>2. CASE Tick \/ CloseEpoch \/ CommitFact \/ UNCHANGED vars
  BY <1>2, OuterKeepsBase
<1>3. CASE \E w \in Worker : Claim(w) \/ CountSource(w) \/ WriteManifest(w)
  BY <1>3, ClaimKeepsBase, RecountKeepsBase, ManifestKeepsBase
<1>4. CASE \E w \in Worker, f \in File : ExportFile(w, f)
  BY <1>4, ExportKeepsBase
<1>5. CASE \E w \in Worker : Moves(w) \/ Writes(w)
  BY <1>5, AsideKeepsBase, WritingKeepsBase DEF Moves
<1>6. CASE Aside /\ UntouchedArchive /\ UNCHANGED <<workVars, historyVars, worker>>
  BY <1>6, AsideKeepsBase
<1>7. CASE Rewrites
  BY <1>7, RewritingKeepsBase
<1>. QED
  BY <1>1, <1>2, <1>3, <1>4, <1>5, <1>6, <1>7, StepKinds
-----------------------------------------------------------------------------
(* The inductive invariant: what holds as long as no command was overtaken. *)

\* The one who exports has the claim, and whoever is about to give up the claim is alone.
ClaimsFence ==
  /\ \A w \in Worker : worker[w].pc \in Fencing => scope.token = worker[w].token
  /\ (\E w \in Worker : Exporter(w)) => scope.state \notin {"absent", "failed"}
  /\ \A w \in Worker : worker[w].pc = "failing" /\ scope.token = worker[w].token =>
       \A v \in Worker : ~Exporter(v)

\* Once exported, nobody writes the primary archive again.
Current == scope.manifest = store["primary"].manifest /\ Verified(store["primary"])
Settled ==
  \/ scope.state \in VerifiedState \cup {"exported"}
  \/ \E w \in Worker : worker[w].pc \in {"rechecking", "marking_verified"}
SettledIsCurrent ==
  /\ Settled => Current /\ \A w \in Worker : worker[w].pc \notin Fencing
  /\ \A w \in Worker :
       /\ worker[w].pc \in {"verifying", "marking_exported", "marking_verified"} =>
            worker[w].manifest = store["primary"].manifest
       /\ worker[w].pc = "marking_exported" => Verified(store["primary"])

\* Manifests grow older in this order: a copy never runs ahead of what it copies, nor a
\* sidecar of its manifest.
NoLater(m, n) == m # None /\ n # None /\ m.claim <= n.claim
CopiesFollow ==
  /\ store["primary"].sidecar # None => NoLater(store["primary"].sidecar, store["primary"].manifest)
  /\ store["secondary"].manifest # None =>
       NoLater(store["secondary"].manifest, store["primary"].manifest)
  /\ \A w \in Worker :
       /\ worker[w].pc = "copying" => NoLater(worker[w].manifest, store["primary"].sidecar)
       /\ worker[w].pc = "recording_copy" =>
            /\ NoLater(worker[w].manifest, store["secondary"].sidecar)
            /\ NoLater(store["secondary"].sidecar, store["secondary"].manifest)

BackedUp ==
  HasCopy("secondary") =>
    Verified(store["secondary"]) /\ store["secondary"].manifest = scope.manifest

Guards == ClaimsFence /\ SettledIsCurrent /\ CopiesFollow /\ BackedUp
Guarded == ~overtaken => Guards

\* While a command is exporting nothing is settled, and nobody else is at work on the scope.
LEMMA FenceAlone ==
  ASSUME Base, Guards, NEW w \in Worker, worker[w].pc \in Fencing
  PROVE  /\ ~Settled /\ copies = {} /\ ~HasCopy("secondary")
         /\ scope.token = worker[w].token /\ scope.token = claims /\ scope.state = "exporting"
         /\ \A v \in Worker : v # w => ~Exporter(v)
<1>1. ~Settled
  BY DEF Guards, SettledIsCurrent
<1>2. scope.token = worker[w].token /\ worker[w].token # None
  BY DEF Base, Guards, ClaimsFence, TokensApart, Claiming
<1>3. \A v \in Worker : v # w => worker[v].pc \notin Fencing
  BY <1>2 DEF Base, Guards, ClaimsFence, TokensApart
<1>4. copies = {}
  BY <1>1 DEF Base, VerifiedScope, Settled
<1>. QED
  BY <1>1, <1>2, <1>3, <1>4 DEF Base, TokensApart, Exporter, Settled, HasCopy

\* What is found has a claim that is a number.
LEMMA FoundClaims ==
  ASSUME Base
  PROVE  /\ \A role \in Role :
              /\ store[role].manifest # None => store[role].manifest.claim \in 1 .. claims
              /\ store[role].sidecar # None => store[role].sidecar.claim \in 1 .. claims
         /\ \A w \in Worker : worker[w].manifest # None => worker[w].manifest.claim \in 1 .. claims
         /\ claims \in Nat
<1>1. \A role \in Role :
        /\ store[role].manifest # None =>
             store[role].manifest \in Manifest /\ Found(store[role].manifest)
        /\ store[role].sidecar # None =>
             store[role].sidecar \in Manifest /\ Found(store[role].sidecar)
  BY StoreTypes DEF Base, Found
<1>2. \A w \in Worker : worker[w].manifest # None =>
        worker[w].manifest \in Manifest /\ Found(worker[w].manifest)
  BY MemoryTypes DEF Base, Found
<1>. QED
  BY <1>1, <1>2 DEF Base, ManifestsOfClaims, TypeOK

LEMMA OuterKeepsGuards ==
  ASSUME Guards, UNCHANGED <<scope, copies, store, worker>>
  PROVE  Guards'
BY DEF Guards, ClaimsFence, Exporter, Settled, Current, SettledIsCurrent, CopiesFollow, NoLater,
   BackedUp, HasCopy, Verified, EntryVerified, ReferencesResolved

LEMMA VerifiedStays ==
  ASSUME NEW role \in Role, store'[role] = store[role]
  PROVE  Verified(store[role])' <=> Verified(store[role])
BY DEF Verified, EntryVerified, ReferencesResolved

LEMMA ClaimKeepsGuards ==
  ASSUME Base, Guards, NEW w \in Worker, Claim(w), ~overtaken'
  PROVE  Guards'
<1>1. /\ worker[w].pc = "idle" /\ Claimable /\ scope.state \notin VerifiedState
      /\ scope'.state = "exporting" /\ scope'.token = claims + 1
      /\ scope'.manifest = scope.manifest
      /\ UNCHANGED <<copies, store>> /\ ~OutlivedLease(w)
  BY ClaimBegins DEF Base, Claimable
<1>2. /\ \A v \in Worker : v # w => worker'[v] = worker[v]
      /\ worker'[w].token = claims + 1
      /\ \/ scope.state = "exported" /\ worker'[w].pc = "rechecking"
         \/ scope.state # "exported" /\ worker'[w].pc = "exporting"
  BY ClaimBegins DEF Base, Begins, Others
<1>3. \A v \in Worker : worker[v].token # claims + 1
  BY ConstantTypes DEF Base, TokensApart, TypeOK
<1>4. copies = {}
  BY <1>1 DEF Base, VerifiedScope
<1>5. CASE scope.state = "exported"
  <2>1. Current /\ \A v \in Worker : worker[v].pc \notin Fencing
    BY <1>5 DEF Guards, SettledIsCurrent, Settled
  <2>2. \A v \in Worker : worker'[v].pc \notin Fencing
    BY <1>2, <1>5, <2>1 DEF Fencing
  <2>3. ClaimsFence'
    BY <1>1, <1>2, <1>3, <1>5, <2>2 DEF ClaimsFence
  <2>4. SettledIsCurrent'
    BY <1>1, <1>2, <1>5, <2>1, <2>2 DEF Guards, SettledIsCurrent, Current, Verified, EntryVerified,
       ReferencesResolved
  <2>5. CopiesFollow' /\ BackedUp'
    BY <1>1, <1>2, <1>4, <1>5 DEF Guards, CopiesFollow, NoLater, BackedUp, HasCopy
  <2>. QED
    BY <2>3, <2>4, <2>5 DEF Guards
<1>6. CASE scope.state # "exported"
  <2>1. \A v \in Worker : ~Exporter(v)
    <3>1. CASE scope.state = "exporting"
      BY <1>1, <3>1 DEF Claimable, OutlivedLease, Exporter, Fencing
    <3>2. CASE scope.state \in {"absent", "failed"}
      BY <3>2 DEF Guards, ClaimsFence
    <3>. QED
      BY <1>1, <1>6, <3>1, <3>2 DEF Base, TypeOK, ScopeRow
  <2>2. \A v \in Worker : v # w =>
          worker'[v].pc \notin Fencing \cup {"rechecking", "marking_verified"}
    BY <1>2, <2>1 DEF Exporter
  <2>3. ClaimsFence'
    BY <1>1, <1>2, <1>3, <1>6, <2>2 DEF ClaimsFence
  <2>4. ~Settled'
    BY <1>1, <1>2, <1>6, <2>2 DEF Settled, VerifiedState
  <2>5. SettledIsCurrent'
    BY <1>2, <1>6, <2>2, <2>4 DEF SettledIsCurrent, Fencing
  <2>6. CopiesFollow' /\ BackedUp'
    BY <1>1, <1>2, <1>4, <1>6 DEF Guards, CopiesFollow, NoLater, BackedUp, HasCopy
  <2>. QED
    BY <2>3, <2>5, <2>6 DEF Guards
<1>. QED
  BY <1>5, <1>6

\* A command with the claim goes on exporting, or gives up.
LEMMA FencingKeepsGuards ==
  ASSUME Base, Guards, NEW w \in Worker,
         worker[w].pc \in Fencing,
         worker'[w].pc \in {"exporting", "counting", "publishing", "failing"},
         worker'[w].token = worker[w].token, Others(w), UNCHANGED <<scope, copies, store>>
  PROVE  Guards'
<1>1. /\ ~Settled /\ copies = {} /\ scope.token = worker[w].token
      /\ \A v \in Worker : v # w => ~Exporter(v)
      /\ scope.state = "exporting"
  BY FenceAlone
<1>2. \A v \in Worker : v # w => worker'[v] = worker[v]
  BY DEF Others
<1>3. \A v \in Worker : worker'[v].pc \in Fencing => worker[v].pc \in Fencing /\ v = w
  BY <1>1, <1>2 DEF Exporter
<1>4. ClaimsFence'
  BY <1>1, <1>2, <1>3 DEF Guards, ClaimsFence, Exporter, Fencing, Base, TokensApart
<1>5. ~Settled'
  BY <1>1, <1>2 DEF Settled
<1>6. SettledIsCurrent'
  BY <1>2, <1>5, <1>1 DEF SettledIsCurrent, Exporter, Fencing
<1>7. CopiesFollow' /\ BackedUp'
  BY <1>1, <1>2 DEF Guards, CopiesFollow, NoLater, BackedUp, HasCopy
<1>. QED
  BY <1>4, <1>6, <1>7 DEF Guards

LEMMA MovesKeepGuards ==
  ASSUME Base, Guards, NEW w \in Worker, Moves(w)
  PROVE  Guards'
<1>1. UNCHANGED <<scope, copies, store>>
  BY DEF Moves, UntouchedArchive
<1>2. \A v \in Worker : v # w => worker'[v] = worker[v]
  BY DEF Moves, GoesTo, Reads, Ends, Others
<1>3. /\ Verified(store["primary"])' <=> Verified(store["primary"])
      /\ Verified(store["secondary"])' <=> Verified(store["secondary"])
  BY <1>1, VerifiedStays DEF Role
<1>4. CASE worker[w].pc \in Fencing /\ GoesTo(w, "failing")
  BY <1>1, <1>4, FencingKeepsGuards DEF GoesTo
<1>5. CASE worker[w].pc = "marking_verified" /\ ~VerifiesCatalog(w)
  BY <1>5 DEF Guards, SettledIsCurrent, Settled, Current, Verified, VerifiesCatalog
<1>6. ASSUME \A v \in Worker : Exporter(v)' => Exporter(v),
             \A v \in Worker : worker'[v].pc \in Fencing =>
               worker[v].pc \in Fencing /\ worker'[v].token = worker[v].token,
             worker'[w].pc # "failing",
             worker'[w].pc \in {"rechecking", "marking_verified"} => worker[w].pc = "rechecking",
             worker'[w].pc \in {"verifying", "marking_exported", "marking_verified"} =>
               worker'[w].manifest = store["primary"].manifest,
             worker'[w].pc = "marking_exported" => Verified(store["primary"]),
             worker'[w].pc = "copying" => NoLater(worker'[w].manifest, store["primary"].sidecar),
             worker'[w].pc = "recording_copy" =>
               /\ NoLater(worker'[w].manifest, store["secondary"].sidecar)
               /\ NoLater(store["secondary"].sidecar, store["secondary"].manifest)
      PROVE  Guards'
  <2>1. ClaimsFence'
    BY <1>1, <1>2, <1>6 DEF Guards, ClaimsFence
  <2>2. Settled' => Settled
    BY <1>1, <1>2, <1>6 DEF Settled
  <2>3. SettledIsCurrent'
    BY <1>1, <1>2, <1>3, <1>6, <2>2 DEF Guards, SettledIsCurrent, Current
  <2>4. CopiesFollow' /\ BackedUp'
    BY <1>1, <1>2, <1>3, <1>6 DEF Guards, CopiesFollow, NoLater, BackedUp, HasCopy
  <2>. QED
    BY <2>1, <2>3, <2>4 DEF Guards
<1>7. CASE /\ worker[w].pc = "verifying" /\ GoesTo(w, "marking_exported")
           /\ Verified(store["primary"])
  <2>1. worker[w].manifest = store["primary"].manifest
    BY <1>7 DEF Guards, SettledIsCurrent
  <2>. QED
    BY <1>2, <1>6, <1>7, <2>1 DEF GoesTo, Exporter, Fencing
<1>8. CASE worker[w].pc = "rechecking" /\ Reads(w, "marking_verified")
  BY <1>2, <1>6, <1>8 DEF Reads, Exporter, Fencing
<1>9. CASE /\ worker[w].pc = "idle" /\ (Reads(w, "copying") \/ Reads(w, "comparing"))
           /\ Verified(store["primary"])
  <2>1. NoLater(store["primary"].manifest, store["primary"].sidecar)
    BY <1>9, FoundClaims DEF Verified, NoLater, Role
  <2>. QED
    BY <1>2, <1>6, <1>9, <2>1 DEF Reads, Exporter, Fencing
<1>10. CASE worker[w].pc = "comparing" /\ GoesTo(w, "recording_copy") /\ CopyEqual(w)
  <2>1. /\ NoLater(worker[w].manifest, store["secondary"].sidecar)
        /\ NoLater(store["secondary"].sidecar, store["secondary"].manifest)
    BY <1>10, FoundClaims DEF CopyEqual, Verified, NoLater, Role
  <2>. QED
    BY <1>2, <1>6, <1>10, <2>1 DEF GoesTo, Exporter, Fencing
<1>11. CASE Ends(w)
  BY <1>2, <1>6, <1>11 DEF Ends, Exporter, Fencing
<1>. QED
  BY <1>4, <1>5, <1>7, <1>8, <1>9, <1>10, <1>11 DEF Moves

\* Nothing is settled while the primary archive is written.
LEMMA PrimaryKeepsGuards ==
  ASSUME Base, Guards, NEW w \in Worker, worker[w].pc \in Fencing,
         worker'[w].pc \in Fencing \ {"marking_exported"}, worker'[w].token = worker[w].token,
         worker'[w].pc = "verifying" => worker'[w].manifest = store'["primary"].manifest,
         Others(w), UNCHANGED <<scope, copies>>,
         CopiesFollow'
  PROVE  Guards'
<1>1. /\ ~Settled /\ copies = {} /\ scope.token = worker[w].token
      /\ \A v \in Worker : v # w => ~Exporter(v)
      /\ scope.state = "exporting"
  BY FenceAlone
<1>2. \A v \in Worker : v # w => worker'[v] = worker[v]
  BY DEF Others
<1>3. worker'[w].pc \notin {"rechecking", "marking_verified", "failing"}
  BY DEF Fencing
<1>4. ClaimsFence'
  <2>1. \A v \in Worker : worker'[v].pc = "failing" => worker'[v].token # scope'.token
    BY <1>1, <1>2, <1>3 DEF Base, TokensApart, Claiming
  <2>2. \A v \in Worker : worker'[v].pc \in Fencing => scope'.token = worker'[v].token
    BY <1>1, <1>2 DEF Exporter
  <2>. QED
    BY <1>1, <2>1, <2>2 DEF ClaimsFence
<1>5. ~Settled'
  BY <1>1, <1>2, <1>3 DEF Settled
<1>6. SettledIsCurrent'
  <2>1. \A v \in Worker : v # w =>
          worker'[v].pc \notin {"verifying", "marking_exported", "marking_verified"}
    BY <1>1, <1>2 DEF Exporter, Fencing
  <2>. QED
    BY <1>3, <1>5, <2>1 DEF SettledIsCurrent
<1>7. BackedUp'
  BY <1>1 DEF BackedUp, HasCopy
<1>. QED
  BY <1>4, <1>6, <1>7 DEF Guards

LEMMA ManifestKeepsGuards ==
  ASSUME Base, Guards, NEW w \in Worker, WriteManifest(w)
  PROVE  Guards'
<1>. DEFINE new == NewManifest(w)
<1>1. /\ worker[w].pc = "publishing" /\ GoesTo(w, "sidecar")
      /\ new \in Manifest /\ new.claim = worker[w].token
      /\ PutsManifest("primary", new)
      /\ UNCHANGED <<workVars, scope, copies, historyVars>>
  BY ManifestWritten
<1>. HIDE DEF new
<1>2. new.claim = claims /\ new # None
  BY <1>1, FenceAlone, ConstantTypes DEF Fencing
<1>3. /\ store'["primary"].manifest = new /\ store'["primary"].sidecar = store["primary"].sidecar
      /\ store'["secondary"] = store["secondary"]
  BY <1>1 DEF PutsManifest, Role
<1>4. CopiesFollow'
  <2>1. /\ store["primary"].sidecar # None => NoLater(store["primary"].sidecar, new)
        /\ store["secondary"].manifest # None => NoLater(store["secondary"].manifest, new)
    BY <1>2, FoundClaims DEF NoLater, Role
  <2>2. \A v \in Worker : worker'[v].pc \in {"copying", "recording_copy"} => worker'[v] = worker[v]
    BY <1>1 DEF GoesTo, Others
  <2>. QED
    BY <1>3, <2>1, <2>2 DEF Guards, CopiesFollow, NoLater
<1>. QED
  BY <1>1, <1>4, PrimaryKeepsGuards DEF GoesTo, Fencing

\* Commands only copy, and the secondary copy keeps what it had.
LEMMA SecondaryKeepsGuards ==
  ASSUME Base, Guards, NEW w \in Worker, worker[w].pc = "copying",
         worker'[w].pc \in {"copying", "comparing", "recording_copy"}, Others(w),
         UNCHANGED <<scope, copies>>, store'["primary"] = store["primary"],
         CopiesFollow',
         Verified(store["secondary"]) =>
           /\ Verified(store["secondary"])'
           /\ store'["secondary"].manifest = store["secondary"].manifest
  PROVE  Guards'
<1>1. \A v \in Worker : v # w => worker'[v] = worker[v]
  BY DEF Others
<1>2. Verified(store["primary"])' <=> Verified(store["primary"])
  BY VerifiedStays DEF Role
<1>3. \A v \in Worker : worker'[v].pc \in Claiming => worker'[v] = worker[v]
  BY <1>1 DEF Claiming, Fencing
<1>4. \A v \in Worker : Exporter(v)' <=> Exporter(v)
  BY <1>1 DEF Exporter, Fencing
<1>5. ClaimsFence'
  BY <1>3, <1>4 DEF Guards, ClaimsFence, Claiming
<1>6. Settled' => Settled
  BY <1>1 DEF Settled
<1>7. SettledIsCurrent'
  BY <1>2, <1>3, <1>6 DEF Guards, SettledIsCurrent, Current, Claiming, Fencing
<1>8. BackedUp'
  BY DEF Guards, BackedUp, HasCopy
<1>. QED
  BY <1>5, <1>7, <1>8 DEF Guards

LEMMA WritesKeepGuards ==
  ASSUME Base, Guards, NEW w \in Worker, Writes(w)
  PROVE  Guards'
<1>. DEFINE primary == store["primary"]
            secondary == store["secondary"]
<1>1. UNCHANGED <<scope, copies>> /\ "primary" \in Role /\ "secondary" \in Role
  BY DEF Writes, Role
<1>2. ASSUME UNCHANGED worker, \A role \in Role : /\ store'[role].manifest = store[role].manifest
                                                  /\ store'[role].sidecar = store[role].sidecar
      PROVE  CopiesFollow'
  BY <1>1, <1>2 DEF Guards, CopiesFollow, NoLater
<1>3. ASSUME UNCHANGED worker, worker[w].pc = "publishing",
             NEW f \in File, PutsFile("primary", f, worker[w].entries[f])
      PROVE  Guards'
  <2>1. CopiesFollow'
    BY <1>1, <1>2, <1>3 DEF PutsFile
  <2>. QED
    BY <1>1, <1>3, <2>1, PrimaryKeepsGuards DEF Others, Fencing
<1>4. ASSUME worker[w].pc = "sidecar", Reads(w, "verifying"),
             PutsSidecar("primary", primary.manifest)
      PROVE  Guards'
  <2>1. /\ store'["primary"].manifest = primary.manifest
        /\ store'["primary"].sidecar = primary.manifest
        /\ store'["secondary"] = secondary
    BY <1>1, <1>4 DEF PutsSidecar
  <2>2. \A v \in Worker : worker'[v].pc \in {"copying", "recording_copy"} => worker'[v] = worker[v]
    BY <1>4 DEF Reads, Others
  <2>3. primary.manifest # None => primary.manifest.claim \in Nat
    BY <1>1, FoundClaims
  <2>4. \A v \in Worker : worker[v].pc = "copying" =>
          NoLater(worker[v].manifest, primary.sidecar) /\ NoLater(primary.sidecar, primary.manifest)
    BY DEF Guards, CopiesFollow, NoLater
  <2>5. \A v \in Worker : worker[v].pc = "copying" => NoLater(worker[v].manifest, primary.manifest)
    <3>1. claims \in Nat /\ primary.sidecar # None => primary.sidecar.claim \in 1 .. claims
      BY <1>1, FoundClaims
    <3>2. \A v \in Worker : worker[v].manifest # None => worker[v].manifest.claim \in 1 .. claims
      BY FoundClaims
    <3>. QED
      BY <2>3, <2>4, <3>1, <3>2, FoundClaims DEF NoLater
  <2>6. CopiesFollow'
    BY <2>1, <2>2, <2>3, <2>5 DEF Guards, CopiesFollow, NoLater
  <2>. QED
    BY <1>1, <1>4, <2>1, <2>6, PrimaryKeepsGuards DEF Reads, Fencing
<1>5. ASSUME UNCHANGED worker, worker[w].pc = "copying",
             NEW f \in File, PutsFile("secondary", f, primary.files[f])
      PROVE  Guards'
  <2>1. CopiesFollow'
    BY <1>1, <1>2, <1>5 DEF PutsFile
  <2>2. store'["primary"] = primary
    BY <1>1, <1>5 DEF PutsFile
  <2>3. ASSUME Verified(secondary)
        PROVE  Verified(secondary)' /\ store'["secondary"].manifest = secondary.manifest
    <3>1. secondary.files[f] # None
      BY <2>3 DEF Verified, EntryVerified
    <3>2. store'["secondary"].files = secondary.files
      BY <1>1, <1>5, <3>1, StoreTypes DEF PutsFile, Base
    <3>3. /\ store'["secondary"].manifest = secondary.manifest
          /\ store'["secondary"].sidecar = secondary.sidecar
      BY <1>5 DEF PutsFile
    <3>. QED
      BY <2>3, <3>2, <3>3 DEF Verified, EntryVerified, ReferencesResolved
  <2>. QED
    BY <1>1, <1>5, <2>1, <2>2, <2>3, SecondaryKeepsGuards DEF Others
<1>6. ASSUME UNCHANGED worker, worker[w].pc = "copying", MayPut(secondary.sidecar, primary.sidecar),
             PutsSidecar("secondary", primary.sidecar)
      PROVE  Guards'
  <2>1. /\ store'["primary"] = primary /\ store'["secondary"].sidecar = primary.sidecar
        /\ store'["secondary"].manifest = secondary.manifest
        /\ store'["secondary"].files = secondary.files
    BY <1>1, <1>6 DEF PutsSidecar
  <2>2. secondary.sidecar # None => store'["secondary"].sidecar = secondary.sidecar
    BY <1>6, <2>1 DEF MayPut
  <2>3. CopiesFollow'
    BY <1>6, <2>1, <2>2 DEF Guards, CopiesFollow, NoLater
  <2>4. ASSUME Verified(secondary)
        PROVE  Verified(secondary)'
    <3>1. store'["secondary"].sidecar = secondary.sidecar
      BY <2>2, <2>4 DEF Verified
    <3>. QED
      BY <2>1, <2>4, <3>1 DEF Verified, EntryVerified, ReferencesResolved
  <2>. QED
    BY <1>1, <1>6, <2>1, <2>3, <2>4, SecondaryKeepsGuards DEF Others
<1>7. ASSUME worker[w].pc = "copying", ReadyForCopiedManifest,
             GoesTo(w, "comparing") \/ GoesTo(w, "recording_copy"),
             MayPut(secondary.manifest, primary.manifest),
             PutsManifest("secondary", primary.manifest)
      PROVE  Guards'
  <2>1. /\ store'["primary"] = primary /\ store'["secondary"].manifest = primary.manifest
        /\ store'["secondary"].sidecar = secondary.sidecar
        /\ store'["secondary"].files = secondary.files
    BY <1>1, <1>7 DEF PutsManifest
  <2>2. secondary.manifest # None => store'["secondary"].manifest = secondary.manifest
    BY <1>7, <2>1 DEF MayPut
  <2>3. CopiesFollow'
    <3>1. primary.manifest # None => NoLater(primary.manifest, primary.manifest)
      BY <1>1, FoundClaims DEF NoLater
    <3>2. /\ NoLater(worker[w].manifest, primary.sidecar)
          /\ NoLater(primary.sidecar, primary.manifest)
          /\ secondary.sidecar = primary.sidecar
      BY <1>7 DEF Guards, CopiesFollow, NoLater, ReadyForCopiedManifest
    <3>3. \A v \in Worker : v # w => worker'[v] = worker[v]
      BY <1>7 DEF GoesTo, Others
    <3>4. worker'[w].pc # "copying" /\ worker'[w].manifest = worker[w].manifest
      BY <1>7 DEF GoesTo
    <3>. QED
      BY <2>1, <2>2, <3>1, <3>2, <3>3, <3>4 DEF Guards, CopiesFollow, NoLater
  <2>4. ASSUME Verified(secondary)
        PROVE  Verified(secondary)' /\ store'["secondary"].manifest = secondary.manifest
    <3>1. store'["secondary"].manifest = secondary.manifest
      BY <2>2, <2>4 DEF Verified
    <3>. QED
      BY <2>1, <2>4, <3>1 DEF Verified, EntryVerified, ReferencesResolved
  <2>. QED
    BY <1>1, <1>7, <2>1, <2>3, <2>4, SecondaryKeepsGuards DEF GoesTo
<1>. QED
  BY <1>3, <1>4, <1>5, <1>6, <1>7 DEF Writes

\* The row changes, the archive does not: what is settled stays so.
LEMMA RowKeepsGuards ==
  ASSUME Base, Guards, NEW w \in Worker, Others(w),
         worker'[w].pc \in {"idle", "marking_verified", "recording"} \/ worker'[w] = worker[w],
         worker'[w].pc = "marking_verified" => worker'[w].manifest = worker[w].manifest,
         UNCHANGED <<store, claims>>, scope'.token = None,
         \A v \in Worker : worker[v].pc \in Fencing => v = w /\ worker'[w].pc \notin Fencing,
         (\E v \in Worker : Exporter(v)') => scope'.state # "failed", scope'.state # "absent",
         Settled' => Current',
         worker'[w].pc = "marking_verified" => scope'.manifest = worker'[w].manifest,
         BackedUp'
  PROVE  Guards'
<1>1. \A v \in Worker : v # w => worker'[v] = worker[v]
  BY DEF Others
<1>2. \A v \in Worker : worker'[v].pc \notin Fencing
  BY <1>1 DEF Fencing
<1>3. ClaimsFence'
  <2>1. \A v \in Worker : worker'[v].pc = "failing" => worker'[v].token # None
    BY <1>1 DEF Base, TokensApart, Claiming
  <2>. QED
    BY <1>2, <2>1 DEF ClaimsFence
<1>4. SettledIsCurrent'
  <2>1. \A v \in Worker : worker'[v].pc = "marking_verified" =>
          worker'[v].manifest = store'["primary"].manifest
    BY <1>1 DEF Guards, SettledIsCurrent, Settled, Current
  <2>. QED
    BY <1>2, <2>1 DEF SettledIsCurrent, Fencing
<1>5. CopiesFollow'
  BY <1>1 DEF Guards, CopiesFollow, NoLater
<1>. QED
  BY <1>3, <1>4, <1>5 DEF Guards

LEMMA ExportedKeepsGuards ==
  ASSUME Base, Guards, NEW w \in Worker, MarkExported(w), Owns(w)
  PROVE  Guards'
<1>1. /\ worker[w].pc = "marking_exported" /\ GoesTo(w, "marking_verified")
      /\ scope'.state = "exported" /\ scope'.manifest = worker[w].manifest /\ scope'.token = None
      /\ UNCHANGED <<copies, store, claims>>
  BY ExportedEffect DEF Sets, historyVars
<1>2. /\ ~HasCopy("secondary") /\ \A v \in Worker : v # w => ~Exporter(v)
  BY <1>1, FenceAlone DEF Fencing
<1>3. worker[w].manifest = store["primary"].manifest /\ Verified(store["primary"])
  BY <1>1 DEF Guards, SettledIsCurrent
<1>4. Current'
  BY <1>1, <1>3 DEF Current, Verified, EntryVerified, ReferencesResolved
<1>5. BackedUp'
  BY <1>1, <1>2 DEF BackedUp, HasCopy
<1>6. \A v \in Worker : worker[v].pc \in Fencing => v = w
  BY <1>2 DEF Exporter
<1>. QED
  BY <1>1, <1>4, <1>5, <1>6, RowKeepsGuards DEF GoesTo, Fencing

LEMMA VerifiedKeepsGuards ==
  ASSUME Base, Guards, NEW w \in Worker, MarkVerified(w), VerifiesCatalog(w)
  PROVE  Guards'
<1>1. /\ worker[w].pc = "marking_verified" /\ GoesTo(w, "recording")
      /\ scope'.state = "verified" /\ scope'.manifest = scope.manifest /\ scope'.token = None
      /\ UNCHANGED <<copies, store, claims>>
  BY VerifiedEffect DEF Sets, historyVars
<1>2. Current /\ \A v \in Worker : worker[v].pc \notin Fencing
  BY <1>1 DEF Guards, SettledIsCurrent, Settled
<1>3. Current' /\ BackedUp'
  BY <1>1, <1>2 DEF Current, Verified, EntryVerified, ReferencesResolved, Guards, BackedUp, HasCopy
<1>. QED
  BY <1>1, <1>2, <1>3, RowKeepsGuards DEF GoesTo

\* What was copied is what is verified: between the two nothing can have become newer.
LEMMA CopiedManifest ==
  ASSUME Base, Guards, NEW w \in Worker, worker[w].pc = "recording_copy",
         Recordable(worker[w].manifest)
  PROVE  Verified(store["secondary"]) /\ store["secondary"].manifest = scope.manifest
<1>. DEFINE primary == store["primary"]
            secondary == store["secondary"]
<1>1. scope.manifest = worker[w].manifest /\ scope.manifest = primary.manifest /\ Verified(primary)
  BY DEF Recordable, Guards, SettledIsCurrent, Settled, Current
<1>2. /\ NoLater(worker[w].manifest, secondary.sidecar)
      /\ NoLater(secondary.sidecar, secondary.manifest)
      /\ NoLater(secondary.manifest, primary.manifest)
  BY DEF Guards, CopiesFollow, NoLater
<1>3. "primary" \in Role /\ "secondary" \in Role
  BY DEF Role
<1>4. /\ primary.manifest.claim \in Nat /\ secondary.manifest.claim \in Nat
      /\ secondary.sidecar.claim \in Nat
  BY <1>2, <1>3, FoundClaims DEF NoLater
<1>5. /\ secondary.manifest.claim = primary.manifest.claim
      /\ secondary.sidecar.claim = primary.manifest.claim
  BY <1>1, <1>2, <1>4 DEF NoLater
<1>6. /\ primary.manifest \in Manifest /\ Found(primary.manifest)
      /\ secondary.manifest \in Manifest /\ Found(secondary.manifest)
      /\ secondary.sidecar \in Manifest /\ Found(secondary.sidecar)
  BY <1>2, <1>3, StoreTypes DEF NoLater, Base, Found
<1>7. secondary.manifest = primary.manifest /\ secondary.sidecar = primary.manifest
  BY <1>5, <1>6 DEF Base, ManifestsOfClaims
<1>8. \A f \in File : secondary.files[f] = primary.manifest.entries[f]
  BY <1>6, <1>7, ConstantTypes DEF Base, ManifestLast
<1>9. \A f \in File : primary.manifest.entries[f] # None
  BY <1>6 DEF Base, ManifestsOfClaims, Counted
<1>. QED
  BY <1>1, <1>6, <1>7, <1>8, <1>9, ConstantTypes DEF Verified, EntryVerified

LEMMA RecordKeepsGuards ==
  ASSUME Base, Guards, NEW w \in Worker, NEW role \in Role,
         role = "secondary" => worker[w].pc = "recording_copy",
         RecordCopy(w, role), Recordable(worker[w].manifest)
  PROVE  Guards'
<1>1. /\ scope.state \in VerifiedState /\ scope'.manifest = scope.manifest /\ scope'.token = None
      /\ scope'.state \in {scope.state, "independently_copied"}
      /\ copies' = copies \cup {[role |-> role, manifest |-> scope.manifest]}
      /\ Ends(w) /\ UNCHANGED <<store, claims>>
  BY RecordEffect DEF Sets, historyVars
<1>2. Current /\ \A v \in Worker : worker[v].pc \notin Fencing
  BY <1>1 DEF Guards, SettledIsCurrent, Settled
<1>3. Current'
  BY <1>1, <1>2 DEF Current, Verified, EntryVerified, ReferencesResolved
<1>4. BackedUp'
  <2>1. HasCopy("secondary")' => HasCopy("secondary") \/ role = "secondary"
    BY <1>1 DEF HasCopy
  <2>2. HasCopy("secondary") \/ role = "secondary" =>
          Verified(store["secondary"]) /\ store["secondary"].manifest = scope.manifest
    BY CopiedManifest DEF Guards, BackedUp
  <2>. QED
    BY <1>1, <2>1, <2>2 DEF BackedUp, Verified, EntryVerified, ReferencesResolved
<1>5. scope'.state \notin {"failed", "absent"}
  BY <1>1 DEF VerifiedState
<1>. QED
  BY <1>1, <1>2, <1>3, <1>4, <1>5, RowKeepsGuards DEF Ends

LEMMA FailedKeepsGuards ==
  ASSUME Base, Guards, NEW w \in Worker, MarkFailed(w), scope.token = worker[w].token
  PROVE  Guards'
<1>1. /\ worker[w].pc = "failing" /\ scope.state = "exporting" /\ Ends(w)
      /\ scope'.state = "failed" /\ scope'.token = None /\ UNCHANGED <<copies, store, claims>>
  BY FailedEffect DEF Sets, historyVars
<1>2. \A v \in Worker : ~Exporter(v)
  BY <1>1 DEF Guards, ClaimsFence
<1>3. \A v \in Worker : ~Exporter(v)'
  BY <1>1, <1>2 DEF Exporter, Fencing, Ends, Others
<1>4. ~Settled' /\ BackedUp'
  <2>1. copies = {}
    BY <1>1 DEF Base, VerifiedScope, VerifiedState
  <2>. QED
    BY <1>1, <1>3, <2>1 DEF Settled, VerifiedState, Exporter, BackedUp, HasCopy
<1>. QED
  BY <1>1, <1>2, <1>3, <1>4, RowKeepsGuards DEF Ends, Exporter

LEMMA RetentionKeepsGuards ==
  ASSUME Base, Guards, NEW days \in HotDays, EvaluateRetention(days)
  PROVE  Guards'
<1>1. /\ scope.state \in VerifiedState /\ scope'.state = "retention_eligible"
      /\ scope'.manifest = scope.manifest /\ scope'.token = None
      /\ UNCHANGED <<copies, store, worker>>
  BY RetentionEffect DEF Sets
<1>2. scope.token = None
  BY <1>1, VerifiedUnclaimed DEF VerifiedState
<1>3. ClaimsFence' /\ CopiesFollow' /\ BackedUp'
  BY <1>1, <1>2 DEF Guards, ClaimsFence, Exporter, CopiesFollow, NoLater, BackedUp, HasCopy,
     Verified, EntryVerified, ReferencesResolved
<1>4. SettledIsCurrent'
  BY <1>1 DEF Guards, SettledIsCurrent, Settled, Current, Verified, EntryVerified,
     ReferencesResolved
<1>. QED
  BY <1>3, <1>4 DEF Guards

IInv == Base /\ Guarded

LEMMA Initially == Init => IInv
<1>. SUFFICES ASSUME Init PROVE IInv
  OBVIOUS
<1>1. Base
  BY InitiallyBase
<1>2. /\ \A w \in Worker : worker[w].pc = "idle"
      /\ scope.state = "absent" /\ copies = {}
      /\ \A role \in Role : store[role].manifest = None /\ store[role].sidecar = None
  BY IdleMemory DEF Init, EmptyStore, Role
<1>3. Guards
  BY <1>2 DEF Guards, ClaimsFence, Settled, SettledIsCurrent, CopiesFollow, BackedUp, HasCopy,
     Exporter, Fencing, VerifiedState, Role
<1>. QED
  BY <1>1, <1>3 DEF IInv, Guarded

LEMMA Inductive == IInv /\ [Next]_vars => IInv'
<1>. SUFFICES ASSUME IInv, [Next]_vars PROVE IInv'
  OBVIOUS
<1>1. Base /\ Base' /\ TypeOK
  BY BaseStep DEF IInv, Base
<1>2. SUFFICES ASSUME ~overtaken' PROVE Guards'
  BY <1>1 DEF IInv, Guarded
<1>3. ASSUME overtaken' = overtaken
      PROVE  Guards
  BY <1>2, <1>3 DEF IInv, Guarded
<1>4. CASE Tick \/ CloseEpoch \/ CommitFact \/ UNCHANGED vars
  <2>1. UNCHANGED <<scope, copies, store, worker, overtaken>>
    BY <1>4 DEF Tick, CloseEpoch, CommitFact, vars, historyVars
  <2>. QED
    BY <1>3, <2>1, OuterKeepsGuards
<1>5. ASSUME NEW w \in Worker, Claim(w) PROVE Guards'
  <2>1. ~overtaken
    BY <1>2, <1>5 DEF Claim
  <2>. QED
    BY <1>1, <1>2, <1>5, <2>1, ClaimKeepsGuards DEF IInv, Guarded
<1>6. ASSUME NEW w \in Worker, CountSource(w) PROVE Guards'
  <2>. DEFINE next == IF SourceCountsMatch(worker[w].entries) THEN "publishing" ELSE "failing"
  <2>1. worker[w].pc = "counting" /\ Step(w, next) /\ UNCHANGED <<scope, copies, store, overtaken>>
    BY <1>6 DEF CountSource
  <2>2. GoesTo(w, next)
    BY <1>1, <2>1, StepGoes DEF Pc
  <2>. QED
    BY <1>1, <1>3, <2>1, <2>2, FencingKeepsGuards DEF GoesTo, Fencing
<1>7. ASSUME NEW w \in Worker, WriteManifest(w) PROVE Guards'
  BY <1>1, <1>3, <1>7, ManifestKeepsGuards DEF WriteManifest, historyVars
<1>8. ASSUME NEW w \in Worker, NEW f \in File, ExportFile(w, f) PROVE Guards'
  <2>1. worker[w].layout # None
    BY <1>1, <1>8 DEF Base, EntriesOfSource, ExportFile
  <2>2. Exports(w, f) /\ UNCHANGED <<scope, copies, store, overtaken>>
    BY <1>1, <1>8, <2>1, ExportExports DEF historyVars
  <2>. QED
    BY <1>1, <1>3, <2>2, FencingKeepsGuards DEF Exports, Fencing
<1>9. ASSUME NEW w \in Worker, Moves(w) PROVE Guards'
  BY <1>1, <1>3, <1>9, MovesKeepGuards DEF Moves, historyVars
<1>10. ASSUME NEW w \in Worker, Writes(w) PROVE Guards'
  BY <1>1, <1>3, <1>10, WritesKeepGuards DEF Writes, historyVars
<1>11. CASE Aside /\ UntouchedArchive /\ UNCHANGED <<workVars, historyVars, worker>>
  BY <1>3, <1>11, OuterKeepsGuards DEF UntouchedArchive, historyVars
<1>12. CASE Rewrites
  <2>1. overtaken' = overtaken
    BY <1>12 DEF Rewrites, MarkExported, MarkVerified, RecordCopy, MarkFailed, EvaluateRetention,
       historyVars
  <2>. QED
    BY <1>1, <1>3, <1>12, <2>1, ExportedKeepsGuards, VerifiedKeepsGuards, RecordKeepsGuards,
       FailedKeepsGuards, RetentionKeepsGuards DEF Rewrites
<1>. QED
  BY <1>1, <1>4, <1>5, <1>6, <1>7, <1>8, <1>9, <1>10, <1>11, <1>12, StepKinds

LEMMA Invariant == Spec => []IInv
<1>1. Init => IInv
  BY Initially
<1>2. IInv /\ [Next]_vars => IInv'
  BY Inductive
<1>. QED
  BY <1>1, <1>2, PTL DEF Spec
-----------------------------------------------------------------------------
(* What this says of the archive.                                          *)

\* The scope, its claims and both archives are consistent: manifests are written last, and
\* what the catalog calls verified is what the primary archive holds (archival.py,
\* archive_catalog.py, archive_storage.py).
THEOREM ArchiveStaysConsistent == Spec => []ArchiveConsistent
<1>1. IInv => ArchiveConsistent
  BY DEF IInv, Base, Guarded, Guards, SettledIsCurrent, Settled, Current, ArchiveConsistent,
     CatalogMatchesArchive
<1>. QED
  BY <1>1, Invariant, PTL

\* A manifest the catalog names has every fact that was committed when its exporter
\* recounted the source, and every dimension they refer to (_verify_source_counts): equal
\* counts are equal rows, as what was exported was read from what is never deleted.
THEOREM ArchiveComplete == Spec => []NoCountedFactMissing
<1>1. IInv => NoCountedFactMissing
  <2>. SUFFICES ASSUME IInv, scope.manifest # None
                PROVE  Counted(scope.manifest.entries, counted[scope.manifest.claim])
    BY DEF NoCountedFactMissing, Counted
  <2>1. scope.manifest \in Manifest /\ Found(scope.manifest)
    BY DEF IInv, Base, TypeOK, ScopeRow, Found
  <2>. QED
    BY <2>1 DEF IInv, Base, ManifestsOfClaims
<1>. QED
  BY <1>1, Invariant, PTL

\* A scope is eligible for deletion only with a complete secondary copy of the manifest the
\* catalog verified, unless an exporter outlived its lease (evaluate_retention_eligibility).
THEOREM EligibleHasCopy == Spec => []EligibleIsBackedUp
<1>1. IInv => EligibleIsBackedUp
  <2>. SUFFICES ASSUME IInv, scope.state = "retention_eligible", ~overtaken
                PROVE  /\ valid /\ closed /\ DeletionEvidence
                       /\ Verified(store["secondary"])
                       /\ store["secondary"].manifest = scope.manifest
    BY DEF EligibleIsBackedUp
  <2>1. scope.verified /\ valid /\ closed /\ HasCopy("secondary")
    BY DEF IInv, Base, VerifiedScope, VerifiedState
  <2>2. DeletionEvidence
    BY <2>1 DEF IInv, Base, VerifiedScope, HasCopy, DeletionEvidence
  <2>3. Verified(store["secondary"]) /\ store["secondary"].manifest = scope.manifest
    BY <2>1 DEF IInv, Guarded, Guards, BackedUp
  <2>. QED
    BY <2>1, <2>2, <2>3
<1>. QED
  BY <1>1, Invariant, PTL

FilesKept ==
  \A role \in Role, f \in File :
    store[role].files[f] # None => store'[role].files[f] = store[role].files[f]
VerifiedKept ==
  scope.state \in VerifiedState =>
    scope'.state \in VerifiedState /\ scope'.manifest = scope.manifest

LEMMA WritesKeepFiles ==
  ASSUME TypeOK, NEW place \in Role,
         \/ \E f \in File : \E bytes : PutsFile(place, f, bytes)
         \/ \E manifest : PutsManifest(place, manifest)
         \/ \E sidecar : PutsSidecar(place, sidecar)
  PROVE  FilesKept
<1>1. CASE \/ \E manifest : PutsManifest(place, manifest)
           \/ \E sidecar : PutsSidecar(place, sidecar)
  BY <1>1 DEF PutsManifest, PutsSidecar, FilesKept
<1>2. ASSUME NEW f \in File, NEW bytes, PutsFile(place, f, bytes)
      PROVE  FilesKept
  <2>1. store[place].files \in [File -> Bytes \cup {None}]
    BY StoreTypes
  <2>2. \A g \in File : store[place].files[g] # None =>
          store'[place].files[g] = store[place].files[g]
    BY <1>2, <2>1 DEF PutsFile
  <2>. QED
    BY <1>2, <2>2 DEF PutsFile, FilesKept
<1>. QED
  BY <1>1, <1>2

LEMMA StepKeepsArchive ==
  ASSUME Base, [Next]_vars
  PROVE  FilesKept /\ VerifiedKept
<1>1. TypeOK /\ "primary" \in Role /\ "secondary" \in Role
  BY DEF Base, Role
<1>2. CASE UNCHANGED <<scope, store>>
  BY <1>2 DEF FilesKept, VerifiedKept
<1>3. CASE Tick \/ CloseEpoch \/ CommitFact \/ UNCHANGED vars
  BY <1>2, <1>3 DEF Tick, CloseEpoch, CommitFact, vars
<1>4. ASSUME NEW w \in Worker, Claim(w)
      PROVE  FilesKept /\ VerifiedKept
  BY <1>4 DEF Claim, Claimable, FilesKept, VerifiedKept
<1>5. ASSUME NEW w \in Worker, CountSource(w) \/ \E f \in File : ExportFile(w, f)
      PROVE  FilesKept /\ VerifiedKept
  BY <1>2, <1>5 DEF CountSource, ExportFile
<1>6. ASSUME NEW w \in Worker, WriteManifest(w)
      PROVE  FilesKept /\ VerifiedKept
  <2>1. FilesKept
    BY <1>1, <1>6, ManifestWritten, WritesKeepFiles
  <2>. QED
    BY <1>6, <2>1 DEF WriteManifest, VerifiedKept
<1>7. ASSUME NEW w \in Worker, Writes(w)
      PROVE  FilesKept /\ VerifiedKept
  <2>1. FilesKept
    BY <1>1, <1>7, WritesKeepFiles DEF Writes
  <2>. QED
    BY <1>7, <2>1 DEF Writes, VerifiedKept
<1>8. ASSUME NEW w \in Worker, Moves(w)
      PROVE  FilesKept /\ VerifiedKept
  BY <1>2, <1>8 DEF Moves, UntouchedArchive
<1>9. CASE Aside /\ UntouchedArchive /\ UNCHANGED <<workVars, historyVars, worker>>
  BY <1>2, <1>9 DEF UntouchedArchive
<1>10. CASE Rewrites
  <2>1. FilesKept
    <3>1. UNCHANGED store
      BY <1>10 DEF Rewrites, MarkExported, MarkVerified, RecordCopy, MarkFailed, EvaluateRetention
    <3>. QED
      BY <3>1 DEF FilesKept
  <2>2. ASSUME NEW w \in Worker, MarkExported(w), Owns(w)
        PROVE  VerifiedKept
    BY <2>2, ExportedEffect DEF VerifiedKept, VerifiedState
  <2>3. ASSUME NEW w \in Worker, MarkVerified(w), VerifiesCatalog(w)
        PROVE  VerifiedKept
    BY <2>3, VerifiedEffect DEF VerifiedKept, VerifiedState, Sets
  <2>4. ASSUME NEW w \in Worker, NEW role \in Role, RecordCopy(w, role),
               Recordable(worker[w].manifest)
        PROVE  VerifiedKept
    BY <2>4, RecordEffect DEF VerifiedKept, VerifiedState, Sets
  <2>5. ASSUME NEW w \in Worker, MarkFailed(w), scope.token = worker[w].token
        PROVE  VerifiedKept
    BY <2>5, FailedEffect DEF VerifiedKept, VerifiedState
  <2>6. ASSUME NEW days \in HotDays, EvaluateRetention(days)
        PROVE  VerifiedKept
    BY <2>6, RetentionEffect DEF VerifiedKept, VerifiedState, Sets
  <2>. QED
    BY <1>10, <2>1, <2>2, <2>3, <2>4, <2>5, <2>6 DEF Rewrites
<1>. QED
  BY <1>1, <1>3, <1>4, <1>5, <1>6, <1>7, <1>8, <1>9, <1>10, StepKinds

\* Nothing archived is taken back: a published file keeps its bytes whichever worker, claim
\* or layout comes later, and a verified scope stays verified with its manifest
\* (_publish_files, put_file, claim_archive_scope).
THEOREM ArchiveIsPermanent == Spec => ArchivePermanent
<1>. DEFINE Kept == /\ \A role \in {"primary", "secondary"}, f \in File :
                         store[role].files[f] # None => store'[role].files[f] = store[role].files[f]
                    /\ scope.state \in VerifiedState =>
                         scope'.state \in VerifiedState /\ scope'.manifest = scope.manifest
<1>1. IInv /\ [Next]_vars => [Kept]_vars
  BY StepKeepsArchive DEF IInv, FilesKept, VerifiedKept, Role
<1>. HIDE DEF Kept
<1>2. Spec => [][Kept]_vars
  BY <1>1, Invariant, PTL DEF Spec
<1>. QED
  BY <1>2 DEF Kept, ArchivePermanent
=============================================================================
