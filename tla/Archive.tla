-------------------------------- MODULE Archive --------------------------------
(***************************************************************************)
(* One archive scope: its export, verification, copy and retention state   *)
(* (archival.py, archive_catalog.py, archive_storage.py, retention.py).    *)
(*                                                                         *)
(* The catalog row of the scope lives in PostgreSQL and every change of it *)
(* is a transaction; the files of the primary archive and of the secondary *)
(* copy are written one at a time by processes that may die in between.    *)
(* A claim is a lease that nobody renews.                                  *)
(***************************************************************************)
EXTENDS Naturals, FiniteSets

CONSTANTS
  Worker,            \* archive commands
  Fact, Dimension,   \* rows of the daily families, rows of the dimensions
  DimensionOf(_),    \* the dimension row a fact refers to
  Layout,            \* chunk sizes an operator may configure: they change the bytes
  HotDays,           \* minimum ages an operator may ask for
  LeaseTime, None,
  MaxClock, MaxClaims   \* bounds of the model

VARIABLES
  clock,
  closed,     \* the epoch of the scope is closed
  valid,      \* ... and its data valid
  source,     \* the facts of the scope committed in PostgreSQL
  scope,      \* archive_scopes
  copies,     \* archive_copy_verifications
  store,      \* the files of the primary archive and of the secondary copy
  claims,     \* claim tokens handed out
  worker,     \* what every command holds in memory
  counted,    \* history: the facts present when the exporter of a claim counted them
  overtaken   \* history: an exporter was at work when the scope's lease had expired

vars == <<clock, closed, valid, source, scope, copies, store, claims, worker, counted, overtaken>>
workVars == <<clock, closed, valid, source>>
historyVars == <<claims, counted, overtaken>>

Token == 1 .. MaxClaims
File == {"facts", "dimensions"}
Bytes == [rows : SUBSET (Fact \cup Dimension), layout : Layout]
\* The time of an export is in its manifest: no two claims write the same one.
Manifest == [claim : Token, entries : [File -> Bytes]]
\* A digest stands for the bytes it is taken of.
Store ==
  [files : [File -> Bytes \cup {None}],
   manifest : Manifest \cup {None}, sidecar : Manifest \cup {None}]
VerifiedState == {"verified", "independently_copied", "retention_eligible"}
ScopeRow ==
  [state : {"absent", "exporting", "exported", "failed"} \cup VerifiedState,
   token : Token \cup {None}, expires : 0 .. MaxClock + LeaseTime \cup {None},
   manifest : Manifest \cup {None}, verified : BOOLEAN]
Copy == [role : {"primary", "secondary"}, manifest : Manifest]
Memory ==
  [pc : {"idle", "exporting", "counting", "publishing", "sidecar", "verifying",
         "marking_exported", "marking_verified", "recording", "failing", "rechecking",
         "copying", "comparing", "recording_copy"},
   token : Token \cup {None}, layout : Layout \cup {None},
   entries : [File -> Bytes \cup {None}], manifest : Manifest \cup {None}]

Idle == [pc |-> "idle", token |-> None, layout |-> None,
         entries |-> [f \in File |-> None], manifest |-> None]
EmptyStore == [files |-> [f \in File |-> None], manifest |-> None, sidecar |-> None]

ASSUME ArchiveAssumption ==
  /\ LeaseTime \in Nat \ {0} /\ {MaxClock, MaxClaims} \subseteq Nat /\ HotDays \subseteq Nat
  /\ \A fact \in Fact : DimensionOf(fact) \in Dimension
  /\ Fact \cap Dimension = {}
  /\ None \notin Bytes \cup Manifest \cup Nat \cup Layout

\* Every variable has the type of its table, file or process, and ck_archive_scopes_claim
\* holds: a claim token and its expiry come and go together.
TypeOK ==
  /\ clock \in 0 .. MaxClock /\ closed \in BOOLEAN /\ valid \in BOOLEAN
  /\ source \subseteq Fact
  /\ scope \in ScopeRow /\ (scope.token = None <=> scope.expires = None)
  /\ copies \subseteq Copy
  /\ store \in [{"primary", "secondary"} -> Store]
  /\ claims \in 0 .. MaxClaims
  /\ worker \in [Worker -> Memory]
  /\ counted \in [Token -> SUBSET Fact]
  /\ overtaken \in BOOLEAN
-----------------------------------------------------------------------------
Init ==
  /\ clock = 0 /\ closed = FALSE /\ valid \in BOOLEAN
  /\ source = {}
  /\ scope = [state |-> "absent", token |-> None, expires |-> None, manifest |-> None,
              verified |-> FALSE]
  /\ copies = {}
  /\ store = [role \in {"primary", "secondary"} |-> EmptyStore]
  /\ claims = 0
  /\ worker = [w \in Worker |-> Idle]
  /\ counted = [t \in Token |-> {}]
  /\ overtaken = FALSE

Tick ==
  /\ clock < MaxClock
  /\ clock' = clock + 1
  /\ UNCHANGED <<closed, valid, source, scope, copies, store, worker, historyVars>>

CloseEpoch ==
  /\ ~closed
  /\ closed' = TRUE
  /\ UNCHANGED <<clock, valid, source, scope, copies, store, worker, historyVars>>

\* A transaction of a collector commits a fact of the range; one that began before the
\* epoch was closed may commit after.
CommitFact ==
  /\ \E fact \in Fact \ source : source' = source \cup {fact}
  /\ UNCHANGED <<clock, closed, valid, scope, copies, store, worker, historyVars>>
-----------------------------------------------------------------------------
(* What is read, written and compared.                                     *)

\* The queries of the daily families.
FactRows == source
\* The queries of the pair and token dimensions: what the facts of the range refer to.
DimensionRows == {DimensionOf(fact) : fact \in source}
Rows(f) == IF f = "facts" THEN FactRows ELSE DimensionRows

\* _export_one and the entry of a file: the rows in their order, cut by the layout.
ExportedBytes(f, layout) == [rows |-> Rows(f), layout |-> layout]

\* Mutation of SourceCountsMatch: no recount.
SourceCountsUnchecked(entries) == TRUE
\* _verify_source_counts: a recount of every query, its rows are never deleted.
SourceCountsMatch(entries) ==
  \A f \in File : Cardinality(entries[f].rows) = Cardinality(Rows(f))

\* _duckdb_integrity: every fact finds its dimension.
ReferencesResolved(entries) ==
  \A fact \in entries["facts"].rows : DimensionOf(fact) \in entries["dimensions"].rows

\* _verify_entry: a file exists and has the digest, schema, rows and bounds of its entry.
EntryVerified(d, f) == d.files[f] # None /\ d.files[f] = d.manifest.entries[f]

\* verify_archive: the sidecar, every file, and the relations between them.
Verified(d) ==
  /\ d.manifest # None /\ d.sidecar = d.manifest
  /\ \A f \in File : EntryVerified(d, f)
  /\ ReferencesResolved(d.manifest.entries)

Fencing == {"exporting", "counting", "publishing", "sidecar", "verifying",
            "marking_exported"}
Exporter(w) == worker[w].pc \in Fencing \cup {"rechecking", "marking_verified"}

Step(w, pc) == worker' = [worker EXCEPT ![w].pc = pc]
Exit(w) == worker' = [worker EXCEPT ![w] = Idle]
-----------------------------------------------------------------------------
(* Export.                                                                 *)

OutlivedLease(w) ==
  scope.state = "exporting" /\ scope.expires <= clock /\ \E v \in Worker \ {w} : Exporter(v)

\* Mutation of Claimable: an unexpired claim does not keep others out.
ClaimableAlways == scope.state \notin VerifiedState
Claimable ==
  /\ scope.state \notin VerifiedState
  /\ scope.state = "exporting" => scope.expires <= clock

\* claim_archive_scope: only a closed epoch, one transaction behind the row lock.  A
\* verified scope is only read again.
Claim(w) ==
  /\ worker[w].pc = "idle"
  /\ closed
  /\ Claimable
  /\ claims < MaxClaims
  /\ LET reused == scope.state = "exported"
     IN  /\ scope' = [scope EXCEPT !.state = "exporting", !.token = claims + 1,
                                   !.expires = clock + LeaseTime]
         /\ \E layout \in Layout :
              worker' = [worker EXCEPT ![w] =
                [Idle EXCEPT !.pc = IF reused THEN "rechecking" ELSE "exporting",
                             !.token = claims + 1,
                             !.layout = IF reused THEN None ELSE layout]]
         /\ overtaken' = (overtaken \/ OutlivedLease(w))
  /\ claims' = claims + 1
  /\ UNCHANGED <<workVars, copies, store, counted>>

\* The families are streamed one after the other, the dimensions last, each in a session
\* of its own, into a staging directory no other claim uses.
ExportFile(w, f) ==
  /\ worker[w].pc = "exporting"
  /\ worker[w].entries[f] = None
  /\ f = "dimensions" => worker[w].entries["facts"] # None
  /\ worker' = [worker EXCEPT
       ![w].entries[f] = ExportedBytes(f, worker[w].layout),
       ![w].pc = IF f = "dimensions" THEN "counting" ELSE @]
  /\ UNCHANGED <<workVars, scope, copies, store, historyVars>>

CountSource(w) ==
  /\ worker[w].pc = "counting"
  /\ Step(w, IF SourceCountsMatch(worker[w].entries) THEN "publishing" ELSE "failing")
  /\ counted' = [counted EXCEPT ![worker[w].token] = source]
  /\ UNCHANGED <<workVars, scope, copies, store, claims, overtaken>>

MayPublish(f, bytes) == store["primary"].files[f] \in {None, bytes}
Published(w, f) == store["primary"].files[f] = worker[w].entries[f]

\* _publish_files: atomic renames in the order of the entries.
PublishFile(w, f) ==
  /\ worker[w].pc = "publishing"
  /\ ~Published(w, f)
  /\ f = "dimensions" => Published(w, "facts")
  /\ IF MayPublish(f, worker[w].entries[f])
     THEN store' = [store EXCEPT !["primary"].files[f] = worker[w].entries[f]]
          /\ UNCHANGED worker
     ELSE Step(w, "failing") /\ UNCHANGED store
  /\ UNCHANGED <<workVars, scope, copies, historyVars>>

ReadyForManifest(w) == \A f \in File : Published(w, f)

NewManifest(w) == [claim |-> worker[w].token, entries |-> worker[w].entries]

\* _write_verified_manifest replaces what is there: the manifest, then its sidecar.
WriteManifest(w) ==
  /\ worker[w].pc = "publishing"
  /\ ReadyForManifest(w)
  /\ store' = [store EXCEPT !["primary"].manifest = NewManifest(w)]
  /\ Step(w, "sidecar")
  /\ UNCHANGED <<workVars, scope, copies, historyVars>>

\* Both the sidecar and the digest the catalog will get are read back from the path.
WriteSidecar(w) ==
  /\ worker[w].pc = "sidecar"
  /\ store' = [store EXCEPT !["primary"].sidecar = store["primary"].manifest]
  /\ worker' = [worker EXCEPT ![w].pc = "verifying", ![w].manifest = store["primary"].manifest]
  /\ UNCHANGED <<workVars, scope, copies, historyVars>>

VerifyExport(w) ==
  /\ worker[w].pc = "verifying"
  /\ Step(w, IF Verified(store["primary"]) THEN "marking_exported" ELSE "failing")
  /\ UNCHANGED <<workVars, scope, copies, store, historyVars>>

Released(row) == [row EXCEPT !.token = None, !.expires = None]

\* Mutation of Owns: any worker of the scope may mark it.
OwnsAlways(w) == TRUE
\* _claimed_scope.
Owns(w) == scope.token = worker[w].token /\ scope.state = "exporting"

MarkExported(w) ==
  /\ worker[w].pc = "marking_exported"
  /\ IF Owns(w)
     THEN /\ scope' = [Released(scope) EXCEPT !.state = "exported",
                                              !.manifest = worker[w].manifest]
          /\ Step(w, "marking_verified")
     ELSE Step(w, "failing") /\ UNCHANGED scope
  /\ UNCHANGED <<workVars, copies, store, historyVars>>

VerifiesCatalog(w) == scope.manifest # None /\ scope.manifest = worker[w].manifest

\* mark_archive_verified asks for the digest, not for the claim.
MarkVerified(w) ==
  /\ worker[w].pc = "marking_verified"
  /\ IF VerifiesCatalog(w)
     THEN /\ scope' = [Released(scope) EXCEPT !.state = "verified", !.verified = TRUE]
          /\ Step(w, "recording")
     ELSE Step(w, "failing") /\ UNCHANGED scope
  /\ UNCHANGED <<workVars, copies, store, historyVars>>

\* record_copy_verification.
Recordable(m) == scope.state \in VerifiedState /\ scope.manifest = m
RecordCopy(w, role) ==
  /\ IF Recordable(worker[w].manifest)
     THEN /\ copies' = copies \cup {[role |-> role, manifest |-> worker[w].manifest]}
          /\ scope' = IF role = "secondary"
                      THEN [scope EXCEPT !.state = "independently_copied"] ELSE scope
     ELSE UNCHANGED <<copies, scope>>
  /\ Exit(w)
  /\ UNCHANGED <<workVars, store, historyVars>>
RecordPrimary(w) == worker[w].pc = "recording" /\ RecordCopy(w, "primary")

\* mark_archive_failed writes only while the claim is still the worker's.
MarkFailed(w) ==
  /\ worker[w].pc = "failing"
  /\ scope' = IF scope.token = worker[w].token
              THEN [Released(scope) EXCEPT !.state = "failed"] ELSE scope
  /\ Exit(w)
  /\ UNCHANGED <<workVars, copies, store, historyVars>>

\* The disk is full, or a query fails, before anything is published.
ExportInterrupted(w) ==
  /\ worker[w].pc = "exporting"
  /\ Step(w, "failing")
  /\ UNCHANGED <<workVars, scope, copies, store, historyVars>>

\* An exported scope is not exported again: its manifest is verified instead.  A failure
\* leaves the claim to expire.
Recheck(w) ==
  /\ worker[w].pc = "rechecking"
  /\ IF Verified(store["primary"])
     THEN worker' = [worker EXCEPT ![w].pc = "marking_verified",
                                   ![w].manifest = store["primary"].manifest]
     ELSE Exit(w)
  /\ UNCHANGED <<workVars, scope, copies, store, historyVars>>

\* The process dies; its staging directory is never looked at again.
Kill(w) ==
  /\ worker[w].pc # "idle"
  /\ Exit(w)
  /\ UNCHANGED <<workVars, scope, copies, store, historyVars>>
-----------------------------------------------------------------------------
(* The secondary copy.                                                     *)

\* copy_archive begins by verifying the primary archive.
BeginCopy(w) ==
  /\ worker[w].pc = "idle"
  /\ Verified(store["primary"])
  /\ worker' = [worker EXCEPT ![w] = [Idle EXCEPT !.pc = "copying",
                  !.manifest = store["primary"].manifest]]
  /\ UNCHANGED <<workVars, scope, copies, store, historyVars>>

\* put_file: an object is written once; other content under its key is a conflict.
MayPut(old, new) == old \in {None, new}

\* The files, then the sidecar, then the manifest; every object is read back.
CopyFile(w, f) ==
  /\ worker[w].pc = "copying"
  /\ store["secondary"].files[f] # store["primary"].files[f]
  /\ IF MayPut(store["secondary"].files[f], store["primary"].files[f])
     THEN store' = [store EXCEPT !["secondary"].files[f] = store["primary"].files[f]]
          /\ UNCHANGED worker
     ELSE Exit(w) /\ UNCHANGED store
  /\ UNCHANGED <<workVars, scope, copies, historyVars>>

FilesCopied == store["secondary"].files = store["primary"].files

CopySidecar(w) ==
  /\ worker[w].pc = "copying"
  /\ FilesCopied
  /\ store["secondary"].sidecar # store["primary"].sidecar
  /\ IF MayPut(store["secondary"].sidecar, store["primary"].sidecar)
     THEN store' = [store EXCEPT !["secondary"].sidecar = store["primary"].sidecar]
          /\ UNCHANGED worker
     ELSE Exit(w) /\ UNCHANGED store
  /\ UNCHANGED <<workVars, scope, copies, historyVars>>

ReadyForCopiedManifest ==
  FilesCopied /\ store["secondary"].sidecar = store["primary"].sidecar

\* A file system copy is read again as an archive; an object store copy is not.
CopyManifest(w) ==
  /\ worker[w].pc = "copying"
  /\ ReadyForCopiedManifest
  /\ IF MayPut(store["secondary"].manifest, store["primary"].manifest)
     THEN /\ store' = [store EXCEPT !["secondary"].manifest = store["primary"].manifest]
          /\ Step(w, "comparing") \/ Step(w, "recording_copy")
     ELSE Exit(w) /\ UNCHANGED store
  /\ UNCHANGED <<workVars, scope, copies, historyVars>>

\* verify_object_store_copy, verify_filesystem_copy: an existing copy is read in full.
BeginVerifyCopy(w) ==
  /\ worker[w].pc = "idle"
  /\ Verified(store["primary"])
  /\ worker' = [worker EXCEPT ![w] = [Idle EXCEPT !.pc = "comparing",
                  !.manifest = store["primary"].manifest]]
  /\ UNCHANGED <<workVars, scope, copies, store, historyVars>>

\* Mutation of CopyEqual: a copy is believed to be what was copied.
CopyEqualAssumed(w) == TRUE
CopyEqual(w) == Verified(store["secondary"]) /\ store["secondary"].manifest = worker[w].manifest

CompareCopy(w) ==
  /\ worker[w].pc = "comparing"
  /\ IF CopyEqual(w) THEN Step(w, "recording_copy") ELSE Exit(w)
  /\ UNCHANGED <<workVars, scope, copies, store, historyVars>>

\* Without the operator's assertion of independence a secondary copy is refused.
RecordSecondary(w) == worker[w].pc = "recording_copy" /\ RecordCopy(w, "secondary")
-----------------------------------------------------------------------------
(* Retention: metadata only, nothing is deleted.                           *)

HasCopy(role) == \E c \in copies : c.role = role

Checks(days) ==
  /\ scope.verified
  /\ HasCopy("primary") /\ HasCopy("secondary")
  /\ scope.state # "failed"
  /\ valid /\ closed
  /\ days <= clock

\* evaluate_retention_eligibility: an evaluation that fails leaves the state alone.
EvaluateRetention(days) ==
  /\ scope.state # "absent"
  /\ Checks(days)
  /\ scope' = [scope EXCEPT !.state = "retention_eligible"]
  /\ UNCHANGED <<workVars, copies, store, worker, historyVars>>
-----------------------------------------------------------------------------
Export(w) ==
  \/ \E f \in File : ExportFile(w, f) \/ PublishFile(w, f)
  \/ CountSource(w) \/ WriteManifest(w) \/ WriteSidecar(w) \/ VerifyExport(w)
  \/ MarkExported(w) \/ MarkVerified(w) \/ RecordPrimary(w) \/ MarkFailed(w)
  \/ ExportInterrupted(w) \/ Recheck(w)

CopyOut(w) ==
  \/ BeginCopy(w) \/ CopySidecar(w) \/ CopyManifest(w)
  \/ \E f \in File : CopyFile(w, f)
  \/ BeginVerifyCopy(w) \/ CompareCopy(w) \/ RecordSecondary(w)

Next ==
  \/ Tick \/ CloseEpoch \/ CommitFact
  \/ \E w \in Worker : Claim(w) \/ Export(w) \/ CopyOut(w) \/ Kill(w)
  \/ \E days \in HotDays : EvaluateRetention(days)

Spec == Init /\ [][Next]_vars
-----------------------------------------------------------------------------
(* Properties.                                                             *)

\* retention.py, assert_retention_deletion_authorized, without the human's approval.
DeletionEvidence ==
  /\ scope.verified
  /\ \E c \in copies : c.role = "secondary" /\ c.manifest = scope.manifest

\* The catalog never calls a scope verified with a manifest that misses a fact: what it
\* names has every row that was committed when its exporter recounted the source.
NoCountedFactMissing ==
  scope.manifest # None =>
    /\ scope.manifest.entries["facts"].rows = counted[scope.manifest.claim]
    /\ ReferencesResolved(scope.manifest.entries)

\* docs/collector-v2-phase3-archival.md: manifest publication is last.  At either place a
\* manifest is never found without the very files it lists.
ManifestLast ==
  \A role \in {"primary", "secondary"} :
    store[role].manifest # None =>
      \A f \in File : store[role].files[f] = store[role].manifest.entries[f]

\* What the catalog has verified is what the primary archive holds, unless an exporter
\* that outlived its lease is still writing.
CatalogMatchesArchive ==
  scope.state \in VerifiedState /\ ~overtaken =>
    scope.manifest = store["primary"].manifest /\ Verified(store["primary"])

\* The scope and both archives have their types, manifests come last, and the catalog says
\* what the archive holds.
ArchiveConsistent == TypeOK /\ ManifestLast /\ CatalogMatchesArchive

\* Nothing archived is taken back: different content under an existing key is an error, so a
\* published file keeps its bytes whichever worker, claim or layout comes later; and a
\* verified scope stays verified, with the manifest that was verified.
ArchivePermanent ==
  [][/\ \A role \in {"primary", "secondary"}, f \in File :
          store[role].files[f] # None => store'[role].files[f] = store[role].files[f]
     /\ scope.state \in VerifiedState =>
          scope'.state \in VerifiedState /\ scope'.manifest = scope.manifest]_vars

\* A scope that is eligible has the evidence the deletion gate asks for: it is verified,
\* and a complete independent copy with the same manifest exists.
EligibleIsBackedUp ==
  scope.state = "retention_eligible" /\ ~overtaken =>
    /\ valid /\ closed /\ DeletionEvidence
    /\ Verified(store["secondary"]) /\ store["secondary"].manifest = scope.manifest

\* docs/collector-v2-phase3-archival.md: a retry after lease expiry is safe.
LeaseExpirySafe ==
  scope.state \in VerifiedState =>
    scope.manifest = store["primary"].manifest /\ Verified(store["primary"])
=============================================================================
