--------------------------- MODULE ArtifactStore ---------------------------
(***************************************************************************)
(* The file a claim/evidence artifact is written to: write_claim_evidence_ *)
(* artifact and load_and_validate_claim_evidence_artifact in verifaxis/    *)
(* evidence.py, as the commands demo, run and verify-evidence call them.   *)
(* Each command is a process of its own.  A writer looks whether the file  *)
(* exists, opens it and fills it in separate system calls; it may die, or  *)
(* its write may fail, between any two.  The user may remove or edit the   *)
(* file at any time.                                                       *)
(***************************************************************************)
EXTENDS EvidenceArtifact

CONSTANTS
    Writers,   \* processes that write to the same destination
    Serial,    \* TRUE: a command is started when the one before has ended
    Traces,    \* the traces of finished runs
    MaxWrites, \* bound: how many writes are begun
    MaxEdits,  \* bound: how often the user edits the file
    Empty,     \* the text of a file that was opened for writing
    Debris,    \* the text of a write that did not finish, or of two that collided
    Directory, \* something at the destination that is not a regular file
    ValueNodes \* how many JSON values one of a run is thought to hold at most

ASSUME StoreAssumption ==
    /\ Traces \subseteq Trace
    /\ Serial \in BOOLEAN
    /\ MaxWrites \in Nat /\ MaxEdits \in Nat /\ ValueNodes \in Nat
    /\ \A trace \in Traces : Build(trace) \notin {None, Empty, Debris, Directory}
    /\ None \notin {Empty, Debris, Directory}

VARIABLES
    file,     \* what is at the destination: one of None, Directory, Empty, Debris
              \* or an artifact
    at,       \* where each writer is
    rendered, \* the artifact it is to write
    handle,   \* the writers whose open handle is the file at the destination
    reader,   \* where the reader is
    loaded,   \* the artifact it accepted last
    begun,    \* how many writes were begun
    edits,    \* how often the user edited
    acknowledged, \* history: artifacts reported as written since the user's last change
    changed,  \* history: flips with each removal and edit of the user
    resigned  \* history: the user has edited and recomputed the artifact's hash

writing == <<at, rendered, handle>>
reading == <<reader, loaded>>
counts == <<begun, edits>>
history == <<acknowledged, changed, resigned>>
vars == <<file, at, rendered, handle, reader, loaded, begun, edits, acknowledged,
          changed, resigned>>

Whole == file \notin {None, Directory, Empty, Debris}

\* The destination may be free, a directory, or hold some other text.
Init ==
    /\ file \in {None, Directory, Debris}
    /\ at = [w \in Writers |-> "idle"]
    /\ rendered = [w \in Writers |-> None]
    /\ handle = {}
    /\ reader = "idle"
    /\ loaded = None
    /\ begun = 0
    /\ edits = 0
    /\ acknowledged = {}
    /\ changed = FALSE
    /\ resigned = FALSE

----------------------------------------------------------------------------
(* A writer *)

Go(w, where) ==
    /\ at' = [at EXCEPT ![w] = where]
    /\ UNCHANGED rendered

\* The process ends, and its locals with it.
End(w) ==
    /\ at' = [at EXCEPT ![w] = "idle"]
    /\ rendered' = [rendered EXCEPT ![w] = None]

\* The call: the artifact is built and rendered before the destination is looked
\* at.  The same result may be written again; another run has another trace.
Render(w, trace) ==
    /\ at[w] = "idle"
    /\ begun < MaxWrites
    /\ Serial => \A other \in Writers : at[other] = "idle"
    /\ begun' = begun + 1
    /\ rendered' = [rendered EXCEPT ![w] = Build(trace)]
    /\ at' = [at EXCEPT ![w] = "exists"]
    /\ UNCHANGED <<file, handle, reading, edits, history>>

\* Slip: the destination is opened for writing whether or not it exists.
LookForFileNever(w) ==
    /\ at[w] = "exists"
    /\ Go(w, "open")
    /\ UNCHANGED <<file, handle, reading, counts, history>>

\* target.exists()
LookForFile(w) ==
    /\ at[w] = "exists"
    /\ Go(w, IF file = None THEN "open" ELSE "compare")
    /\ UNCHANGED <<file, handle, reading, counts, history>>

\* Slip: whatever can be read there is taken for the same.
CompareAnyContent(w) ==
    /\ at[w] = "compare"
    /\ acknowledged' = IF Whole THEN acknowledged \cup {rendered[w]} ELSE acknowledged
    /\ End(w)
    /\ UNCHANGED <<file, handle, reading, counts, changed, resigned>>

\* target.is_file() and read_text() != rendered: return or FileExistsError.
Compare(w) ==
    /\ at[w] = "compare"
    /\ acknowledged' =
          IF file = rendered[w] THEN acknowledged \cup {rendered[w]} ELSE acknowledged
    /\ End(w)
    /\ UNCHANGED <<file, handle, reading, counts, changed, resigned>>

\* write_text opens for writing, which truncates what is there by now.
OpenFile(w) ==
    /\ at[w] = "open"
    /\ file' = Empty
    /\ handle' = handle \cup {w}
    /\ Go(w, "write")
    /\ UNCHANGED <<reading, counts, history>>

\* The text is written from the start of the file.  A longer text that another
\* writer left there since would stick out behind it.  A file that the user has
\* removed meanwhile is filled all the same, but not where the reader looks.
FillFile(w) ==
    /\ at[w] = "write"
    /\ IF w \in handle
       THEN /\ file' \in {rendered[w]} \cup
                  IF file \in {Empty, rendered[w]} THEN {} ELSE {Debris}
            /\ acknowledged' = acknowledged \cup {rendered[w]}
       ELSE UNCHANGED <<file, acknowledged>>
    /\ handle' = handle \ {w}
    /\ End(w)
    /\ UNCHANGED <<reading, counts, changed, resigned>>

\* Slip: the handle of a failed write is thought to be open still.
FailKeepsHandle(w) ==
    /\ at[w] # "idle"
    /\ End(w)
    /\ UNCHANGED <<file, handle, reading, counts, history>>

\* The process dies, or opening or writing fails.  What was written so far stays.
Fail(w) ==
    /\ at[w] # "idle"
    /\ file' \in {file} \cup IF w \in handle THEN {Debris} ELSE {}
    /\ handle' = handle \ {w}
    /\ End(w)
    /\ UNCHANGED <<reading, counts, history>>

----------------------------------------------------------------------------
(* The reader: verify-evidence *)

StatFile ==
    /\ reader = "idle"
    /\ file \notin {None, Directory}  \* the size is compared here as well
    /\ reader' = "read"
    /\ UNCHANGED <<file, writing, loaded, counts, history>>

\* Debris is not JSON and anything else is validated; a file that is gone by now
\* cannot be read.
LoadFile ==
    /\ reader = "read"
    /\ reader' = "idle"
    /\ loaded' = IF Whole /\ Accepted(file) THEN file ELSE loaded
    /\ UNCHANGED <<file, writing, counts, history>>

----------------------------------------------------------------------------
(* The user *)

RemoveFile ==
    /\ file # None
    /\ file' = None
    /\ handle' = {}
    /\ acknowledged' = {}
    /\ changed' = ~changed
    /\ UNCHANGED <<at, rendered, reading, counts, resigned>>

\* Edits of the embedded trace: its verdict, its last round, a packet, with or
\* without recomputing its hash, and a candidate, whose fingerprint stays.
TraceEdits(trace) ==
    {[trace EXCEPT !.reason = why] : why \in {"VERIFIED", "PLATEAU"}}
    \cup {[trace EXCEPT !.steps = SubSeq(@, 1, Len(@) - 1)] : i \in DOMAIN trace.steps}
    \cup UNION {{[trace EXCEPT !.steps[i].evidence[k] = [@ EXCEPT !.status = "PASS", !.sealed = kept]] :
                   k \in DOMAIN trace.steps[i].evidence, kept \in BOOLEAN} : i \in DOMAIN trace.steps}
    \cup {[trace EXCEPT !.steps[i].candidate.content = c] :
            i \in DOMAIN trace.steps, c \in Candidates}

\* The keys of a decision and one that nothing writes.
WithRemark(decision) ==
    [key \in DOMAIN decision \cup {"remark"} |->
        IF key = "remark" THEN None ELSE decision[key]]

\* Edits of one part; the last one brings chain and claim into line with the trace.
PayloadEdits(payload) ==
    {[payload EXCEPT !.trace = trace] : trace \in TraceEdits(payload.trace)}
    \cup {[payload EXCEPT !.claim.candidate = c] : c \in Candidates}
    \cup {[payload EXCEPT !.decision.verified = TRUE],
          [payload EXCEPT !.decision = WithRemark(payload.decision)],
          [payload EXCEPT !.evidence_chain = << >>],
          [payload EXCEPT !.evidence_chain = DerivedChain(payload.trace.steps),
                          !.claim = ExpectedClaim(payload.trace)]}

\* One edit to the content, with or without recomputing the artifact's hash.
EditFile(payload, resign) ==
    /\ Whole
    /\ edits < MaxEdits
    /\ edits' = edits + 1
    /\ file' = [payload |-> payload,
                artifact_hash |-> IF resign THEN payload ELSE file.artifact_hash]
    /\ acknowledged' = {}
    /\ changed' = ~changed
    /\ resigned' = (resigned \/ resign)
    /\ UNCHANGED <<writing, reading, begun>>

----------------------------------------------------------------------------

Write(w) ==
    \/ \E trace \in Traces : Render(w, trace)
    \/ LookForFile(w)
    \/ Compare(w)
    \/ OpenFile(w)
    \/ FillFile(w)
    \/ Fail(w)

Read == StatFile \/ LoadFile

User ==
    \/ RemoveFile
    \/ Whole /\ \E payload \in PayloadEdits(file.payload), resign \in BOOLEAN :
          EditFile(payload, resign)

Next == (\E w \in Writers : Write(w)) \/ Read \/ User

Spec == Init /\ [][Next]_vars

----------------------------------------------------------------------------
(* Properties *)

ArtifactOrNone(a) ==
    \/ a = None
    \/ /\ DOMAIN a = {"payload", "artifact_hash"}
       /\ \A p \in {a.payload, a.artifact_hash} :
             DOMAIN p = {"claim", "evidence_chain", "decision", "trace"}

TypeOK ==
    /\ Whole => ArtifactOrNone(file)
    /\ at \in [Writers -> {"idle", "exists", "compare", "open", "write"}]
    /\ \A w \in Writers : ArtifactOrNone(rendered[w])
    /\ handle \subseteq {w \in Writers : at[w] = "write"}
    /\ reader \in {"idle", "read"}
    /\ ArtifactOrNone(loaded)
    /\ begun \in 0..MaxWrites /\ edits \in 0..MaxEdits
    /\ \A a \in acknowledged : ArtifactOrNone(a)
    /\ changed \in BOOLEAN /\ resigned \in BOOLEAN

\* Whatever write_claim_evidence_artifact has reported as written is what the file
\* holds, until the user takes it away: no later write, whether it finds the same
\* artifact, another one or debris, and wherever it dies, changes that.
AcknowledgedIsKept == acknowledged \subseteq {file}

\* A document that validation accepts is one some run wrote, unless its editor
\* recomputed the artifact's hash ("detects unrecomputed changes").
UnrecomputedEditIsRejected ==
    loaded # None /\ ~resigned => \E trace \in Traces : loaded = Build(trace)

\* Whoever recomputes the artifact's hash must still bring several parts into line:
\* after one edit of one part what is accepted claims, decides and summarises as one
\* of the runs did ("packet hashes and derived summaries are checked separately").
OneEditKeepsTheDecision ==
    loaded # None /\ edits <= 1 =>
        \E trace \in Traces :
            /\ loaded.payload.claim = Claim(trace)
            /\ loaded.payload.evidence_chain = EvidenceChain(trace)
            /\ \A key \in DOMAIN Decision(trace) :
                  loaded.payload.decision[key] = Decision(trace)[key]

Modest(v) == 6 + Depth(v) <= MaxDepth /\ Nodes(v) <= ValueNodes

\* A trace whose packets were not written to, with modest values, and so few rounds
\* and packets that all of them together fit even if every packet failed.
Presentable(trace) ==
    /\ \A i \in DOMAIN trace.steps :
          LET step == trace.steps[i]
          IN  /\ Modest(step.candidate)
              /\ \A k \in DOMAIN step.evidence :
                    /\ ValidateHash(step.evidence[k])
                    /\ \A v \in PacketValues(step.evidence[k]) : Modest(v)
    /\ PacketCount(trace.steps) <= MaxPackets
    /\ FixedNodes + 4 * trace.errors + (20 + ValueNodes) * Len(trace.steps)
         + (20 + 4 * ValueNodes) * PacketCount(trace.steps) <= MaxNodes

\* A file nobody edited is what a run wrote, whole, however writers died or failed,
\* and is accepted when it is read back, whichever way the run ended: what is built
\* from the result's objects passes the checks of the document, also without a single
\* round, and no JSON value is counted that rounds, packets and the size of their
\* values do not account for.
WrittenIsReadable ==
    Whole /\ edits = 0 =>
        \E trace \in Traces :
            file = Build(trace) /\ (Presentable(trace) => Accepted(file))

\* The artifacts of the runs.
Written == {Build(trace) : trace \in Traces}

\* A file that a writer has open and has not filled counts as nothing yet.
Content == IF file = Empty /\ handle # {} THEN None ELSE file

Promise == INSTANCE WriteOnceStore WITH
    Artifacts <- Written, Nothing <- None, content <- Content

\* Writers that do not overlap implement a place that is written once: what is there,
\* an artifact, debris or another text, only the user removes or changes.
KeepsPromise == Promise!Spec

----------------------------------------------------------------------------
(* A statement of the repository that overlapping writers do not keep *)

\* README.md:67: "The CLI accepts an identical existing artifact but refuses to
\* overwrite different content."
RefusesToOverwrite == [][acknowledged # {} /\ file' # file => acknowledged' = {}]_vars
=============================================================================
