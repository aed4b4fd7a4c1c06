------------------------ MODULE ArtifactStoreProofs ------------------------
(***************************************************************************)
(* Proofs about the artifact file, for any writers, traces, limits and     *)
(* bounds.  What validation accepts is what some run wrote, also when      *)
(* writers overlap; what was reported as written is kept when they do not. *)
(***************************************************************************)
EXTENDS ArtifactStore, SequenceLemmas

\* A writer under way has one of them to write.
RenderedInv ==
    /\ at \in [Writers -> {"idle", "exists", "compare", "open", "write"}]
    /\ rendered = [w \in Writers |-> rendered[w]]
    /\ \A w \in Writers : at[w] # "idle" => rendered[w] \in Written

\* The actions that leave a writer's locals alone or end it.
LEMMA WriterMoves ==
    ASSUME RenderedInv, NEW w \in Writers,
           \/ \E where \in {"compare", "open", "write"} : Go(w, where) /\ at[w] # "idle"
           \/ End(w)
    PROVE  RenderedInv'
BY DEF RenderedInv, Go, End

\* Only Render makes an artifact of a writer, and from a trace.
LEMMA RenderedInvInductive ==
    ASSUME RenderedInv, [Next]_vars
    PROVE  RenderedInv'
<1>1. ASSUME NEW w \in Writers, NEW trace \in Traces, Render(w, trace)
      PROVE  RenderedInv'
  BY <1>1 DEF Render, RenderedInv, Written
<1>2. ASSUME NEW w \in Writers, LookForFile(w)
      PROVE  RenderedInv'
  BY <1>2, WriterMoves DEF LookForFile
<1>3. ASSUME NEW w \in Writers, Compare(w) \/ FillFile(w) \/ Fail(w)
      PROVE  RenderedInv'
  BY <1>3, WriterMoves DEF Compare, FillFile, Fail
<1>4. ASSUME NEW w \in Writers, OpenFile(w)
      PROVE  RenderedInv'
  BY <1>4, WriterMoves DEF OpenFile
<1>5. CASE Read
  BY <1>5 DEF Read, StatFile, LoadFile, writing, RenderedInv
<1>6. CASE RemoveFile
  BY <1>6 DEF RemoveFile, RenderedInv
<1>7. ASSUME NEW payload, NEW resign, EditFile(payload, resign)
      PROVE  RenderedInv'
  BY <1>7 DEF EditFile, writing, RenderedInv
<1>8. CASE UNCHANGED vars
  BY <1>8 DEF vars, RenderedInv
<1> QED
  BY <1>1, <1>2, <1>3, <1>4, <1>5, <1>6, <1>7, <1>8 DEF Next, Write, User

\* No writer has rendered anything yet.
LEMMA RenderedInvInitially == Init => RenderedInv
BY DEF Init, RenderedInv

----------------------------------------------------------------------------
(* Validation *)

PayloadShape(p) ==
    p = [claim |-> p.claim, evidence_chain |-> p.evidence_chain,
         decision |-> p.decision, trace |-> p.trace]

Shape(a) ==
    /\ a = [payload |-> a.payload, artifact_hash |-> a.artifact_hash]
    /\ PayloadShape(a.payload)

\* The file and what was read from it are artifacts; without the user's help their
\* hash is one that some run computed, and what was accepted is what it wrote.
ReaderInv ==
    /\ Whole => Shape(file)
    /\ Whole /\ ~resigned => \E a \in Written : file.artifact_hash = a.artifact_hash
    /\ loaded # None /\ ~resigned => loaded \in Written

\* What a writer renders has the fields of an artifact.
LEMMA WrittenShape ==
    ASSUME NEW a \in Written
    PROVE  Shape(a)
BY DEF Written, Build, Sign, Shape, PayloadShape

\* Whichever edit the user makes, the document remains one of its kind.
LEMMA EditedShape ==
    ASSUME NEW p, PayloadShape(p), NEW q \in PayloadEdits(p)
    PROVE  PayloadShape(q)
<1>1. CASE \E trace \in TraceEdits(p.trace) : q = [p EXCEPT !.trace = trace]
  BY <1>1 DEF PayloadShape
<1>2. CASE \E c \in Candidates : q = [p EXCEPT !.claim.candidate = c]
  BY <1>2 DEF PayloadShape
<1>3. CASE q = [p EXCEPT !.decision.verified = TRUE]
  BY <1>3 DEF PayloadShape
<1>4. CASE q = [p EXCEPT !.decision = WithRemark(p.decision)]
  BY <1>4 DEF PayloadShape
<1>5. CASE q = [p EXCEPT !.evidence_chain = << >>]
  BY <1>5 DEF PayloadShape
<1>6. CASE q = [p EXCEPT !.evidence_chain = DerivedChain(p.trace.steps),
                         !.claim = ExpectedClaim(p.trace)]
  BY <1>6 DEF PayloadShape
<1> QED
  BY <1>1, <1>2, <1>3, <1>4, <1>5, <1>6 DEF PayloadEdits

\* A step that leaves the file and the history of edits alone, or puts something
\* there that is no artifact or one of some run.
LEMMA FileKept ==
    ASSUME ReaderInv, UNCHANGED <<loaded, resigned>>,
           file' \in {file, None, Empty, Debris} \cup Written
    PROVE  ReaderInv'
<1>1. CASE file' = file
  BY <1>1 DEF ReaderInv, Whole
<1>2. CASE file' \in {None, Empty, Debris}
  BY <1>2 DEF ReaderInv, Whole
<1>3. CASE file' \in Written
  BY <1>3, WrittenShape DEF ReaderInv
<1> QED
  BY <1>1, <1>2, <1>3

\* The file gets its content from writers and edits, the reader from the file.
LEMMA ReaderInvInductive ==
    ASSUME RenderedInv, ReaderInv, [Next]_vars
    PROVE  ReaderInv'
<1> USE DEF reading, history
<1>1. ASSUME NEW w \in Writers, NEW trace \in Traces, Render(w, trace)
      PROVE  ReaderInv'
  BY <1>1, FileKept DEF Render
<1>2. ASSUME NEW w \in Writers, LookForFile(w) \/ Compare(w) \/ OpenFile(w)
      PROVE  ReaderInv'
  BY <1>2, FileKept DEF LookForFile, Compare, OpenFile
<1>3. ASSUME NEW w \in Writers, FillFile(w)
      PROVE  ReaderInv'
  BY <1>3, FileKept DEF FillFile, RenderedInv
<1>4. ASSUME NEW w \in Writers, Fail(w)
      PROVE  ReaderInv'
  BY <1>4, FileKept DEF Fail
<1>5. CASE StatFile
  BY <1>5, FileKept DEF StatFile
<1>6. CASE LoadFile
  <2>1. CASE loaded' = loaded
    BY <1>6, <2>1, FileKept DEF LoadFile
  <2>2. CASE loaded' # loaded
    <3>1. Whole /\ Accepted(file) /\ loaded' = file /\ UNCHANGED <<file, resigned>>
      BY <1>6, <2>2 DEF LoadFile
    <3>3. ASSUME ~resigned
          PROVE  file \in Written
      <4>1. PICK a \in Written : file.artifact_hash = a.artifact_hash
        BY <3>1, <3>3 DEF ReaderInv
      <4>2. Shape(file) /\ file.artifact_hash = file.payload
        BY <3>1 DEF ReaderInv, Accepted
      <4>3. a = [payload |-> a.artifact_hash, artifact_hash |-> a.artifact_hash]
        BY DEF Written, Build, Sign
      <4>4. file = a
        BY <4>1, <4>2, <4>3 DEF Shape
      <4> QED
        BY <4>4
    <3> QED
      BY <3>1, <3>3 DEF ReaderInv, Whole
  <2> QED
    BY <2>1, <2>2
<1>7. CASE RemoveFile
  BY <1>7, FileKept DEF RemoveFile
<1>8. ASSUME Whole, NEW payload \in PayloadEdits(file.payload), NEW resign \in BOOLEAN,
             EditFile(payload, resign)
      PROVE  ReaderInv'
  <2>1. /\ file' = [payload |-> payload,
                    artifact_hash |-> IF resign THEN payload ELSE file.artifact_hash]
        /\ resigned' = (resigned \/ resign) /\ loaded' = loaded
    BY <1>8 DEF EditFile
  <2>2. PayloadShape(payload)
    BY <1>8, EditedShape DEF ReaderInv, Shape
  <2>3. Shape(file')
    BY <2>1, <2>2 DEF Shape
  <2>4. ~resigned' => file'.artifact_hash = file.artifact_hash
    BY <2>1
  <2> QED
    BY <1>8, <2>1, <2>3, <2>4 DEF ReaderInv
<1>9. CASE UNCHANGED vars
  BY <1>9, FileKept DEF vars
<1> QED
  BY <1>1, <1>2, <1>3, <1>4, <1>5, <1>6, <1>7, <1>8, <1>9 DEF Next, Write, Read, User

\* At first there is nothing or a directory, and nothing was read.
LEMMA ReaderInvInitially == Init => ReaderInv
BY DEF Init, ReaderInv, Whole

\* Validation accepts only what some run wrote, unless an editor recomputed the
\* outer hash; for any number of writers, overlapping or not.
THEOREM EditsAreRejected == Spec => []UnrecomputedEditIsRejected
<1>1. ReaderInv => UnrecomputedEditIsRejected
  BY DEF ReaderInv, UnrecomputedEditIsRejected, Written
<1> QED
  BY <1>1, RenderedInvInitially, RenderedInvInductive, ReaderInvInitially,
     ReaderInvInductive, PTL DEF Spec

----------------------------------------------------------------------------
(* Writers that do not overlap *)

\* One writer at a time: nothing is at the destination when it opens it, what it
\* has open is empty, and what was reported as written is there.
SerialInv ==
    /\ Serial
    /\ RenderedInv
    /\ \A v, w \in Writers : at[v] # "idle" /\ at[w] # "idle" => v = w
    /\ \A w \in Writers : at[w] = "open" => file = None
    /\ handle \subseteq Writers
    /\ \A w \in handle : at[w] = "write" /\ file = Empty
    /\ acknowledged \subseteq Written \cap {file}

\* A rendered artifact is none of the other contents of a path.
LEMMA WrittenIsWhole ==
    ASSUME NEW a \in Written
    PROVE  a \notin {None, Empty, Debris, Directory}
BY StoreAssumption DEF Written

\* One writer at a time passes from step to step, and only it touches the file.
LEMMA SerialInvInductive ==
    ASSUME SerialInv, [Next]_vars
    PROVE  SerialInv'
<1>0. RenderedInv'
  BY RenderedInvInductive DEF SerialInv
<1> USE DEF reading, writing, history, counts
<1>1. ASSUME NEW w \in Writers, NEW trace \in Traces, Render(w, trace)
      PROVE  SerialInv'
  BY <1>0, <1>1 DEF Render, SerialInv, RenderedInv
<1>2. ASSUME NEW w \in Writers, LookForFile(w)
      PROVE  SerialInv'
  BY <1>0, <1>2 DEF LookForFile, Go, SerialInv, RenderedInv
<1>3. ASSUME NEW w \in Writers, Compare(w)
      PROVE  SerialInv'
  BY <1>0, <1>3 DEF Compare, End, SerialInv, RenderedInv
<1>4. ASSUME NEW w \in Writers, OpenFile(w)
      PROVE  SerialInv'
  <2>1. /\ file = None /\ file' = Empty /\ handle' = handle \cup {w}
        /\ at' = [at EXCEPT ![w] = "write"] /\ acknowledged' = acknowledged
    BY <1>4 DEF OpenFile, Go, SerialInv
  <2>2. acknowledged = {}
    BY <2>1, WrittenIsWhole DEF SerialInv
  <2>3. \A v \in Writers : v # w => at[v] = "idle"
    BY <1>4 DEF OpenFile, SerialInv
  <2> QED
    BY <1>0, <2>1, <2>2, <2>3 DEF SerialInv, RenderedInv
<1>5. ASSUME NEW w \in Writers, FillFile(w)
      PROVE  SerialInv'
  <2>1. at[w] = "write" /\ handle' = handle \ {w} /\ at' = [at EXCEPT ![w] = "idle"]
    BY <1>5 DEF FillFile, End
  <2>2. \A v \in Writers : at'[v] = "idle"
    BY <2>1 DEF SerialInv, RenderedInv
  <2>3. handle' = {}
    BY <2>1 DEF SerialInv
  <2>4. acknowledged' \subseteq Written \cap {file'}
    <3>1. CASE w \in handle
      <4>1. file = Empty /\ file' = rendered[w] /\ acknowledged' = acknowledged \cup {rendered[w]}
        BY <1>5, <3>1 DEF FillFile, SerialInv
      <4>2. acknowledged = {}
        BY <4>1, WrittenIsWhole DEF SerialInv
      <4> QED
        BY <2>1, <4>1, <4>2 DEF SerialInv, RenderedInv
    <3>2. CASE w \notin handle
      BY <1>5, <3>2 DEF FillFile, SerialInv
    <3> QED
      BY <3>1, <3>2
  <2> QED
    BY <1>0, <2>2, <2>3, <2>4 DEF SerialInv
<1>6. ASSUME NEW w \in Writers, Fail(w)
      PROVE  SerialInv'
  <2>1. /\ at[w] # "idle" /\ handle' = handle \ {w} /\ at' = [at EXCEPT ![w] = "idle"]
        /\ acknowledged' = acknowledged
    BY <1>6 DEF Fail, End
  <2>2. \A v \in Writers : at'[v] = "idle"
    BY <2>1 DEF SerialInv, RenderedInv
  <2>3. handle' = {}
    BY <2>1 DEF SerialInv
  <2>4. acknowledged \subseteq Written \cap {file'}
    <3>1. CASE w \in handle
      <4>1. acknowledged = {}
        BY <3>1, WrittenIsWhole DEF SerialInv
      <4> QED
        BY <4>1
    <3>2. CASE w \notin handle
      BY <1>6, <3>2 DEF Fail, SerialInv
    <3> QED
      BY <3>1, <3>2
  <2> QED
    BY <1>0, <2>1, <2>2, <2>3, <2>4 DEF SerialInv
<1>7. CASE Read
  BY <1>0, <1>7 DEF Read, StatFile, LoadFile, SerialInv
<1>8. CASE RemoveFile
  BY <1>0, <1>8 DEF RemoveFile, SerialInv
<1>9. ASSUME NEW payload, NEW resign, EditFile(payload, resign)
      PROVE  SerialInv'
  <2>1. file \notin {None, Empty} /\ acknowledged' = {} /\ UNCHANGED <<at, handle>>
    BY <1>9 DEF EditFile, Whole
  <2> QED
    BY <1>0, <2>1 DEF SerialInv
<1>10. CASE UNCHANGED vars
  BY <1>0, <1>10 DEF vars, SerialInv
<1> QED
  BY <1>1, <1>2, <1>3, <1>4, <1>5, <1>6, <1>7, <1>8, <1>9, <1>10 DEF Next, Write, User

\* No writer has begun.
LEMMA SerialInvInitially == Init /\ Serial => SerialInv
BY RenderedInvInitially DEF Init, SerialInv

\* What was reported as written stays, whatever the later commands write and
\* wherever they die, as long as they do not overlap.
THEOREM AcknowledgedStays == Spec /\ Serial => []AcknowledgedIsKept
<1>1. SerialInv => AcknowledgedIsKept
  BY DEF SerialInv, AcknowledgedIsKept
<1> QED
  BY <1>1, SerialInvInitially, SerialInvInductive, PTL DEF Spec

----------------------------------------------------------------------------
(* The promise *)

\* A step of a writer that works alone is a step of the store, or none of it.
LEMMA PromiseStep ==
    ASSUME SerialInv, [Next]_vars
    PROVE  [Promise!Next]_(Promise!vars)
<1> USE DEF reading, writing, history, counts, Promise!vars
<1>1. ASSUME NEW w \in Writers, NEW trace \in Traces, Render(w, trace)
      PROVE  UNCHANGED Promise!vars
  BY <1>1 DEF Render, Content
<1>2. ASSUME NEW w \in Writers, LookForFile(w)
      PROVE  UNCHANGED Promise!vars
  BY <1>2 DEF LookForFile, Content
<1>3. ASSUME NEW w \in Writers, Compare(w)
      PROVE  [Promise!Next]_(Promise!vars)
  <2>1. CASE file = rendered[w]
    <3>1. rendered[w] \in Written
      BY <1>3 DEF Compare, SerialInv, RenderedInv
    <3>2. Content = rendered[w] /\ Content' = Content
      BY <1>3, <2>1, <3>1, WrittenIsWhole DEF Compare, Content
    <3>3. Promise!StoreAgain(rendered[w])
      BY <1>3, <2>1, <3>2 DEF Compare, Promise!StoreAgain
    <3> QED
      BY <3>1, <3>3 DEF Promise!Next
  <2>2. CASE file # rendered[w]
    BY <1>3, <2>2 DEF Compare, Content
  <2> QED
    BY <2>1, <2>2
<1>4. ASSUME NEW w \in Writers, OpenFile(w)
      PROVE  UNCHANGED Promise!vars
  <2>1. /\ file = None /\ file' = Empty /\ w \in handle'
        /\ UNCHANGED <<acknowledged, changed>>
    BY <1>4 DEF OpenFile, SerialInv
  <2> QED
    BY <2>1, StoreAssumption DEF Content
<1>5. ASSUME NEW w \in Writers, FillFile(w)
      PROVE  [Promise!Next]_(Promise!vars)
  <2>1. CASE w \in handle
    <3>1. /\ file = Empty /\ file' = rendered[w]
          /\ acknowledged' = acknowledged \cup {rendered[w]} /\ UNCHANGED changed
      BY <1>5, <2>1 DEF FillFile, SerialInv
    <3>2. rendered[w] \in Written
      BY <1>5 DEF FillFile, SerialInv, RenderedInv
    <3>3. acknowledged = {}
      BY <3>1, WrittenIsWhole DEF SerialInv
    <3>4. Content = None /\ Content' = rendered[w]
      BY <2>1, <3>1, <3>2, WrittenIsWhole DEF Content
    <3>5. Promise!Store(rendered[w])
      BY <3>1, <3>3, <3>4 DEF Promise!Store
    <3> QED
      BY <3>2, <3>5 DEF Promise!Next
  <2>2. CASE w \notin handle
    BY <1>5, <2>2 DEF FillFile, Content
  <2> QED
    BY <2>1, <2>2
<1>6. ASSUME NEW w \in Writers, Fail(w)
      PROVE  [Promise!Next]_(Promise!vars)
  <2>1. CASE w \in handle
    <3>1. /\ file = Empty /\ file' \in {Empty, Debris}
          /\ UNCHANGED <<acknowledged, changed>>
      BY <1>6, <2>1 DEF Fail, SerialInv
    <3>2. handle' = {}
      BY <1>6, <2>1 DEF Fail, SerialInv
    <3>3. Content = None /\ Content' \notin Written \cup {None}
      BY <2>1, <3>1, <3>2, WrittenIsWhole, StoreAssumption DEF Content
    <3> QED
      BY <3>1, <3>3 DEF Promise!LeaveDebris, Promise!Next
  <2>2. CASE w \notin handle
    BY <1>6, <2>2 DEF Fail, Content
  <2> QED
    BY <2>1, <2>2
<1>7. CASE Read
  BY <1>7 DEF Read, StatFile, LoadFile, Content
<1>8. CASE User
  BY <1>8 DEF User, RemoveFile, EditFile, Promise!UserChanges, Promise!Next
<1>9. CASE UNCHANGED vars
  BY <1>9 DEF vars, Content
<1> QED
  BY <1>1, <1>2, <1>3, <1>4, <1>5, <1>6, <1>7, <1>8, <1>9 DEF Next, Write

\* Writers that do not overlap implement the place that is written once.
THEOREM PromiseIsKept == Spec /\ Serial => KeepsPromise
<1>1. Init => Promise!Init
  <2> SUFFICES ASSUME Init PROVE Promise!Init
    OBVIOUS
  <2>1. Content \in {None, Directory, Debris}
    BY DEF Init, Content
  <2>2. Content \notin Written
    BY <2>1, WrittenIsWhole
  <2> QED
    BY <2>2 DEF Init, Promise!Init
<1> QED
  BY <1>1, SerialInvInitially, SerialInvInductive, PromiseStep, PTL
     DEF Spec, KeepsPromise, Promise!Spec

----------------------------------------------------------------------------
(* Reading back what was written *)

\* The document of a trace has its steps in place, with what each was derived from.
LEMMA StepsOfDocument ==
    ASSUME NEW trace \in Trace
    PROVE  LET d == ToDict(trace)
           IN  /\ Len(trace.steps) \in Nat /\ DOMAIN trace.steps = 1..Len(trace.steps)
               /\ DOMAIN d.steps = 1..Len(trace.steps) /\ Len(d.steps) = Len(trace.steps)
               /\ d.task = trace.task /\ d.reason = trace.reason /\ d.errors = trace.errors
               /\ d.model_calls = trace.model_calls
               /\ d.verifier_calls = trace.verifier_calls
               /\ \A i \in 1..Len(trace.steps) :
                     LET step == trace.steps[i]
                     IN  /\ step.candidate \in Candidates
                         /\ step.evidence \in Seq(EvidencePacket)
                         /\ d.steps[i].iteration = i
                         /\ d.steps[i].candidate.content = step.candidate
                         /\ d.steps[i].candidate.metadata = step.candidate
                         /\ d.steps[i].candidate.fingerprint = step.candidate
                         /\ d.steps[i].evidence = step.evidence
                         /\ d.steps[i].residual = step.evidence
<1> DEFINE n == Len(trace.steps)
           R == [candidate : Candidates, evidence : Seq(EvidencePacket)]
           docStep(i) == [iteration |-> i,
                          candidate |-> [content |-> trace.steps[i].candidate,
                                         metadata |-> trace.steps[i].candidate,
                                         fingerprint |-> trace.steps[i].candidate],
                          evidence |-> trace.steps[i].evidence,
                          residual |-> trace.steps[i].evidence]
           ds == [i \in 1..n |-> docStep(i)]
<1>1. trace.steps \in Seq(R)
  BY DEF Trace
<1>2. n \in Nat /\ DOMAIN trace.steps = 1..n
  BY <1>1
<1>3. \A r \in R : r.candidate \in Candidates /\ r.evidence \in Seq(EvidencePacket)
  OBVIOUS
<1>4. \A i \in 1..n : trace.steps[i] \in R
  <2> HIDE DEF R
  <2> QED
    BY <1>1
<1>5. ToDict(trace) = [trace EXCEPT !.steps = ds]
  BY <1>2 DEF ToDict
<1>6. DOMAIN ds = 1..n /\ \A i \in 1..n : ds[i] = docStep(i)
  OBVIOUS
<1>7. Len(ds) = n
  <2> HIDE DEF docStep, n
  <2> QED
    BY <1>2
<1>8. \A i \in 1..n :
          /\ docStep(i).iteration = i
          /\ docStep(i).candidate.content = trace.steps[i].candidate
          /\ docStep(i).candidate.metadata = trace.steps[i].candidate
          /\ docStep(i).candidate.fingerprint = trace.steps[i].candidate
          /\ docStep(i).evidence = trace.steps[i].evidence
          /\ docStep(i).residual = trace.steps[i].evidence
  OBVIOUS
<1> HIDE DEF ds, docStep
<1>9. /\ ToDict(trace).steps = ds
      /\ ToDict(trace).task = trace.task /\ ToDict(trace).reason = trace.reason
      /\ ToDict(trace).errors = trace.errors
      /\ ToDict(trace).model_calls = trace.model_calls
      /\ ToDict(trace).verifier_calls = trace.verifier_calls
  BY <1>5 DEF Trace
<1> HIDE DEF R
<1>10. \A i \in 1..n : trace.steps[i].candidate \in Candidates
                       /\ trace.steps[i].evidence \in Seq(EvidencePacket)
  BY <1>3, <1>4
<1> QED
  BY <1>2, <1>6, <1>7, <1>8, <1>9, <1>10

\* What validation derives from a document nobody edited is what building put there.
LEMMA DerivedAsBuilt ==
    ASSUME NEW trace \in Trace
    PROVE  /\ DerivedChain(ToDict(trace).steps) = EvidenceChain(trace)
           /\ ExpectedClaim(ToDict(trace)) = Claim(trace)
           /\ \A decision : DecisionHolds(decision, ToDict(trace)) <=>
                 \A key \in DOMAIN Decision(trace) : decision[key] = Decision(trace)[key]
<1> DEFINE d == ToDict(trace)
           n == Len(trace.steps)
<1>1. /\ n \in Nat /\ DOMAIN trace.steps = 1..n
      /\ DOMAIN d.steps = 1..n /\ Len(d.steps) = n
      /\ d.task = trace.task /\ d.reason = trace.reason
      /\ d.model_calls = trace.model_calls /\ d.verifier_calls = trace.verifier_calls
      /\ \A i \in 1..n : /\ d.steps[i].iteration = i
                         /\ d.steps[i].candidate.content = trace.steps[i].candidate
                         /\ d.steps[i].candidate.fingerprint = trace.steps[i].candidate
                         /\ d.steps[i].evidence = trace.steps[i].evidence
  BY StepsOfDocument
<1> HIDE DEF d
<1>2. DerivedChain(d.steps) = EvidenceChain(trace)
  BY <1>1 DEF DerivedChain, EvidenceChain
<1>3. ExpectedClaim(d) = Claim(trace)
  <2>1. CASE n = 0
    <3>1. d.steps = << >> /\ trace.steps = << >>
      <4>1. trace.steps \in Seq([candidate : Candidates, evidence : Seq(EvidencePacket)])
        BY DEF Trace
      <4>2. trace.steps = << >>
        BY <2>1, <4>1
      <4>3. d.steps = [i \in DOMAIN trace.steps |->
                [iteration |-> i,
                 candidate |-> [content |-> trace.steps[i].candidate,
                                metadata |-> trace.steps[i].candidate,
                                fingerprint |-> trace.steps[i].candidate],
                 evidence |-> trace.steps[i].evidence,
                 residual |-> trace.steps[i].evidence]]
        BY DEF d, ToDict, Trace
      <4> QED
        BY <4>2, <4>3
    <3> QED
      BY <1>1, <3>1 DEF ExpectedClaim, Claim, FinalCandidate
  <2>2. CASE n # 0
    <3>1. d.steps # << >> /\ trace.steps # << >>
      BY <1>1, <2>2
    <3>2. Last(d.steps) = d.steps[n]
      BY <1>1 DEF Last
    <3>3. n \in 1..n
      BY <1>1, <2>2
    <3> QED
      BY <1>1, <3>1, <3>2, <3>3 DEF ExpectedClaim, Claim, FinalCandidate
  <2> QED
    BY <2>1, <2>2
<1>4. ASSUME NEW decision
      PROVE  DecisionHolds(decision, d) <=>
                 \A key \in DOMAIN Decision(trace) : decision[key] = Decision(trace)[key]
  <2>1. DOMAIN Decision(trace) = {"status", "verified", "stopping_reason", "iterations",
                                  "model_calls", "verifier_calls"}
    BY DEF Decision
  <2>2. /\ Decision(trace).status = trace.reason
        /\ Decision(trace).stopping_reason = trace.reason
        /\ Decision(trace).verified = (trace.reason = "VERIFIED")
        /\ Decision(trace).iterations = n
        /\ Decision(trace).model_calls = trace.model_calls
        /\ Decision(trace).verifier_calls = trace.verifier_calls
    BY DEF Decision
  <2> QED
    BY <1>1, <2>1, <2>2 DEF DecisionHolds
<1> QED
  BY <1>2, <1>3, <1>4 DEF d

\* The packets of a round, in the document and in its residual, with values of at
\* most so many JSON values each.
LEMMA RoundWithin ==
    ASSUME NEW e \in Seq(EvidencePacket), NEW v \in Nat,
           \A k \in DOMAIN e : \A x \in PacketValues(e[k]) : Nodes(x) <= v
    PROVE  /\ SumFunction([k \in DOMAIN e |-> PacketNodes(e[k])]) \in Nat
           /\ SumFunction([k \in DOMAIN e |-> ResidualNodes(e[k])]) \in Nat
           /\ SumFunction([k \in DOMAIN e |-> PacketNodes(e[k])]) <= (10 + 3 * v) * Len(e)
           /\ SumFunction([k \in DOMAIN e |-> ResidualNodes(e[k])]) <= (2 + v) * Len(e)
<1> DEFINE f == [k \in DOMAIN e |-> PacketNodes(e[k])]
           g == [k \in DOMAIN e |-> ResidualNodes(e[k])]
           z == [k \in DOMAIN e |-> 0]
<1>1. /\ DOMAIN e = 1..Len(e) /\ Len(e) \in Nat
      /\ \A k \in DOMAIN e : e[k] \in EvidencePacket
  OBVIOUS
<1>2. IsFiniteSet(DOMAIN e) /\ Cardinality(DOMAIN e) = Len(e)
  <2>1. Len(e) = 0 \/ Len(e) >= 1
    BY <1>1
  <2>2. IsFiniteSet(1..Len(e)) /\ Cardinality(1..Len(e)) = Len(e)
    <3> HIDE DEF f, g, z
    <3> QED
      BY <1>1, <2>1, FS_Interval
  <2> QED
    BY <1>1, <2>2
<1>3. ASSUME NEW k \in DOMAIN e
      PROVE  /\ PacketNodes(e[k]) \in Nat /\ PacketNodes(e[k]) <= 10 + 3 * v
             /\ ResidualNodes(e[k]) \in Nat /\ ResidualNodes(e[k]) <= 2 + v
  <2> DEFINE p == e[k]
  <2>1. /\ p.counterexample \in JsonValues /\ p.provenance \in JsonValues
        /\ p.reliability \in JsonValues
    BY <1>1 DEF EvidencePacket, JsonValues
  <2> HIDE DEF p
  <2>2. /\ Nodes(p.counterexample) \in Nat /\ Nodes(p.provenance) \in Nat
        /\ Nodes(p.reliability) \in Nat
    BY <2>1, LimitAssumption
  <2>3. /\ Nodes(p.counterexample) <= v /\ Nodes(p.provenance) <= v
        /\ Nodes(p.reliability) <= v
    BY DEF p, PacketValues
  <2>4. PacketNodes(p) \in Nat /\ PacketNodes(p) <= 10 + 3 * v
    BY <2>2, <2>3 DEF PacketNodes
  <2>5. ResidualNodes(p) \in Nat /\ ResidualNodes(p) <= 2 + v
    BY <2>2, <2>3 DEF ResidualNodes
  <2> QED
    BY <2>4, <2>5 DEF p
<1>4. /\ DOMAIN f = DOMAIN e /\ DOMAIN g = DOMAIN e /\ DOMAIN z = DOMAIN e
      /\ \A k \in DOMAIN e : z[k] = 0 /\ f[k] = PacketNodes(e[k]) /\ g[k] = ResidualNodes(e[k])
  OBVIOUS
<1> HIDE DEF f, g, z
<1>5. 10 + 3 * v \in Nat /\ 2 + v \in Nat /\ 0 \in Nat
  OBVIOUS
<1>6. \A k \in DOMAIN e : f[k] \in Nat /\ z[k] \in Nat /\ f[k] <= (10 + 3 * v) + 0 * z[k]
  BY <1>3, <1>4, <1>5
<1>7. \A k \in DOMAIN e : g[k] \in Nat /\ z[k] \in Nat /\ g[k] <= (2 + v) + 0 * z[k]
  BY <1>3, <1>4, <1>5
<1>8. /\ SumFunction(f) \in Nat /\ SumFunction(z) \in Nat
      /\ SumFunction(f) <= (10 + 3 * v) * Cardinality(DOMAIN e) + 0 * SumFunction(z)
  <2> DEFINE a == 10 + 3 * v
             b == 0
  <2>1. a \in Nat /\ b \in Nat
    BY <1>5
  <2>2. \A k \in DOMAIN e : f[k] \in Nat /\ z[k] \in Nat /\ f[k] <= a + b * z[k]
    BY <1>6
  <2> HIDE DEF a, b
  <2>3. /\ SumFunction(f) \in Nat /\ SumFunction(z) \in Nat
        /\ SumFunction(f) <= a * Cardinality(DOMAIN e) + b * SumFunction(z)
    BY <1>2, <1>4, <2>1, <2>2, SumWithin
  <2> QED
    BY <2>3 DEF a, b
<1>9. /\ SumFunction(g) \in Nat
      /\ SumFunction(g) <= (2 + v) * Cardinality(DOMAIN e) + 0 * SumFunction(z)
  <2> DEFINE a == 2 + v
             b == 0
  <2>1. a \in Nat /\ b \in Nat
    BY <1>5
  <2>2. \A k \in DOMAIN e : g[k] \in Nat /\ z[k] \in Nat /\ g[k] <= a + b * z[k]
    BY <1>7
  <2> HIDE DEF a, b
  <2>3. /\ SumFunction(g) \in Nat
        /\ SumFunction(g) <= a * Cardinality(DOMAIN e) + b * SumFunction(z)
    BY <1>2, <1>4, <2>1, <2>2, SumWithin
  <2> QED
    BY <2>3 DEF a, b
<1>10. 0 * SumFunction(z) = 0 /\ (10 + 3 * v) * Len(e) \in Nat /\ (2 + v) * Len(e) \in Nat
  BY <1>1, <1>5, <1>8
<1> QED
  BY <1>2, <1>8, <1>9, <1>10 DEF f, g

\* What the rounds and packets of a presentable trace account for is all there is.
LEMMA NodesFit ==
    ASSUME NEW trace \in Trace, Presentable(trace)
    PROVE  JsonNodes(Build(trace).payload) <= MaxNodes
<1> DEFINE d == ToDict(trace)
           n == Len(trace.steps)
           lengths == [i \in DOMAIN trace.steps |-> Len(trace.steps[i].evidence)]
           ofSteps == [i \in DOMAIN d.steps |-> StepNodes(d.steps[i])]
           chain == EvidenceChain(trace)
           ofChain == [i \in DOMAIN chain |-> ChainNodes(chain[i])]
           P == PacketCount(trace.steps)
           v == ValueNodes
<1>1. /\ n \in Nat /\ DOMAIN trace.steps = 1..n
      /\ DOMAIN d.steps = 1..n /\ d.errors = trace.errors
      /\ \A i \in 1..n : /\ trace.steps[i].candidate \in Candidates
                         /\ trace.steps[i].evidence \in Seq(EvidencePacket)
                         /\ d.steps[i].candidate.metadata = trace.steps[i].candidate
                         /\ d.steps[i].evidence = trace.steps[i].evidence
                         /\ d.steps[i].residual = trace.steps[i].evidence
  BY StepsOfDocument
<1>2. IsFiniteSet(1..n) /\ Cardinality(1..n) = n
  <2>1. n \in Nat /\ (n = 0 \/ n >= 1)
    BY <1>1
  <2> HIDE DEF n
  <2> QED
    BY <2>1, FS_Interval
<1>3. v \in Nat /\ trace.errors \in Nat /\ MaxNodes \in Nat
  BY StoreAssumption, LimitAssumption DEF Trace
<1>4. Build(trace).payload.trace = d /\ Build(trace).payload.evidence_chain = chain
  BY DEF Build, Sign
<1> HIDE DEF d, v
<1>5. ASSUME NEW i \in 1..n
      PROVE  /\ lengths[i] \in Nat /\ StepNodes(d.steps[i]) \in Nat
             /\ StepNodes(d.steps[i]) <= (16 + v) + (12 + 4 * v) * lengths[i]
             /\ ChainNodes(chain[i]) = 4 + 8 * lengths[i]
  <2> DEFINE e == trace.steps[i].evidence
             l == Len(e)
             pn == SumFunction([k \in DOMAIN e |-> PacketNodes(e[k])])
             rn == SumFunction([k \in DOMAIN e |-> ResidualNodes(e[k])])
             m == Nodes(trace.steps[i].candidate)
  <2>1. e \in Seq(EvidencePacket) /\ l \in Nat /\ lengths[i] = l
    BY <1>1
  <2>2. \A k \in DOMAIN e : \A x \in PacketValues(e[k]) : Nodes(x) <= v
    BY <1>1 DEF Presentable, Modest, v
  <2>3. /\ pn \in Nat /\ rn \in Nat
        /\ pn <= (10 + 3 * v) * l /\ rn <= (2 + v) * l
    <3> HIDE DEF e
    <3> QED
      BY <1>3, <2>1, <2>2, RoundWithin
  <2>4. m \in Nat /\ m <= v
    <3>1. trace.steps[i].candidate \in JsonValues
      BY <1>1 DEF JsonValues
    <3>2. Modest(trace.steps[i].candidate)
      BY <1>1 DEF Presentable
    <3> QED
      BY <3>1, <3>2, LimitAssumption DEF Modest, v
  <2>5. StepNodes(d.steps[i]) = 16 + m + pn + rn
    BY <1>1 DEF StepNodes
  <2>6. ChainNodes(chain[i]) = 4 + 8 * l
    <3>1. chain[i].packets = PacketSummaries(e)
      BY <1>1 DEF EvidenceChain
    <3>2. Len(PacketSummaries(e)) = l
      <4> HIDE DEF e
      <4>1. DOMAIN e = 1..l
        BY <2>1
      <4> QED
        BY <2>1, <4>1 DEF PacketSummaries
    <3> HIDE DEF chain, e
    <3> QED
      BY <3>1, <3>2 DEF ChainNodes
  <2> HIDE DEF pn, rn, m, l, lengths, chain
  <2>7. (10 + 3 * v) * l + (2 + v) * l = (12 + 4 * v) * l
    BY <1>3, <2>1
  <2> DEFINE a == (10 + 3 * v) * l
             b == (2 + v) * l
             c == (12 + 4 * v) * l
  <2>8. a \in Nat /\ b \in Nat /\ c \in Nat /\ a + b = c /\ pn <= a /\ rn <= b
    BY <1>3, <2>1, <2>3, <2>7
  <2> HIDE DEF a, b, c
  <2>9. 16 + m + pn + rn \in Nat /\ 16 + m + pn + rn <= (16 + v) + c
    BY <1>3, <2>3, <2>4, <2>8
  <2> QED
    BY <2>1, <2>5, <2>6, <2>9 DEF c
<1>6. /\ DOMAIN lengths = 1..n /\ DOMAIN ofSteps = 1..n /\ DOMAIN ofChain = 1..n
      /\ \A i \in 1..n : ofSteps[i] = StepNodes(d.steps[i]) /\ ofChain[i] = ChainNodes(chain[i])
  BY <1>1 DEF EvidenceChain
<1>7. P = SumFunction(lengths)
  BY DEF PacketCount
<1>8. JsonNodes(Build(trace).payload) =
          38 + 4 * trace.errors + SumFunction(ofSteps) + SumFunction(ofChain)
  BY <1>1, <1>4 DEF JsonNodes, FixedNodes
<1>9. 38 + 4 * trace.errors + (20 + v) * n + (20 + 4 * v) * P <= MaxNodes
  BY DEF Presentable, FixedNodes, v
<1> HIDE DEF lengths, ofSteps, ofChain, chain, n, P
<1>10. /\ P \in Nat /\ SumFunction(ofSteps) \in Nat
       /\ SumFunction(ofSteps) <= (16 + v) * n + (12 + 4 * v) * P
  <2> DEFINE a == 16 + v
             b == 12 + 4 * v
  <2>1. a \in Nat /\ b \in Nat
    BY <1>3
  <2>2. \A i \in 1..n : /\ ofSteps[i] \in Nat /\ lengths[i] \in Nat
                        /\ ofSteps[i] <= a + b * lengths[i]
    BY <1>5, <1>6
  <2> HIDE DEF a, b
  <2>3. /\ SumFunction(ofSteps) \in Nat /\ SumFunction(lengths) \in Nat
        /\ SumFunction(ofSteps) <= a * Cardinality(1..n) + b * SumFunction(lengths)
    BY <1>2, <1>6, <2>1, <2>2, SumWithin
  <2> QED
    BY <1>2, <1>7, <2>3 DEF a, b
<1>11. SumFunction(ofChain) \in Nat /\ SumFunction(ofChain) <= 4 * n + 8 * P
  <2> DEFINE a == 4
             b == 8
  <2>1. a \in Nat /\ b \in Nat
    OBVIOUS
  <2>2. \A i \in 1..n : /\ ofChain[i] \in Nat /\ lengths[i] \in Nat
                        /\ ofChain[i] <= a + b * lengths[i]
    BY <1>5, <1>6
  <2> HIDE DEF a, b
  <2>3. /\ SumFunction(ofChain) \in Nat /\ SumFunction(lengths) \in Nat
        /\ SumFunction(ofChain) <= a * Cardinality(1..n) + b * SumFunction(lengths)
    BY <1>2, <1>6, <2>1, <2>2, SumWithin
  <2> QED
    BY <1>2, <1>7, <2>3 DEF a, b
<1>12. /\ (16 + v) * n + 4 * n = (20 + v) * n
       /\ (12 + 4 * v) * P + 8 * P = (20 + 4 * v) * P
       /\ (16 + v) * n \in Nat /\ (12 + 4 * v) * P \in Nat
       /\ (20 + v) * n \in Nat /\ (20 + 4 * v) * P \in Nat
  BY <1>1, <1>3, <1>10
<1> DEFINE sn == (16 + v) * n
           sp == (12 + 4 * v) * P
           tn == (20 + v) * n
           tp == (20 + 4 * v) * P
           x == SumFunction(ofSteps)
           y == SumFunction(ofChain)
<1>13. /\ sn \in Nat /\ sp \in Nat /\ tn \in Nat /\ tp \in Nat
       /\ sn + 4 * n = tn /\ sp + 8 * P = tp
       /\ x \in Nat /\ y \in Nat /\ x <= sn + sp /\ y <= 4 * n + 8 * P
       /\ 38 + 4 * trace.errors + tn + tp <= MaxNodes
       /\ JsonNodes(Build(trace).payload) = 38 + 4 * trace.errors + x + y
  BY <1>8, <1>9, <1>10, <1>11, <1>12
<1>14. n \in Nat /\ P \in Nat /\ trace.errors \in Nat /\ MaxNodes \in Nat
  BY <1>1, <1>3, <1>10
<1> HIDE DEF sn, sp, tn, tp, x, y
<1> DEFINE r == trace.errors
<1> HIDE DEF r
<1> QED
  BY <1>13, <1>14

\* What is built from a presentable trace is accepted.
LEMMA BuiltIsAccepted ==
    ASSUME NEW trace \in Trace, Presentable(trace)
    PROVE  Accepted(Build(trace))
<1> DEFINE d == ToDict(trace)
           b == Build(trace).payload
<1>1. /\ DOMAIN trace.steps = 1..Len(trace.steps) /\ DOMAIN d.steps = DOMAIN trace.steps
      /\ \A i \in DOMAIN trace.steps :
            /\ trace.steps[i].candidate \in Candidates
            /\ trace.steps[i].evidence \in Seq(EvidencePacket)
            /\ d.steps[i].candidate.metadata = trace.steps[i].candidate
            /\ d.steps[i].evidence = trace.steps[i].evidence
            /\ d.steps[i].residual = trace.steps[i].evidence
  BY StepsOfDocument
<1>2. /\ b.trace = d /\ Build(trace).artifact_hash = b
      /\ b.evidence_chain = EvidenceChain(trace) /\ b.claim = Claim(trace)
      /\ b.decision = Decision(trace)
  BY DEF Build, Sign
<1>3. PacketsHold(d.steps)
  <2>1. PacketCount(d.steps) = PacketCount(trace.steps)
    <3>1. [i \in DOMAIN d.steps |-> Len(d.steps[i].evidence)]
              = [i \in DOMAIN trace.steps |-> Len(trace.steps[i].evidence)]
      <4> HIDE DEF d
      <4> QED
        BY <1>1
    <3> HIDE DEF d
    <3> QED
      BY <3>1 DEF PacketCount
  <2>2. PacketCount(trace.steps) <= MaxPackets
    BY DEF Presentable
  <2>3. \A i \in DOMAIN d.steps : \A k \in DOMAIN d.steps[i].evidence :
            ValidateHash(d.steps[i].evidence[k])
    <3>1. \A i \in DOMAIN trace.steps : \A k \in DOMAIN trace.steps[i].evidence :
              ValidateHash(trace.steps[i].evidence[k])
      BY DEF Presentable
    <3> HIDE DEF d
    <3> QED
      BY <1>1, <3>1
  <2> HIDE DEF d
  <2> QED
    BY <2>1, <2>2, <2>3 DEF PacketsHold
<1>4. DepthHolds(b)
  <2> SUFFICES ASSUME NEW i \in DOMAIN trace.steps
               PROVE  /\ 5 + Depth(trace.steps[i].candidate) <= MaxDepth
                      /\ \A k \in DOMAIN trace.steps[i].evidence :
                            \A v \in PacketValues(trace.steps[i].evidence[k]) :
                                6 + Depth(v) <= MaxDepth
    <3>1. \A p : p.counterexample \in PacketValues(p)
      BY DEF PacketValues
    <3> HIDE DEF d, b
    <3> QED
      BY <1>1, <1>2, <3>1 DEF DepthHolds
  <2>1. \A k \in DOMAIN trace.steps[i].evidence :
            \A v \in PacketValues(trace.steps[i].evidence[k]) : 6 + Depth(v) <= MaxDepth
    BY DEF Presentable, Modest
  <2>2. 6 + Depth(trace.steps[i].candidate) <= MaxDepth
    BY DEF Presentable, Modest
  <2>3. Depth(trace.steps[i].candidate) \in Nat /\ MaxDepth \in Nat
    <3>1. trace.steps[i].candidate \in JsonValues
      BY <1>1 DEF JsonValues
    <3> QED
      BY <3>1, LimitAssumption
  <2> QED
    BY <2>1, <2>2, <2>3
<1>5. JsonNodes(b) <= MaxNodes
  BY NodesFit
<1>6. DecisionHolds(Decision(trace), d)
  BY DerivedAsBuilt
<1>7. DerivedChain(d.steps) = EvidenceChain(trace) /\ ExpectedClaim(d) = Claim(trace)
  BY DerivedAsBuilt
<1> HIDE DEF d, b
<1> QED
  BY <1>2, <1>3, <1>4, <1>5, <1>6, <1>7 DEF b, Accepted, EnforceJsonLimits

\* Types, and: without an edit whatever artifact is there is one of some run.
FileInv ==
    /\ Whole => Shape(file) /\ PayloadShape(file.artifact_hash)
    /\ handle \subseteq {w \in Writers : at[w] = "write"}
    /\ \A w \in Writers : rendered[w] \in Written \cup {None}
    /\ reader \in {"idle", "read"}
    /\ loaded # None => Shape(loaded) /\ PayloadShape(loaded.artifact_hash)
    /\ begun \in 0..MaxWrites /\ edits \in 0..MaxEdits
    /\ acknowledged \subseteq Written
    /\ changed \in BOOLEAN /\ resigned \in BOOLEAN
    /\ Whole /\ edits = 0 => file \in Written

\* The hash of a rendered artifact is over a payload of the right fields.
LEMMA WrittenSigned ==
    ASSUME NEW a \in Written
    PROVE  Shape(a) /\ PayloadShape(a.artifact_hash)
BY DEF Written, Build, Sign, Shape, PayloadShape

\* A step that changes what is at the destination only to something that is no
\* artifact or to one of some run.
LEMMA FileInvKept ==
    ASSUME FileInv, file' \in {file, None, Empty, Debris} \cup Written,
           UNCHANGED <<loaded, edits, resigned>>,
           handle' \subseteq {w \in Writers : at'[w] = "write"},
           \A w \in Writers : rendered'[w] \in Written \cup {None},
           reader' \in {"idle", "read"}, begun' \in 0..MaxWrites, changed' \in BOOLEAN,
           acknowledged' \subseteq Written
    PROVE  FileInv'
<1>1. CASE file' = file
  BY <1>1 DEF FileInv, Whole
<1>2. CASE file' \in {None, Empty, Debris}
  BY <1>2 DEF FileInv, Whole
<1>3. CASE file' \in Written
  BY <1>3, WrittenSigned DEF FileInv
<1> QED
  BY <1>1, <1>2, <1>3

\* Without an edit nothing but rendered artifacts gets into the file.
LEMMA FileInvInductive ==
    ASSUME RenderedInv, FileInv, [Next]_vars
    PROVE  FileInv'
<1> USE DEF reading, history, counts, writing
<1>0. /\ begun \in Nat /\ edits \in Nat /\ MaxWrites \in Nat /\ MaxEdits \in Nat
      /\ at \in [Writers -> {"idle", "exists", "compare", "open", "write"}]
      /\ rendered = [w \in Writers |-> rendered[w]]
      /\ \A w \in Writers : at[w] # "idle" => rendered[w] \in Written
      /\ handle \subseteq {w \in Writers : at[w] = "write"}
      /\ \A w \in Writers : rendered[w] \in Written \cup {None}
      /\ acknowledged \subseteq Written /\ reader \in {"idle", "read"}
      /\ begun \in 0..MaxWrites /\ changed \in BOOLEAN
  BY StoreAssumption DEF FileInv, RenderedInv
<1>a. ASSUME NEW w \in Writers, End(w), handle' \subseteq handle \ {w}
      PROVE  /\ handle' \subseteq {v \in Writers : at'[v] = "write"}
             /\ \A v \in Writers : rendered'[v] \in Written \cup {None}
  BY <1>0, <1>a DEF End
<1>1. ASSUME NEW w \in Writers, NEW trace \in Traces, Render(w, trace)
      PROVE  FileInv'
  <2>1. handle' \subseteq {v \in Writers : at'[v] = "write"}
    BY <1>0, <1>1 DEF Render
  <2>2. \A v \in Writers : rendered'[v] \in Written \cup {None}
    BY <1>0, <1>1 DEF Render, Written
  <2>3. begun' \in 0..MaxWrites
    BY <1>0, <1>1 DEF Render
  <2> QED
    BY <1>0, <1>1, <2>1, <2>2, <2>3, FileInvKept DEF Render
<1>2. ASSUME NEW w \in Writers, LookForFile(w)
      PROVE  FileInv'
  <2>1. handle' \subseteq {v \in Writers : at'[v] = "write"}
    BY <1>0, <1>2 DEF LookForFile, Go
  <2> QED
    BY <1>0, <1>2, <2>1, FileInvKept DEF LookForFile, Go
<1>3. ASSUME NEW w \in Writers, Compare(w)
      PROVE  FileInv'
  <2>1. handle' \subseteq handle \ {w} /\ acknowledged' \subseteq Written
    BY <1>0, <1>3 DEF Compare
  <2> QED
    BY <1>0, <1>a, <1>3, <2>1, FileInvKept DEF Compare
<1>4. ASSUME NEW w \in Writers, OpenFile(w)
      PROVE  FileInv'
  <2>1. handle' \subseteq {v \in Writers : at'[v] = "write"}
    BY <1>0, <1>4 DEF OpenFile, Go
  <2> QED
    BY <1>0, <1>4, <2>1, FileInvKept DEF OpenFile, Go
<1>5. ASSUME NEW w \in Writers, FillFile(w)
      PROVE  FileInv'
  <2>1. rendered[w] \in Written
    BY <1>0, <1>5 DEF FillFile
  <2>2. acknowledged' \subseteq Written /\ file' \in {file, Debris} \cup Written
    BY <1>0, <1>5, <2>1 DEF FillFile
  <2> QED
    BY <1>0, <1>a, <1>5, <2>2, FileInvKept DEF FillFile
<1>6. ASSUME NEW w \in Writers, Fail(w)
      PROVE  FileInv'
  <2>1. file' \in {file, Debris}
    BY <1>6 DEF Fail
  <2> QED
    BY <1>0, <1>a, <1>6, <2>1, FileInvKept DEF Fail
<1>7. CASE StatFile
  BY <1>0, <1>7, FileInvKept DEF StatFile
<1>8. CASE LoadFile
  BY <1>8 DEF LoadFile, FileInv, Whole
<1>9. CASE RemoveFile
  BY <1>0, <1>9, FileInvKept DEF RemoveFile
<1>10. ASSUME Whole, NEW payload \in PayloadEdits(file.payload), NEW resign \in BOOLEAN,
              EditFile(payload, resign)
       PROVE  FileInv'
  <2>1. /\ file' = [payload |-> payload,
                    artifact_hash |-> IF resign THEN payload ELSE file.artifact_hash]
        /\ edits' = edits + 1 /\ edits < MaxEdits /\ acknowledged' = {}
        /\ changed' \in BOOLEAN /\ resigned' \in BOOLEAN
    BY <1>10 DEF EditFile, FileInv
  <2>2. PayloadShape(payload)
    BY <1>10, EditedShape DEF FileInv, Shape
  <2>3. Shape(file') /\ PayloadShape(file'.artifact_hash)
    BY <1>10, <2>1, <2>2 DEF Shape, FileInv
  <2>4. edits' \in 0..MaxEdits /\ edits' # 0
    BY <1>0, <2>1
  <2> QED
    BY <1>0, <1>10, <2>1, <2>3, <2>4 DEF EditFile, FileInv
<1>11. CASE UNCHANGED vars
  BY <1>11 DEF vars, FileInv, Whole
<1> QED
  BY <1>1, <1>2, <1>3, <1>4, <1>5, <1>6, <1>7, <1>8, <1>9, <1>10, <1>11
     DEF Next, Write, Read, User

\* At first no artifact is at the destination.
LEMMA FileInvInitially == Init => FileInv
<1> SUFFICES ASSUME Init PROVE FileInv
  OBVIOUS
<1>1. ~Whole
  BY DEF Init, Whole
<1>2. handle = {} /\ acknowledged = {} /\ loaded = None
  BY DEF Init
<1>3. \A w \in Writers : rendered[w] = None
  BY DEF Init
<1>4. begun \in 0..MaxWrites /\ edits \in 0..MaxEdits
  <2>1. begun = 0 /\ edits = 0 /\ MaxWrites \in Nat /\ MaxEdits \in Nat
    BY StoreAssumption DEF Init
  <2> QED
    BY <2>1
<1>5. reader \in {"idle", "read"} /\ changed \in BOOLEAN /\ resigned \in BOOLEAN
  BY DEF Init
<1> QED
  BY <1>1, <1>2, <1>3, <1>4, <1>5 DEF FileInv

\* Type correctness of the file, its writers and its reader.
THEOREM TypeCorrect == Spec => []TypeOK
<1>1. RenderedInv /\ FileInv => TypeOK
  <2> SUFFICES ASSUME RenderedInv, FileInv PROVE TypeOK
    OBVIOUS
  <2>1. \A a : Shape(a) /\ PayloadShape(a.artifact_hash) => ArtifactOrNone(a)
    BY DEF Shape, PayloadShape, ArtifactOrNone
  <2>2. \A a \in Written \cup {None} : ArtifactOrNone(a)
    BY <2>1, WrittenSigned DEF ArtifactOrNone
  <2>3. ArtifactOrNone(loaded)
    BY <2>1 DEF FileInv, ArtifactOrNone
  <2> QED
    BY <2>1, <2>2, <2>3 DEF RenderedInv, FileInv, TypeOK
<1> QED
  BY <1>1, RenderedInvInitially, RenderedInvInductive, FileInvInitially,
     FileInvInductive, PTL DEF Spec

\* Building and validating agree: whatever the runs and the writers did, a file
\* nobody edited is one run's, and accepted if that run's trace is presentable.
THEOREM WrittenIsAccepted == Spec => []WrittenIsReadable
<1>1. FileInv => WrittenIsReadable
  <2> SUFFICES ASSUME FileInv, Whole, edits = 0
               PROVE  \E trace \in Traces :
                          file = Build(trace) /\ (Presentable(trace) => Accepted(file))
    BY DEF WrittenIsReadable
  <2>1. PICK trace \in Traces : file = Build(trace)
    BY DEF FileInv, Written
  <2>2. trace \in Trace
    BY StoreAssumption
  <2>3. Presentable(trace) => Accepted(file)
    BY <2>1, <2>2, BuiltIsAccepted
  <2> QED
    BY <2>1, <2>3
<1> QED
  BY <1>1, RenderedInvInitially, RenderedInvInductive, FileInvInitially,
     FileInvInductive, PTL DEF Spec

----------------------------------------------------------------------------
(* One edit *)

\* What a document of this trace claims, summarises and decides.
Decided(p, trace) ==
    /\ p.claim = Claim(trace)
    /\ p.evidence_chain = EvidenceChain(trace)
    /\ \A key \in DOMAIN Decision(trace) : p.decision[key] = Decision(trace)[key]

\* An edit of one part leaves the embedded trace alone or all that was derived.
LEMMA OnePart ==
    ASSUME NEW p, PayloadShape(p), NEW q \in PayloadEdits(p)
    PROVE  \/ q.trace = p.trace
           \/ /\ q.claim = p.claim /\ q.evidence_chain = p.evidence_chain
              /\ q.decision = p.decision
<1>1. CASE \E trace \in TraceEdits(p.trace) : q = [p EXCEPT !.trace = trace]
  BY <1>1 DEF PayloadShape
<1>2. CASE \E c \in Candidates : q = [p EXCEPT !.claim.candidate = c]
  BY <1>2 DEF PayloadShape
<1>3. CASE q = [p EXCEPT !.decision.verified = TRUE]
  BY <1>3 DEF PayloadShape
<1>4. CASE q = [p EXCEPT !.decision = WithRemark(p.decision)]
  BY <1>4 DEF PayloadShape
<1>5. CASE q = [p EXCEPT !.evidence_chain = << >>]
  BY <1>5 DEF PayloadShape
<1>6. CASE q = [p EXCEPT !.evidence_chain = DerivedChain(p.trace.steps),
                         !.claim = ExpectedClaim(p.trace)]
  BY <1>6 DEF PayloadShape
<1> QED
  BY <1>1, <1>2, <1>3, <1>4, <1>5, <1>6 DEF PayloadEdits

\* Whatever one edit of a written document does, if it is accepted it decides as the
\* run did: either the trace is the run's, from which the rest is derived, or the
\* rest is untouched.
LEMMA OneEditDecided ==
    ASSUME NEW trace \in Trace, NEW a, Accepted(a),
           \/ a.payload = Build(trace).payload
           \/ a.payload \in PayloadEdits(Build(trace).payload)
    PROVE  Decided(a.payload, trace)
<1> DEFINE b == Build(trace).payload
           q == a.payload
<1>1. /\ b.trace = ToDict(trace) /\ b.claim = Claim(trace)
      /\ b.evidence_chain = EvidenceChain(trace) /\ b.decision = Decision(trace)
  BY DEF Build, Sign
<1>2. PayloadShape(b)
  BY DEF Build, Sign, PayloadShape
<1> HIDE DEF b, q
<1>3. \/ q.trace = b.trace
      \/ /\ q.claim = b.claim /\ q.evidence_chain = b.evidence_chain
         /\ q.decision = b.decision
  BY <1>2, OnePart DEF b, q
<1>4. CASE q.trace = b.trace
  <2>1. /\ q.evidence_chain = DerivedChain(q.trace.steps)
        /\ q.claim = ExpectedClaim(q.trace)
        /\ DecisionHolds(q.decision, q.trace)
    BY DEF q, Accepted
  <2>2. q.trace = ToDict(trace)
    BY <1>1, <1>4
  <2> QED
    BY <2>1, <2>2, DerivedAsBuilt DEF Decided, q
<1>5. CASE /\ q.claim = b.claim /\ q.evidence_chain = b.evidence_chain
           /\ q.decision = b.decision
  BY <1>1, <1>5 DEF Decided, q
<1> QED
  BY <1>3, <1>4, <1>5

\* Within one edit the document is a run's or one edit away from it.
EditedInv ==
    /\ Whole /\ edits <= 1 =>
          \E trace \in Traces :
              \/ file.payload = Build(trace).payload
              \/ file.payload \in PayloadEdits(Build(trace).payload)
    /\ OneEditKeepsTheDecision

\* A step without an edit or a reading.
LEMMA EditedInvKept ==
    ASSUME EditedInv, file' \in {file, None, Empty, Debris} \cup Written,
           UNCHANGED <<loaded, edits>>
    PROVE  EditedInv'
<1>1. OneEditKeepsTheDecision'
  BY DEF EditedInv, OneEditKeepsTheDecision
<1>2. CASE file' = file
  BY <1>1, <1>2 DEF EditedInv, Whole
<1>3. CASE file' \in {None, Empty, Debris}
  BY <1>1, <1>3 DEF EditedInv, Whole
<1>4. CASE file' \in Written
  BY <1>1, <1>4 DEF EditedInv, Written
<1> QED
  BY <1>2, <1>3, <1>4

\* The first edit is made to a document that some run wrote.
LEMMA EditedInvInductive ==
    ASSUME RenderedInv, FileInv, EditedInv, [Next]_vars
    PROVE  EditedInv'
<1> USE DEF reading, history, counts, writing
<1>1. ASSUME NEW w \in Writers, NEW trace \in Traces, Render(w, trace)
      PROVE  EditedInv'
  BY <1>1, EditedInvKept DEF Render
<1>2. ASSUME NEW w \in Writers, LookForFile(w) \/ Compare(w) \/ OpenFile(w)
      PROVE  EditedInv'
  BY <1>2, EditedInvKept DEF LookForFile, Compare, OpenFile
<1>3. ASSUME NEW w \in Writers, FillFile(w)
      PROVE  EditedInv'
  BY <1>3, EditedInvKept DEF FillFile, RenderedInv
<1>4. ASSUME NEW w \in Writers, Fail(w)
      PROVE  EditedInv'
  BY <1>4, EditedInvKept DEF Fail
<1>5. CASE StatFile
  BY <1>5, EditedInvKept DEF StatFile
<1>6. CASE LoadFile
  <2>1. CASE loaded' = loaded
    BY <1>6, <2>1, EditedInvKept DEF LoadFile
  <2>2. CASE loaded' # loaded
    <3>1. Whole /\ Accepted(file) /\ loaded' = file /\ UNCHANGED <<file, edits>>
      BY <1>6, <2>2 DEF LoadFile
    <3>2. ASSUME edits <= 1
          PROVE  \E trace \in Traces : Decided(file.payload, trace)
      <4>1. PICK trace \in Traces :
                \/ file.payload = Build(trace).payload
                \/ file.payload \in PayloadEdits(Build(trace).payload)
        BY <3>1, <3>2 DEF EditedInv
      <4>2. trace \in Trace
        BY StoreAssumption
      <4>3. Decided(file.payload, trace)
        BY <3>1, <4>1, <4>2, OneEditDecided
      <4> QED
        BY <4>3
    <3>3. OneEditKeepsTheDecision'
      BY <3>1, <3>2 DEF OneEditKeepsTheDecision, Decided
    <3> QED
      BY <3>1, <3>3 DEF EditedInv, Whole
  <2> QED
    BY <2>1, <2>2
<1>7. CASE RemoveFile
  BY <1>7, EditedInvKept DEF RemoveFile
<1>8. ASSUME Whole, NEW payload \in PayloadEdits(file.payload), NEW resign \in BOOLEAN,
             EditFile(payload, resign)
      PROVE  EditedInv'
  <2>1. file'.payload = payload /\ edits' = edits + 1 /\ loaded' = loaded
    BY <1>8 DEF EditFile
  <2>2. edits \in Nat
    BY StoreAssumption DEF FileInv
  <2>3. OneEditKeepsTheDecision'
    BY <2>1, <2>2 DEF EditedInv, OneEditKeepsTheDecision
  <2>4. ASSUME edits' <= 1
        PROVE  \E trace \in Traces : file'.payload \in PayloadEdits(Build(trace).payload)
    <3>1. edits = 0
      BY <2>1, <2>2, <2>4
    <3>2. PICK trace \in Traces : file = Build(trace)
      BY <1>8, <3>1 DEF FileInv, Written
    <3> QED
      BY <1>8, <2>1, <3>2
  <2> QED
    BY <2>3, <2>4 DEF EditedInv
<1>9. CASE UNCHANGED vars
  BY <1>9, EditedInvKept DEF vars
<1> QED
  BY <1>1, <1>2, <1>3, <1>4, <1>5, <1>6, <1>7, <1>8, <1>9 DEF Next, Write, Read, User

\* There is no document yet.
LEMMA EditedInvInitially == Init => EditedInv
BY DEF Init, EditedInv, OneEditKeepsTheDecision, Whole

\* An editor who recomputes the artifact's hash cannot make one edit of one part that
\* is accepted and claims, summarises or decides anything the run did not.
THEOREM OneEditIsNotEnough == Spec => []OneEditKeepsTheDecision
<1>1. EditedInv => OneEditKeepsTheDecision
  BY DEF EditedInv
<1> QED
  BY <1>1, RenderedInvInitially, RenderedInvInductive, FileInvInitially,
     FileInvInductive, EditedInvInitially, EditedInvInductive, PTL DEF Spec
=============================================================================
