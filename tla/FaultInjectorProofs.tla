------------------------ MODULE FaultInjectorProofs ------------------------
(***************************************************************************)
(* What holds of an injector with any chain of configurations, any         *)
(* schedule, any order of steps and flushes at any time.                   *)
(***************************************************************************)
EXTENDS FaultInjector, SequenceLemmas

----------------------------------------------------------------------------
(* The dictionary of pending packets *)

Packet ==
    [checked_claim : Claims, status : Status,
     counterexample : Counterexamples \cup {None},
     provenance : [call : Nat, status : Status], reliability : Reliability,
     independence : Independence, llm_produced : BOOLEAN, sealed : BOOLEAN]

IsPending(d) ==
    /\ DOMAIN d \subseteq Nat
    /\ IsFiniteSet(DOMAIN d)
    /\ \A r \in DOMAIN d : d[r] \in Seq(Packet)

\* What is pending under the first m release steps.
Upto(d, m) == FlattenSeq([n \in 1..m |-> PendingAt(d, n - 1)])

\* What is pending under a step is a list of packets.
LEMMA PendingAtType ==
    ASSUME NEW d, IsPending(d), NEW r
    PROVE  PendingAt(d, r) \in Seq(Packet)
BY DEF PendingAt, IsPending

\* The walk over the dictionary in order of the release steps.
LEMMA UptoIsInReleaseOrder ==
    ASSUME NEW d, NEW last \in Nat
    PROVE  InReleaseOrder(d, last) = Upto(d, last + 1)
BY DEF InReleaseOrder, Upto

\* Nothing is pending before step 0.
LEMMA UptoZero ==
    ASSUME NEW d
    PROVE  Upto(d, 0) = << >>
<1>1. [n \in 1..0 |-> PendingAt(d, n - 1)] = << >>
  OBVIOUS
<1> QED
  BY <1>1 DEF Upto, FlattenSeq

\* The walk yields packets.
LEMMA UptoType ==
    ASSUME NEW d, IsPending(d), NEW m \in Nat
    PROVE  Upto(d, m) \in Seq(Packet)
<1> DEFINE ss == [n \in 1..m |-> PendingAt(d, n - 1)]
<1>1. \A n \in 1..m : PendingAt(d, n - 1) \in Seq(Packet)
  BY PendingAtType
<1>2. ss \in Seq(Seq(Packet))
  BY <1>1
<1> QED
  BY <1>2, FlattenType DEF Upto

\* The next release step comes after those before.
LEMMA UptoNext ==
    ASSUME NEW d, IsPending(d), NEW m \in Nat
    PROVE  Upto(d, m + 1) = Upto(d, m) \o PendingAt(d, m)
<1> DEFINE ss == [n \in 1..m |-> PendingAt(d, n - 1)]
           tt == [n \in 1..(m + 1) |-> PendingAt(d, n - 1)]
<1>1. \A n \in 1..(m + 1) : PendingAt(d, n - 1) \in Seq(Packet)
  BY PendingAtType
<1>2. ss \in Seq(Seq(Packet)) /\ Len(ss) = m
  BY <1>1
<1>3. tt = Append(ss, PendingAt(d, m))
  <2> DEFINE V == Seq(Packet)
  <2>1. PendingAt(d, m) \in V /\ ss \in Seq(V)
    BY <1>2, PendingAtType
  <2> HIDE DEF V
  <2>2. Append(ss, PendingAt(d, m)) = [n \in 1..(m + 1) |->
                IF n \in 1..m THEN ss[n] ELSE PendingAt(d, m)]
    BY <2>1, <1>2
  <2>3. \A n \in 1..(m + 1) : n \notin 1..m => n - 1 = m
    OBVIOUS
  <2>4. \A n \in 1..(m + 1) : tt[n] = IF n \in 1..m THEN ss[n] ELSE PendingAt(d, m)
    BY <2>3
  <2> QED
    BY <2>2, <2>4
<1>4. FlattenSeq(Append(ss, PendingAt(d, m))) = FlattenSeq(ss) \o PendingAt(d, m)
  <2> HIDE DEF ss
  <2> QED
    BY <1>2, PendingAtType, FlattenAppend
<1> QED
  BY <1>3, <1>4 DEF Upto

\* Only what is under the release steps matters.
LEMMA UptoSame ==
    ASSUME NEW d, NEW e, NEW m \in Nat,
           \A r \in Nat : r < m => PendingAt(d, r) = PendingAt(e, r)
    PROVE  Upto(d, m) = Upto(e, m)
<1>1. [n \in 1..m |-> PendingAt(d, n - 1)] = [n \in 1..m |-> PendingAt(e, n - 1)]
  <2>1. \A n \in 1..m : n - 1 \in Nat /\ n - 1 < m
    OBVIOUS
  <2> QED
    BY <2>1
<1> QED
  BY <1>1 DEF Upto

\* Beyond the last release step nothing is added.
LEMMA UptoBeyond ==
    ASSUME NEW d, IsPending(d), NEW m \in Nat, NEW n \in Nat, m <= n,
           \A r \in DOMAIN d : r < m \/ n <= r
    PROVE  Upto(d, n) = Upto(d, m)
<1> DEFINE S == {k \in Nat : m + k <= n => Upto(d, m + k) = Upto(d, m)}
<1>1. 0 \in S
  OBVIOUS
<1>2. ASSUME NEW k \in Nat, k \in S
      PROVE  k + 1 \in S
  <2> SUFFICES ASSUME m + (k + 1) <= n
               PROVE  Upto(d, m + (k + 1)) = Upto(d, m)
    OBVIOUS
  <2>1. Upto(d, m + k) = Upto(d, m)
    BY <1>2
  <2>2. m + k \in Nat /\ m + (k + 1) = (m + k) + 1
    OBVIOUS
  <2>3. PendingAt(d, m + k) = << >>
    BY DEF PendingAt
  <2>4. Upto(d, (m + k) + 1) = Upto(d, m + k) \o << >>
    BY <2>2, <2>3, UptoNext
  <2>5. Upto(d, m) \in Seq(Packet)
    BY UptoType
  <2> QED
    BY <2>1, <2>2, <2>4, <2>5
<1>3. n - m \in S
  <2> HIDE DEF S
  <2> QED
    BY <1>1, <1>2, Induction, n - m \in Nat
<1> QED
  BY <1>3, m + (n - m) = n

\* The copies of packets of T under the first m release steps.
CountUpto(d, m, T) == Count(Upto(d, m), T)

\* One more release step adds what is pending under it.
LEMMA CountUptoNext ==
    ASSUME NEW d, IsPending(d), NEW m \in Nat, NEW T
    PROVE  /\ CountUpto(d, m, T) \in Nat
           /\ Count(PendingAt(d, m), T) \in Nat
           /\ CountUpto(d, m + 1, T) = CountUpto(d, m, T) + Count(PendingAt(d, m), T)
<1>1. Upto(d, m) \in Seq(Packet) /\ PendingAt(d, m) \in Seq(Packet)
  BY UptoType, PendingAtType
<1>2. Count(Upto(d, m) \o PendingAt(d, m), T)
      = Count(Upto(d, m), T) + Count(PendingAt(d, m), T)
  BY <1>1, CountConcat
<1>3. Count(Upto(d, m), T) \in Nat /\ Count(PendingAt(d, m), T) \in Nat
  BY <1>1, CountType
<1> QED
  BY <1>2, <1>3, UptoNext DEF CountUpto

\* Dictionaries that divide the packets of another divide their number.
LEMMA CountUptoSum ==
    ASSUME NEW d, NEW d1, NEW d2, IsPending(d), IsPending(d1), IsPending(d2),
           NEW T, NEW m \in Nat,
           \A r \in Nat : r < m =>
               Count(PendingAt(d, r), T) =
                   Count(PendingAt(d1, r), T) + Count(PendingAt(d2, r), T)
    PROVE  CountUpto(d, m, T) = CountUpto(d1, m, T) + CountUpto(d2, m, T)
<1> DEFINE S == {k \in Nat : k <= m =>
                    CountUpto(d, k, T) = CountUpto(d1, k, T) + CountUpto(d2, k, T)}
<1>1. 0 \in S
  BY UptoZero, CountEmpty DEF CountUpto
<1>2. ASSUME NEW k \in Nat, k \in S
      PROVE  k + 1 \in S
  <2>1. k + 1 <= m => k <= m /\ k < m
    OBVIOUS
  <2> QED
    BY <1>2, <2>1, CountUptoNext
<1>3. m \in S
  <2> HIDE DEF S
  <2> QED
    BY <1>1, <1>2, Induction
<1> QED
  BY <1>3

\* All release steps are below this one.
Bound(d) == Max({0} \cup DOMAIN d) + 1

\* The copies of packets of T that are pending.
Load(d, T) == CountUpto(d, Bound(d), T)

\* The bound is above all release steps.
LEMMA BoundType ==
    ASSUME NEW d, IsPending(d)
    PROVE  /\ Bound(d) \in Nat \ {0}
           /\ \A r \in DOMAIN d : r < Bound(d)
<1> DEFINE S == {0} \cup DOMAIN d
<1>1. S \in SUBSET Nat /\ S # {}
  BY DEF IsPending
<1>2. IsFiniteSet(S)
  <2>1. IsFiniteSet(DOMAIN d)
    BY DEF IsPending
  <2>2. IsFiniteSet(DOMAIN d \cup {0})
    BY <2>1, FS_AddElement
  <2>3. S = DOMAIN d \cup {0}
    OBVIOUS
  <2> QED
    BY <2>2, <2>3
<1>3. \E x \in S : \A y \in S : y <= x
  <2> HIDE DEF S
  <2> QED
    BY <1>1, <1>2, GreatestNumber
<1>4. Max(S) \in S /\ \A y \in S : y <= Max(S)
  <2>1. \E x \in S : \A y \in S : x >= y
    BY <1>1, <1>3
  <2> HIDE DEF S
  <2>2. Max(S) \in S /\ \A y \in S : Max(S) >= y
    BY <2>1 DEF Max
  <2> QED
    BY <1>1, <2>2
<1> QED
  BY <1>1, <1>4 DEF Bound

\* The load can be counted up to any bound of the release steps.
LEMMA LoadUpto ==
    ASSUME NEW d, IsPending(d), NEW T, NEW m \in Nat, \A r \in DOMAIN d : r < m
    PROVE  /\ Load(d, T) \in Nat
           /\ CountUpto(d, m, T) = Load(d, T)
<1>1. Bound(d) \in Nat /\ \A r \in DOMAIN d : r < Bound(d)
  BY BoundType
<1>2. Load(d, T) \in Nat
  BY <1>1, CountUptoNext DEF Load
<1>3. CASE m <= Bound(d)
  <2>1. Upto(d, Bound(d)) = Upto(d, m)
    BY <1>1, <1>3, UptoBeyond
  <2> QED
    BY <1>2, <2>1 DEF Load, CountUpto
<1>4. CASE Bound(d) <= m
  <2>1. Upto(d, m) = Upto(d, Bound(d))
    BY <1>1, <1>4, UptoBeyond
  <2> QED
    BY <1>2, <2>1 DEF Load, CountUpto
<1> QED
  BY <1>1, <1>3, <1>4

\* inject() divides what is pending into what it releases and what stays.
LEMMA StillPendingLoad ==
    ASSUME NEW d, IsPending(d), NEW step \in Nat, NEW T
    PROVE  /\ IsPending(StillPending(d, step))
           /\ Load(StillPending(d, step), T) \in Nat
           /\ Load(d, T) = CountUpto(d, step + 1, T) + Load(StillPending(d, step), T)
<1> DEFINE due == [r \in {s \in DOMAIN d : s <= step} |-> d[r]]
           rest == StillPending(d, step)
           m == Bound(d) + step + 1
<1>1. /\ DOMAIN due = {s \in DOMAIN d : s <= step}
      /\ DOMAIN rest = {s \in DOMAIN d : s > step}
      /\ \A r \in DOMAIN due : due[r] = d[r]
      /\ \A r \in DOMAIN rest : rest[r] = d[r]
  BY DEF StillPending
<1>2. IsPending(due) /\ IsPending(rest)
  <2>1. DOMAIN due \in SUBSET DOMAIN d /\ DOMAIN rest \in SUBSET DOMAIN d
    BY <1>1
  <2>2. IsFiniteSet(DOMAIN due) /\ IsFiniteSet(DOMAIN rest)
    BY <2>1, FS_Subset DEF IsPending
  <2> HIDE DEF due, rest
  <2> QED
    BY <1>1, <2>2 DEF IsPending
<1>3. m \in Nat /\ step + 1 \in Nat /\ step + 1 <= m /\ \A r \in DOMAIN d : r < m
  <2>1. DOMAIN d \subseteq Nat
    BY DEF IsPending
  <2> QED
    BY <2>1, BoundType
<1> HIDE DEF due, m, rest
<1>4. \A r \in Nat : PendingAt(due, r) = IF r <= step THEN PendingAt(d, r) ELSE << >>
  BY <1>1 DEF PendingAt
<1>5. \A r \in Nat : PendingAt(rest, r) = IF r <= step THEN << >> ELSE PendingAt(d, r)
  <2>1. \A r \in Nat : r > step <=> ~ (r <= step)
    OBVIOUS
  <2> QED
    BY <1>1, <2>1 DEF PendingAt
<1>6. ASSUME NEW r \in Nat
      PROVE  Count(PendingAt(d, r), T) =
                 Count(PendingAt(due, r), T) + Count(PendingAt(rest, r), T)
  <2>1. Count(PendingAt(d, r), T) \in Nat
    BY PendingAtType, CountType
  <2>2. CASE r <= step
    BY <1>4, <1>5, <2>1, <2>2, CountEmpty
  <2>3. CASE ~ (r <= step)
    BY <1>4, <1>5, <2>1, <2>3, CountEmpty
  <2> QED
    BY <2>2, <2>3
<1>7. CountUpto(d, m, T) = CountUpto(due, m, T) + CountUpto(rest, m, T)
  BY <1>2, <1>3, <1>6, CountUptoSum
<1>8. CountUpto(d, m, T) = Load(d, T)
  BY <1>3, LoadUpto
<1>9. CountUpto(rest, m, T) = Load(rest, T) /\ Load(rest, T) \in Nat
  BY <1>1, <1>2, <1>3, LoadUpto
<1>10. CountUpto(due, m, T) = CountUpto(d, step + 1, T)
  <2>1. \A r \in DOMAIN due : r < step + 1 \/ m <= r
    <3>1. DOMAIN d \subseteq Nat
      BY DEF IsPending
    <3> QED
      BY <1>1, <3>1
  <2>2. Upto(due, m) = Upto(due, step + 1)
    BY <1>2, <1>3, <2>1, UptoBeyond
  <2>3. \A r \in Nat : r < step + 1 => PendingAt(due, r) = PendingAt(d, r)
    BY <1>4
  <2>4. Upto(due, step + 1) = Upto(d, step + 1)
    BY <1>3, <2>3, UptoSame
  <2> QED
    BY <2>2, <2>4 DEF CountUpto
<1> QED
  BY <1>2, <1>7, <1>8, <1>9, <1>10 DEF rest

\* e is d with s added under one release step.
Extends(e, d, release, s) ==
    /\ DOMAIN e \subseteq DOMAIN d \cup {release}
    /\ \A r \in Nat :
          PendingAt(e, r) = PendingAt(d, r) \o (IF r = release THEN s ELSE << >>)

\* What is added under one release step adds to the load.
LEMMA ExtendedLoad ==
    ASSUME NEW d, IsPending(d), NEW e, IsPending(e), NEW release \in Nat,
           NEW s \in Seq(Packet), Extends(e, d, release, s), NEW T
    PROVE  Load(e, T) = Load(d, T) + Count(s, T)
<1> DEFINE new == [r \in {release} |-> s]
           m == Bound(d) + release + 1
<1>1. DOMAIN new = {release} /\ new[release] = s
  OBVIOUS
<1>2. IsPending(new)
  BY <1>1, FS_Singleton DEF IsPending
<1> HIDE DEF new
<1>3. /\ m \in Nat /\ release < m /\ release + 1 \in Nat /\ release + 1 <= m
      /\ \A r \in DOMAIN d : r < m
      /\ \A r \in DOMAIN e : r < m
  <2>1. DOMAIN d \subseteq Nat /\ DOMAIN e \subseteq DOMAIN d \cup {release}
    BY DEF IsPending, Extends
  <2>2. \A r \in DOMAIN d : r < m
    BY <2>1, BoundType
  <2>3. m \in Nat /\ release < m /\ release + 1 \in Nat /\ release + 1 <= m
    BY BoundType
  <2> HIDE DEF m
  <2> QED
    BY <2>1, <2>2, <2>3
<1> HIDE DEF m
<1>4. ASSUME NEW r \in Nat
      PROVE  Count(PendingAt(e, r), T) =
                 Count(PendingAt(d, r), T) + Count(PendingAt(new, r), T)
  <2>1. PendingAt(new, r) = IF r = release THEN s ELSE << >>
    BY <1>1 DEF PendingAt
  <2>2. PendingAt(d, r) \in Seq(Packet) /\ PendingAt(new, r) \in Seq(Packet)
    BY <1>2, PendingAtType
  <2>3. PendingAt(e, r) = PendingAt(d, r) \o PendingAt(new, r)
    BY <2>1 DEF Extends
  <2> QED
    BY <2>2, <2>3, CountConcat
<1>5. CountUpto(e, m, T) = CountUpto(d, m, T) + CountUpto(new, m, T)
  BY <1>2, <1>3, <1>4, CountUptoSum
<1>6. CountUpto(e, m, T) = Load(e, T) /\ CountUpto(d, m, T) = Load(d, T)
  BY <1>3, LoadUpto
<1>7. Upto(new, m) = s
  <2>1. Upto(new, m) = Upto(new, release + 1)
    <3>1. \A r \in DOMAIN new : r < release + 1 \/ m <= r
      BY <1>1
    <3> QED
      BY <1>2, <1>3, <3>1, UptoBeyond
  <2>2. Upto(new, release) = << >>
    <3>1. \A r \in DOMAIN new : r < 0 \/ release <= r
      BY <1>1
    <3>2. Upto(new, release) = Upto(new, 0)
      BY <1>2, <3>1, UptoBeyond
    <3> QED
      BY <3>2, UptoZero
  <2>3. Upto(new, release + 1) = << >> \o s
    <3>1. PendingAt(new, release) = s
      BY <1>1 DEF PendingAt
    <3> QED
      BY <1>2, <2>2, <3>1, UptoNext
  <2> QED
    BY <2>1, <2>3
<1> QED
  BY <1>5, <1>6, <1>7 DEF CountUpto

----------------------------------------------------------------------------
(* One fault *)

Labels(p) == p.reliability.injected_faults

ReleaseStep(p) == p.reliability.release_step

\* q is what a fault of this kind made of p: another label, the same provenance.
Marked(p, q, kind) ==
    /\ q \in Packet
    /\ q.provenance = p.provenance
    /\ Labels(q) = Append(Labels(p), kind)
    /\ ReleaseStep(q) = ReleaseStep(p)

\* The fields of a packet of an injector.
LEMMA PacketFields ==
    ASSUME NEW p \in Packet
    PROVE  /\ p.provenance \in [call : Nat, status : Status]
           /\ Labels(p) \in Seq(FaultKind)
           /\ ReleaseStep(p) \in Nat \cup {None}
           /\ p.status \in Status
           /\ p.counterexample \in Counterexamples \cup {None}
           /\ p.checked_claim \in Claims
BY DEF Packet, Reliability, Labels, ReleaseStep

\* A label changes neither status nor counterexample.
LEMMA LabelledMarked ==
    ASSUME NEW p \in Packet, NEW kind \in FaultKind
    PROVE  /\ Marked(p, Labelled(p, kind), kind)
           /\ Labelled(p, kind).status = p.status
           /\ Labelled(p, kind).counterexample = p.counterexample
<1> DEFINE rel == [p.reliability EXCEPT !.injected_faults = Append(@, kind)]
           q == [p EXCEPT !.reliability = rel, !.sealed = TRUE]
<1>1. Labelled(p, kind) = q
  BY DEF Labelled, Packet
<1>2. p.reliability \in Reliability
  BY DEF Packet
<1>3. /\ rel \in Reliability
      /\ rel.injected_faults = Append(p.reliability.injected_faults, kind)
      /\ rel.release_step = p.reliability.release_step
  <2> DEFINE old == p.reliability
             labels == Append(old.injected_faults, kind)
  <2>1. old.injected_faults \in Seq(FaultKind) /\ labels \in Seq(FaultKind)
    BY <1>2 DEF Reliability
  <2>2. rel = [old EXCEPT !.injected_faults = labels]
    OBVIOUS
  <2> HIDE DEF labels, rel
  <2>3. rel \in Reliability /\ rel.injected_faults = labels
        /\ rel.release_step = old.release_step
    BY <1>2, <2>1, <2>2 DEF Reliability
  <2> QED
    BY <2>3 DEF labels
<1> HIDE DEF rel
<1>4. q \in Packet
  BY <1>3 DEF Packet
<1>5. /\ q.reliability = rel /\ q.provenance = p.provenance /\ q.status = p.status
      /\ q.counterexample = p.counterexample
  BY DEF Packet
<1> HIDE DEF q
<1> QED
  BY <1>1, <1>3, <1>4, <1>5 DEF Marked, Labels, ReleaseStep

\* Other fields of a marked packet may change.
LEMMA MarkedChanged ==
    ASSUME NEW p \in Packet, NEW kind \in FaultKind, NEW q, Marked(p, q, kind),
           NEW status \in Status, NEW claim \in Claims,
           NEW cx \in Counterexamples \cup {None}
    PROVE  /\ Marked(p, [q EXCEPT !.status = status], kind)
           /\ Marked(p, [q EXCEPT !.counterexample = cx], kind)
           /\ Marked(p, [q EXCEPT !.checked_claim = claim, !.counterexample = cx], kind)
<1>1. q \in Packet
  BY DEF Marked
<1>2. Marked(p, [q EXCEPT !.status = status], kind)
  BY <1>1 DEF Packet, Marked, Labels, ReleaseStep
<1>3. Marked(p, [q EXCEPT !.counterexample = cx], kind)
  BY <1>1 DEF Packet, Marked, Labels, ReleaseStep
<1>4. Marked(p, [q EXCEPT !.checked_claim = claim, !.counterexample = cx], kind)
  BY <1>1 DEF Packet, Marked, Labels, ReleaseStep
<1> QED
  BY <1>2, <1>3, <1>4

\* A packet that is put aside is labelled and knows its release step.
LEMMA DelayedFields ==
    ASSUME NEW p \in Packet, NEW config \in FaultConfig, NEW release \in Nat
    PROVE  LET q == Delayed(p, config, release)
           IN  /\ q \in Packet
               /\ q.provenance = p.provenance
               /\ Labels(q) = Append(Labels(p), config.kind)
               /\ ReleaseStep(q) = release
<1> DEFINE l == Labelled(p, config.kind)
           rel == [l.reliability EXCEPT !.release_step = release]
           q == [l EXCEPT !.reliability = rel]
<1>1. config.kind \in FaultKind
  BY DEF FaultConfig
<1>2. Marked(p, l, config.kind)
  BY <1>1, LabelledMarked
<1>3. l \in Packet
  BY <1>2 DEF Marked
<1>4. Delayed(p, config, release) = q
  BY <1>3 DEF Delayed, Packet
<1> HIDE DEF l
<1>5. l.reliability \in Reliability
  BY <1>3 DEF Packet
<1>6. /\ rel \in Reliability
      /\ rel.injected_faults = l.reliability.injected_faults
      /\ rel.release_step = release
  BY <1>5 DEF Reliability
<1> HIDE DEF rel
<1>7. q \in Packet
  BY <1>3, <1>6 DEF Packet
<1>8. q.reliability = rel /\ q.provenance = l.provenance
  BY <1>3 DEF Packet
<1> HIDE DEF q
<1> QED
  BY <1>2, <1>4, <1>6, <1>7, <1>8 DEF Marked, Labels, ReleaseStep

Splitting == {"contradictory_outputs", "duplicated_evidence"}

\* The packet a fault starts from.
Source(j, p, kind) ==
    IF kind = "stale_evidence" /\ j.history # << >> THEN Last(j.history) ELSE p

\* A fault that splits a packet keeps it and adds a marked one; any other replaces
\* it by one that is marked.
LEMMA ApplyShape ==
    ASSUME NEW j, j.history \in Seq(Packet), NEW p \in Packet,
           NEW config \in FaultConfig, config.kind # "delayed_evidence"
    PROVE  \E q : /\ Marked(Source(j, p, config.kind), q, config.kind)
                  /\ config.kind = "stale_evidence" =>
                         q.status = Source(j, p, config.kind).status
                  /\ Apply(j, p, config) =
                        IF config.kind \in Splitting THEN <<p, q>> ELSE <<q>>
<1> DEFINE kind == config.kind
           src == Source(j, p, kind)
           l == Labelled(p, kind)
<1>1. kind \in FaultKind
  BY DEF FaultConfig
<1>2. src \in Packet
  BY DEF Source, Last
<1>3. Marked(p, l, kind)
  BY <1>1, LabelledMarked
<1>4. l \in Packet /\ l.counterexample \in Counterexamples \cup {None}
  BY <1>3, PacketFields DEF Marked
<1>5. "PASS" \in Status /\ "FAIL" \in Status
  BY DEF Status
<1>6. Malformed \in Claims /\ Malformed \in Counterexamples
      /\ Tainted(l.counterexample) \in Counterexamples
  BY <1>4, CorruptionAssumption
<1>7. l.checked_claim \in Claims
  BY <1>4, PacketFields
<1>8. kind # "stale_evidence" => src = p
  BY DEF Source
<1>9. CASE kind = "false_positive"
  <2>1. Marked(p, [l EXCEPT !.status = "PASS"], kind)
    BY <1>1, <1>3, <1>5, <1>4, <1>7, MarkedChanged
  <2>2. Apply(j, p, config) = <<[l EXCEPT !.status = "PASS"]>>
    BY <1>9 DEF Apply
  <2> QED
    BY <1>8, <1>9, <2>1, <2>2 DEF Splitting
<1>10. CASE kind = "false_negative"
  <2>1. Marked(p, [l EXCEPT !.status = "FAIL"], kind)
    BY <1>1, <1>3, <1>5, <1>4, <1>7, MarkedChanged
  <2>2. Apply(j, p, config) = <<[l EXCEPT !.status = "FAIL"]>>
    BY <1>10 DEF Apply
  <2> QED
    BY <1>8, <1>10, <2>1, <2>2 DEF Splitting
<1>11. CASE kind = "stale_evidence"
  <2>1. Marked(src, Labelled(src, kind), kind) /\ Labelled(src, kind).status = src.status
    BY <1>1, <1>2, LabelledMarked
  <2>2. Apply(j, p, config) = <<Labelled(src, kind)>>
    BY <1>11 DEF Apply, Source
  <2> QED
    BY <1>11, <2>1, <2>2 DEF Splitting
<1>12. CASE kind = "malformed_evidence"
  <2> DEFINE q == [l EXCEPT !.checked_claim = Malformed, !.counterexample = Malformed]
  <2>1. Marked(p, q, kind)
    BY <1>1, <1>3, <1>5, <1>6, MarkedChanged
  <2>2. Apply(j, p, config) = <<q>>
    BY <1>12 DEF Apply
  <2> QED
    BY <1>8, <1>12, <2>1, <2>2 DEF Splitting
<1>13. CASE kind = "contradictory_outputs"
  <2> DEFINE q == [l EXCEPT !.status = IF p.status = "PASS" THEN "FAIL" ELSE "PASS"]
  <2>1. Marked(p, q, kind)
    <3>1. (IF p.status = "PASS" THEN "FAIL" ELSE "PASS") \in Status
      BY <1>5
    <3> QED
      BY <1>1, <1>3, <1>4, <1>7, <3>1, MarkedChanged
  <2>2. Apply(j, p, config) = <<p, q>>
    BY <1>13 DEF Apply, Contradiction
  <2> QED
    BY <1>8, <1>13, <2>1, <2>2 DEF Splitting
<1>14. CASE kind = "missing_counterexample"
  <2>1. Marked(p, [l EXCEPT !.counterexample = None], kind)
    BY <1>1, <1>3, <1>5, <1>7, MarkedChanged
  <2>2. Apply(j, p, config) = <<[l EXCEPT !.counterexample = None]>>
    BY <1>14 DEF Apply
  <2> QED
    BY <1>8, <1>14, <2>1, <2>2 DEF Splitting
<1>15. CASE kind = "duplicated_evidence"
  <2>1. Apply(j, p, config) = <<p, l>>
    BY <1>15 DEF Apply
  <2> QED
    BY <1>3, <1>8, <1>15, <2>1 DEF Splitting
<1>16. CASE kind = "prompt_injection"
  <2> DEFINE q == [l EXCEPT !.counterexample = Tainted(l.counterexample)]
  <2>1. Marked(p, q, kind)
    BY <1>1, <1>3, <1>5, <1>6, <1>7, MarkedChanged
  <2>2. Apply(j, p, config) = <<q>>
    BY <1>16, <1>4 DEF Apply, Packet
  <2> QED
    BY <1>8, <1>16, <2>1, <2>2 DEF Splitting
<1> QED
  BY <1>1, <1>9, <1>10, <1>11, <1>12, <1>13, <1>14, <1>15, <1>16 DEF FaultKind

----------------------------------------------------------------------------
(* The packets of one call *)

\* What the stages of call n may hold: the packet of the call, as long as it has
\* no label; one of an earlier call has been replayed.
Fresh(n) ==
    {q \in Packet :
        /\ ReleaseStep(q) = None
        /\ q.provenance.call <= n
        /\ Labels(q) = << >> => q = Original(n, q.provenance.status)
        /\ q.provenance.call < n =>
              /\ Labels(q) # << >>
              /\ Labels(q)[1] = "stale_evidence"
              /\ Labels(q) = <<"stale_evidence">> => q.status = q.provenance.status}

\* The history holds the packets as they were passed.
IsHistory(history) ==
    /\ history \in Seq(Packet)
    /\ \A k \in DOMAIN history : \E status \in Status : history[k] = Original(k, status)

\* A packet as its caller passes it has no labels and no release step.
LEMMA OriginalFields ==
    ASSUME NEW n \in Nat, NEW status \in Status
    PROVE  LET p == Original(n, status)
           IN  /\ p \in Packet
               /\ Labels(p) = << >>
               /\ ReleaseStep(p) = None
               /\ p.provenance.call = n
               /\ p.provenance.status = status
               /\ p.status = status
<1>1. "claim" \in Claims /\ "cx" \in Counterexamples
  BY InjectorAssumption
<1> DEFINE rel == [injected_faults |-> << >>, release_step |-> None]
<1>2. << >> \in Seq(FaultKind)
  OBVIOUS
<1>3. rel \in Reliability
  BY <1>2 DEF Reliability
<1> QED
  BY <1>1, <1>3 DEF Original, Packet, Labels, ReleaseStep, Independence

\* It may be held by the stages of its call.
LEMMA OriginalFresh ==
    ASSUME NEW n \in Nat, NEW status \in Status
    PROVE  Original(n, status) \in Fresh(n)
BY OriginalFields DEF Fresh

\* The first label stays the first, and a second one shows.
LEMMA AppendLabel ==
    ASSUME NEW labels \in Seq(FaultKind), NEW kind \in FaultKind
    PROVE  LET more == Append(labels, kind)
           IN  /\ more # << >>
               /\ more[1] = IF labels = << >> THEN kind ELSE labels[1]
               /\ labels # << >> => more # <<kind>> /\ Len(more) >= 2
<1>1. Len(Append(labels, kind)) = Len(labels) + 1 /\ Len(labels) \in Nat
  OBVIOUS
<1>2. labels # << >> => Len(labels) >= 1
  OBVIOUS
<1>3. Len(<<kind>>) = 1
  OBVIOUS
<1>4. labels = << >> => Append(labels, kind)[1] = kind
  OBVIOUS
<1>5. labels # << >> => Append(labels, kind)[1] = labels[1]
  OBVIOUS
<1>6. Append(labels, kind) # << >>
  OBVIOUS
<1> QED
  BY <1>1, <1>2, <1>3, <1>4, <1>5, <1>6

\* A fault makes packets of the call, or replays of earlier ones with a label.
LEMMA ApplyFresh ==
    ASSUME NEW j, IsHistory(j.history), NEW n, n = Len(j.history) + 1,
           NEW p \in Fresh(n),
           NEW config \in FaultConfig, config.kind # "delayed_evidence"
    PROVE  Apply(j, p, config) \in Seq(Fresh(n))
<1> DEFINE kind == config.kind
           src == Source(j, p, kind)
<1>1. p \in Packet /\ j.history \in Seq(Packet) /\ kind \in FaultKind /\ n \in Nat
  BY DEF Fresh, IsHistory, FaultConfig
<1>2. PICK q : /\ Marked(src, q, kind)
               /\ kind = "stale_evidence" => q.status = src.status
               /\ Apply(j, p, config) = IF kind \in Splitting THEN <<p, q>> ELSE <<q>>
  BY <1>1, ApplyShape
<1>3. /\ q \in Packet /\ q.provenance = src.provenance
      /\ Labels(q) = Append(Labels(src), kind) /\ ReleaseStep(q) = ReleaseStep(src)
  BY <1>2 DEF Marked
<1>4. q \in Fresh(n)
  <2>1. CASE src = p
    <3>1. /\ Labels(p) \in Seq(FaultKind) /\ ReleaseStep(p) = None
          /\ p.provenance.call <= n
          /\ p.provenance.call < n =>
                Labels(p) # << >> /\ Labels(p)[1] = "stale_evidence"
      BY PacketFields DEF Fresh
    <3>2. Labels(q) # << >>
      BY <1>1, <1>3, <2>1, <3>1, AppendLabel
    <3>3. q.provenance.call < n =>
             /\ Labels(q)[1] = "stale_evidence"
             /\ Labels(q) # <<"stale_evidence">>
      <4>1. SUFFICES ASSUME p.provenance.call < n
                     PROVE  /\ Labels(q)[1] = "stale_evidence"
                            /\ Len(Labels(q)) >= 2
        <5>1. Len(<<"stale_evidence">>) = 1
          OBVIOUS
        <5> QED
          BY <1>3, <2>1, <5>1
      <4> QED
        BY <1>1, <1>3, <2>1, <3>1, <4>1, AppendLabel
    <3> QED
      BY <1>3, <2>1, <3>1, <3>2, <3>3 DEF Fresh
  <2>2. CASE src # p
    <3>1. kind = "stale_evidence" /\ j.history # << >> /\ src = Last(j.history)
      BY <2>2 DEF Source
    <3>2. src = j.history[Len(j.history)] /\ Len(j.history) \in DOMAIN j.history
      BY <1>1, <3>1 DEF Last
    <3>3. PICK status \in Status : src = Original(Len(j.history), status)
      BY <3>2 DEF IsHistory
    <3>4. /\ Labels(src) = << >> /\ ReleaseStep(src) = None
          /\ src.provenance.call = Len(j.history)
          /\ src.provenance.status = status /\ src.status = status
      BY <3>3, Len(j.history) \in Nat, OriginalFields
    <3>5. Labels(q) = <<"stale_evidence">>
      <4>1. Append(<< >>, "stale_evidence") = <<"stale_evidence">>
        OBVIOUS
      <4> QED
        BY <1>3, <3>1, <3>4, <4>1
    <3>6. Labels(q) # << >> /\ Labels(q)[1] = "stale_evidence"
      BY <3>5
    <3> QED
      BY <1>1, <1>2, <1>3, <3>1, <3>4, <3>6 DEF Fresh
  <2> QED
    BY <2>1, <2>2
<1>5. <<q>> \in Seq(Fresh(n)) /\ <<p, q>> \in Seq(Fresh(n))
  <2> DEFINE F == Fresh(n)
  <2>1. p \in F /\ q \in F
    BY <1>4
  <2> HIDE DEF F
  <2>2. <<q>> \in Seq(F) /\ <<p, q>> \in Seq(F)
    BY <2>1
  <2> QED
    BY <2>2 DEF F
<1> QED
  BY <1>2, <1>5

----------------------------------------------------------------------------
(* The loop over the configurations *)

\* stage holds what the loop holds after each configuration.
AreStages(stage, j, p, step) ==
    /\ stage[0] = FirstStage(j, p, step)
    /\ \A i \in Nat : i + 1 <= Len(j.configs) =>
           stage[i + 1] = NextStage(j, stage[i], i + 1, step)

\* f is the recursive function of LastStage, over the first n configurations.
SolvesStages(f, j, p, step, n) ==
    f = [i \in 0..n |-> IF i = 0 THEN FirstStage(j, p, step)
                                 ELSE NextStage(j, f[i - 1], i, step)]

\* The recursive definition of the stages is satisfied by a function.
LEMMA StagesDefined ==
    ASSUME NEW j, NEW p, NEW step, NEW n \in Nat
    PROVE  \E f : SolvesStages(f, j, p, step, n)
<1> DEFINE Value(f, i) == IF i = 0 THEN FirstStage(j, p, step)
                                   ELSE NextStage(j, f[i - 1], i, step)
           Solves(f, m) == f = [i \in 0..m |-> Value(f, i)]
           S == {m \in Nat : \E f : Solves(f, m)}
<1>1. 0 \in S
  <2> DEFINE h == [i \in 0..0 |-> FirstStage(j, p, step)]
  <2>1. \A i \in 0..0 : h[i] = Value(h, i)
    OBVIOUS
  <2>2. h = [i \in 0..0 |-> h[i]]
    OBVIOUS
  <2>3. Solves(h, 0)
    <3> HIDE DEF h, Value
    <3> QED
      BY <2>1, <2>2
  <2>4. \E g : Solves(g, 0)
    <3> HIDE DEF Solves, h
    <3> QED
      BY <2>3
  <2> HIDE DEF Solves
  <2> QED
    BY <2>4
<1>2. ASSUME NEW m \in Nat, m \in S
      PROVE  m + 1 \in S
  <2>1. PICK f : Solves(f, m)
    BY <1>2
  <2> DEFINE g == [i \in 0..(m + 1) |-> IF i <= m THEN f[i] ELSE Value(f, i)]
  <2>2. \A i \in 0..m : f[i] = Value(f, i)
    <3> HIDE DEF Value
    <3> QED
      BY <2>1
  <2>3. ASSUME NEW i \in 0..(m + 1)
        PROVE  g[i] = Value(g, i)
    <3>1. g[i] = Value(f, i)
      <4> HIDE DEF Value
      <4>1. CASE i \in 0..m
        BY <4>1, <2>2
      <4>2. CASE i = m + 1
        BY <4>2
      <4> QED
        BY <4>1, <4>2
    <3>2. i # 0 => g[i - 1] = f[i - 1]
      <4> HIDE DEF Value
      <4> QED
        OBVIOUS
    <3> HIDE DEF g
    <3> QED
      BY <3>1, <3>2
  <2>4. Solves(g, m + 1)
    <3>1. g = [i \in 0..(m + 1) |-> g[i]]
      <4> HIDE DEF Value
      <4> QED
        OBVIOUS
    <3> HIDE DEF g, Value
    <3> QED
      BY <3>1, <2>3
  <2>5. \E h : Solves(h, m + 1)
    <3> HIDE DEF Solves, g
    <3> QED
      BY <2>4
  <2> HIDE DEF Solves
  <2> QED
    BY <2>5
<1>3. n \in S
  <2> HIDE DEF S
  <2> QED
    BY <1>1, <1>2, Induction
<1>4. \E f : Solves(f, n)
  <2> HIDE DEF Solves
  <2> QED
    BY <1>3
<1> QED
  BY <1>4 DEF SolvesStages

\* The last stage is reached over all the stages before it.
LEMMA LastStageOfStages ==
    ASSUME NEW j, NEW p, NEW step, Len(j.configs) \in Nat
    PROVE  \E stage : /\ AreStages(stage, j, p, step)
                      /\ LastStage(j, p, step) = stage[Len(j.configs)]
<1> DEFINE F == CHOOSE f : SolvesStages(f, j, p, step, Len(j.configs))
<1>0. SolvesStages(F, j, p, step, Len(j.configs))
  BY StagesDefined
<1>1. F = [i \in 0..Len(j.configs) |-> IF i = 0 THEN FirstStage(j, p, step)
                                   ELSE NextStage(j, F[i - 1], i, step)]
  BY <1>0 DEF SolvesStages
<1>2. LastStage(j, p, step) = F[Len(j.configs)]
  BY DEF LastStage, SolvesStages
<1> HIDE DEF F
<1>3. F[0] = FirstStage(j, p, step)
  BY <1>1
<1>4. ASSUME NEW i \in Nat, i + 1 <= Len(j.configs)
      PROVE  F[i + 1] = NextStage(j, F[i], i + 1, step)
  <2>1. i + 1 \in 0..Len(j.configs) /\ i + 1 # 0 /\ (i + 1) - 1 = i
    BY <1>4
  <2>2. F[i + 1] = IF i + 1 = 0 THEN FirstStage(j, p, step)
                   ELSE NextStage(j, F[(i + 1) - 1], i + 1, step)
    BY <1>1, <2>1
  <2> QED
    BY <2>1, <2>2
<1> QED
  BY <1>2, <1>3, <1>4 DEF AreStages

\* What a delay adds under its release step.
LEMMA PutAsideAdds ==
    ASSUME NEW d, IsPending(d), NEW packets \in Seq(Packet),
           NEW config \in FaultConfig, NEW step \in Nat,
           NEW release, release = step + config.delay_steps
    PROVE  /\ release \in Nat /\ release > step
           /\ DelayedPackets(packets, config, release) \in Seq(Packet)
           /\ IsPending(PutAside(d, packets, config, step))
           /\ Extends(PutAside(d, packets, config, step), d, release,
                      DelayedPackets(packets, config, release))
<1> DEFINE e == PutAside(d, packets, config, step)
           delayed == DelayedPackets(packets, config, release)
<1>1. release \in Nat /\ release > step
  BY DEF FaultConfig
<1>2. delayed \in Seq(Packet)
  <2>1. ASSUME NEW k \in DOMAIN packets
        PROVE  Delayed(packets[k], config, release) \in Packet
    <3>1. packets[k] \in Packet
      OBVIOUS
    <3> QED
      BY <1>1, <3>1, DelayedFields
  <2>2. DOMAIN packets = 1..Len(packets) /\ Len(packets) \in Nat
    OBVIOUS
  <2> QED
    BY <2>1, <2>2 DEF DelayedPackets
<1> HIDE DEF delayed
<1>3. /\ DOMAIN e = DOMAIN d \cup {release : k \in DOMAIN packets}
      /\ \A r \in DOMAIN e : e[r] =
             PendingAt(d, r) \o (IF r = release THEN delayed ELSE << >>)
  BY DEF PutAside, delayed
<1> HIDE DEF e
<1>4. DOMAIN e \subseteq DOMAIN d \cup {release}
  BY <1>3
<1>5. \A r \in DOMAIN e : e[r] \in Seq(Packet)
  <2> SUFFICES ASSUME NEW r \in DOMAIN e
               PROVE  e[r] \in Seq(Packet)
    OBVIOUS
  <2> DEFINE added == IF r = release THEN delayed ELSE << >>
  <2>1. << >> \in Seq(Packet)
    OBVIOUS
  <2>2. added \in Seq(Packet) /\ PendingAt(d, r) \in Seq(Packet)
    BY <1>2, <2>1, PendingAtType
  <2>3. e[r] = PendingAt(d, r) \o added
    BY <1>3
  <2> HIDE DEF added
  <2> QED
    BY <2>2, <2>3, ConcatElements
<1>6. IsPending(e)
  <2>1. DOMAIN d \subseteq Nat /\ IsFiniteSet(DOMAIN d)
    BY DEF IsPending
  <2>2. IsFiniteSet(DOMAIN d \cup {release})
    BY <2>1, FS_AddElement
  <2>3. IsFiniteSet(DOMAIN e)
    BY <1>4, <2>2, FS_Subset
  <2> QED
    BY <1>1, <1>4, <1>5, <2>1, <2>3 DEF IsPending
<1>7. ASSUME NEW r \in Nat
      PROVE  PendingAt(e, r) =
                 PendingAt(d, r) \o (IF r = release THEN delayed ELSE << >>)
  <2>1. CASE r \in DOMAIN e
    BY <1>3, <2>1 DEF PendingAt
  <2>2. CASE r \notin DOMAIN e
    <3>1. PendingAt(d, r) = << >> /\ PendingAt(e, r) = << >>
      BY <1>3, <2>2 DEF PendingAt
    <3>2. r = release => DOMAIN packets = {}
      BY <1>3, <2>2
    <3>3. r = release => delayed = << >>
      <4>1. DOMAIN packets = {} => packets = << >>
        OBVIOUS
      <4>2. packets = << >> => delayed = << >>
        BY DEF delayed, DelayedPackets
      <4> QED
        BY <3>2, <4>1, <4>2
    <3>4. << >> \o << >> = << >>
      OBVIOUS
    <3> QED
      BY <3>1, <3>3, <3>4
  <2> QED
    BY <2>1, <2>2
<1> QED
  BY <1>1, <1>2, <1>4, <1>6, <1>7 DEF e, delayed, Extends

\* What may be pending under release step r after n calls.
Aside(r, n) ==
    {q \in Packet : ReleaseStep(q) = r /\ Labels(q) # << >> /\ q.provenance.call <= n}

PendingOK(d, n) ==
    /\ IsPending(d)
    /\ \A r \in DOMAIN d : d[r] \in Seq(Aside(r, n))

FaultEvent ==
    [step : Nat, config_index : Nat, kind : FaultKind, applied : BOOLEAN,
     release_step : Nat \cup {None}]

\* The parts of an injector that never change.
IsConfigured(j) ==
    /\ j.configs \in Seq(FaultConfig)
    /\ \A i \in DOMAIN j.configs : \A s \in Steps : Decision(j, i, s) \in BOOLEAN

StageOK(st, n, step) ==
    /\ st.packets \in Seq(Fresh(n))
    /\ PendingOK(st.pending, n)
    /\ \A r \in DOMAIN st.pending : r > step
    /\ st.events \in Seq(FaultEvent)

\* A sequence over a set is one over every larger set.
LEMMA SeqMonotone ==
    ASSUME NEW U, NEW V, U \subseteq V, NEW s \in Seq(U)
    PROVE  s \in Seq(V)
<1>1. \A k \in 1..Len(s) : s[k] \in V
  OBVIOUS
<1>2. s = [k \in 1..Len(s) |-> s[k]] /\ Len(s) \in Nat
  OBVIOUS
<1> QED
  BY <1>1, <1>2

\* A delay moves fresh packets into the dictionary.
LEMMA PutAsideOK ==
    ASSUME NEW n \in Nat, NEW d, PendingOK(d, n), NEW packets \in Seq(Fresh(n)),
           NEW config \in FaultConfig, NEW step \in Nat, \A r \in DOMAIN d : r > step
    PROVE  LET e == PutAside(d, packets, config, step)
           IN  PendingOK(e, n) /\ \A r \in DOMAIN e : r > step
<1> DEFINE e == PutAside(d, packets, config, step)
           release == step + config.delay_steps
           delayed == DelayedPackets(packets, config, release)
<1>1. packets \in Seq(Packet)
  BY Fresh(n) \subseteq Packet, SeqMonotone DEF Fresh
<1>2. IsPending(d)
  BY DEF PendingOK
<1>3. /\ release \in Nat /\ release > step /\ delayed \in Seq(Packet)
      /\ IsPending(e) /\ Extends(e, d, release, delayed)
  BY <1>1, <1>2, PutAsideAdds
<1>4. delayed \in Seq(Aside(release, n))
  <2>1. ASSUME NEW k \in DOMAIN packets
        PROVE  Delayed(packets[k], config, release) \in Aside(release, n)
    <3> DEFINE p == packets[k]
               q == Delayed(p, config, release)
    <3>1. p \in Fresh(n)
      OBVIOUS
    <3>2. p \in Packet /\ p.provenance.call <= n /\ config.kind \in FaultKind
      BY <3>1 DEF Fresh, FaultConfig
    <3> HIDE DEF p
    <3>3. /\ q \in Packet /\ q.provenance = p.provenance
          /\ Labels(q) = Append(Labels(p), config.kind) /\ ReleaseStep(q) = release
      BY <1>3, <3>2, DelayedFields
    <3>4. Labels(q) # << >>
      BY <3>2, <3>3, PacketFields, AppendLabel
    <3> HIDE DEF q, release
    <3>5. q \in Aside(release, n)
      BY <3>2, <3>3, <3>4 DEF Aside
    <3> QED
      BY <3>5 DEF q, p
  <2>2. DOMAIN packets = 1..Len(packets) /\ Len(packets) \in Nat
    OBVIOUS
  <2> HIDE DEF release
  <2> QED
    BY <2>1, <2>2 DEF DelayedPackets
<1> HIDE DEF e, release, delayed
<1>5. ASSUME NEW r \in DOMAIN e
      PROVE  e[r] \in Seq(Aside(r, n))
  <2> DEFINE A == Aside(r, n)
  <2>1. PendingAt(d, r) \in Seq(A)
    <3>1. << >> \in Seq(A)
      OBVIOUS
    <3> QED
      BY <3>1 DEF PendingAt, PendingOK
  <2>2. (IF r = release THEN delayed ELSE << >>) \in Seq(A)
    <3>1. << >> \in Seq(A)
      OBVIOUS
    <3> QED
      BY <1>4, <3>1
  <2> HIDE DEF A
  <2>3. PendingAt(d, r) \o (IF r = release THEN delayed ELSE << >>) \in Seq(A)
    BY <2>1, <2>2, ConcatElements
  <2>4. e[r] = PendingAt(d, r) \o (IF r = release THEN delayed ELSE << >>)
    <3>1. r \in Nat /\ PendingAt(e, r) = e[r]
      BY <1>3 DEF IsPending, PendingAt
    <3> QED
      BY <1>3, <3>1 DEF Extends
  <2> QED
    BY <2>3, <2>4 DEF A
<1>6. \A r \in DOMAIN e : r > step
  BY <1>3 DEF Extends
<1> QED
  BY <1>3, <1>5, <1>6 DEF PendingOK, e

\* One turn of the loop keeps what holds of its packets.
LEMMA NextStageOK ==
    ASSUME NEW j, IsConfigured(j), IsHistory(j.history),
           NEW n, n = Len(j.history) + 1, NEW step \in Steps,
           NEW st, StageOK(st, n, step), NEW i \in DOMAIN j.configs
    PROVE  StageOK(NextStage(j, st, i, step), n, step)
<1> DEFINE config == j.configs[i]
           applied == Decision(j, i, step)
           delays == applied /\ config.kind = "delayed_evidence"
           new == NextStage(j, st, i, step)
           faulted == ApplyAll(j, st.packets, config)
           fresh == [k \in DOMAIN st.packets |->
                        [step |-> step, config_index |-> i, kind |-> config.kind,
                         applied |-> applied,
                         release_step |-> IF delays THEN step + config.delay_steps
                                                    ELSE None]]
<1>1. /\ config \in FaultConfig /\ applied \in BOOLEAN /\ i \in Nat
      /\ step \in Nat /\ n \in Nat
  BY InjectorAssumption DEF IsConfigured, IsHistory
<1>2. st.packets \in Seq(Fresh(n)) /\ st.events \in Seq(FaultEvent)
  BY DEF StageOK
<1>3. /\ new.packets = IF ~applied THEN st.packets
                       ELSE IF delays THEN << >> ELSE faulted
      /\ new.pending = IF delays THEN PutAside(st.pending, st.packets, config, step)
                                 ELSE st.pending
      /\ new.events = st.events \o fresh
  BY DEF NextStage
<1> HIDE DEF new
<1>4. config.kind # "delayed_evidence" => faulted \in Seq(Fresh(n))
  <2> SUFFICES ASSUME config.kind # "delayed_evidence"
               PROVE  faulted \in Seq(Fresh(n))
    OBVIOUS
  <2> DEFINE ss == [k \in DOMAIN st.packets |-> Apply(j, st.packets[k], config)]
  <2>1. \A k \in DOMAIN st.packets : st.packets[k] \in Fresh(n)
    BY <1>2
  <2> HIDE DEF config
  <2>2. \A k \in DOMAIN st.packets : Apply(j, st.packets[k], config) \in Seq(Fresh(n))
    BY <1>1, <2>1, ApplyFresh
  <2>3. DOMAIN st.packets = 1..Len(st.packets) /\ Len(st.packets) \in Nat
    BY <1>2
  <2>4. ss \in Seq(Seq(Fresh(n)))
    BY <2>2, <2>3
  <2>6. faulted = FlattenSeq(ss)
    BY DEF ApplyAll
  <2> HIDE DEF ss, faulted
  <2>5. FlattenSeq(ss) \in Seq(Fresh(n))
    BY <2>4, FlattenType
  <2> QED
    BY <2>5, <2>6
<1>5. fresh \in Seq(FaultEvent)
  <2>1. config.kind \in FaultKind /\ step + config.delay_steps \in Nat
    BY <1>1 DEF FaultConfig
  <2>2. DOMAIN st.packets = 1..Len(st.packets) /\ Len(st.packets) \in Nat
    BY <1>2
  <2> HIDE DEF config, applied
  <2>3. [step |-> step, config_index |-> i, kind |-> config.kind, applied |-> applied,
         release_step |-> IF delays THEN step + config.delay_steps ELSE None]
        \in FaultEvent
    BY <1>1, <2>1 DEF FaultEvent
  <2> QED
    BY <2>2, <2>3
<1> HIDE DEF faulted, fresh
<1>6. new.packets \in Seq(Fresh(n))
  <2>1. << >> \in Seq(Fresh(n))
    OBVIOUS
  <2> QED
    BY <1>1, <1>2, <1>3, <1>4, <2>1
<1>7. PendingOK(new.pending, n) /\ \A r \in DOMAIN new.pending : r > step
  <2>1. PendingOK(st.pending, n) /\ \A r \in DOMAIN st.pending : r > step
    BY DEF StageOK
  <2> HIDE DEF config, delays
  <2>2. LET e == PutAside(st.pending, st.packets, config, step)
        IN  PendingOK(e, n) /\ \A r \in DOMAIN e : r > step
    BY <1>1, <1>2, <2>1, PutAsideOK
  <2> QED
    BY <1>3, <2>1, <2>2
<1>8. new.events \in Seq(FaultEvent)
  BY <1>2, <1>3, <1>5, ConcatElements
<1> QED
  BY <1>6, <1>7, <1>8 DEF StageOK, new

\* A delay moves every packet of the stage, with its provenance, to the load.
LEMMA PutAsideLoad ==
    ASSUME NEW d, IsPending(d), NEW packets \in Seq(Packet),
           NEW config \in FaultConfig, NEW step \in Nat, NEW T,
           NEW release, release = step + config.delay_steps,
           NEW delayed, delayed = DelayedPackets(packets, config, release)
    PROVE  /\ delayed \in Seq(Packet)
           /\ DOMAIN delayed = DOMAIN packets
           /\ \A k \in DOMAIN packets :
                 /\ delayed[k].provenance = packets[k].provenance
                 /\ ReleaseStep(delayed[k]) = release
           /\ Load(PutAside(d, packets, config, step), T) = Load(d, T) + Count(delayed, T)
<1> DEFINE e == PutAside(d, packets, config, step)
<1>1. /\ release \in Nat /\ delayed \in Seq(Packet)
      /\ IsPending(e) /\ Extends(e, d, release, delayed)
  BY PutAsideAdds
<1>2. ASSUME NEW k \in DOMAIN packets
      PROVE  /\ delayed[k].provenance = packets[k].provenance
             /\ ReleaseStep(delayed[k]) = release
  <2>1. packets[k] \in Packet /\ delayed[k] = Delayed(packets[k], config, release)
    BY DEF DelayedPackets
  <2>2. /\ Delayed(packets[k], config, release).provenance = packets[k].provenance
        /\ ReleaseStep(Delayed(packets[k], config, release)) = release
    BY <1>1, <2>1, DelayedFields
  <2> QED
    BY <2>1, <2>2
<1>3. DOMAIN delayed = DOMAIN packets
  BY DEF DelayedPackets
<1> HIDE DEF e
<1>4. Load(e, T) = Load(d, T) + Count(delayed, T)
  BY <1>1, ExtendedLoad
<1> QED
  BY <1>1, <1>2, <1>3, <1>4 DEF e

\* Sequences that agree on which positions count have the same count.
LEMMA CountSame ==
    ASSUME NEW s, NEW t, NEW T, NEW V, DOMAIN s = DOMAIN t,
           \A k \in DOMAIN s : s[k] \in T <=> t[k] \in V
    PROVE  Count(s, T) = Count(t, V)
<1>1. {k \in DOMAIN s : s[k] \in T} = {k \in DOMAIN t : t[k] \in V}
  OBVIOUS
<1> QED
  BY <1>1 DEF Count

ReleasedAt(r) == {q \in Packet : ReleaseStep(q) = r}

AnnouncedFor(r) == {e \in FaultEvent : e.release_step = r}

\* One turn of the loop announces what it puts aside.
LEMMA NextStageAudited ==
    ASSUME NEW j, IsConfigured(j), IsHistory(j.history),
           NEW n, n = Len(j.history) + 1, NEW step \in Steps,
           NEW st, StageOK(st, n, step), NEW i \in DOMAIN j.configs, NEW r \in Nat
    PROVE  LET new == NextStage(j, st, i, step)
           IN  Load(new.pending, ReleasedAt(r)) + Count(st.events, AnnouncedFor(r))
               = Load(st.pending, ReleasedAt(r)) + Count(new.events, AnnouncedFor(r))
<1> DEFINE config == j.configs[i]
           applied == Decision(j, i, step)
           delays == applied /\ config.kind = "delayed_evidence"
           new == NextStage(j, st, i, step)
           release == IF delays THEN step + config.delay_steps ELSE None
           fresh == [k \in DOMAIN st.packets |->
                        [step |-> step, config_index |-> i, kind |-> config.kind,
                         applied |-> applied, release_step |-> release]]
           T == ReleasedAt(r)
           V == AnnouncedFor(r)
<1>1. config \in FaultConfig /\ applied \in BOOLEAN /\ step \in Nat /\ i \in Nat
  BY InjectorAssumption DEF IsConfigured
<1>2. /\ st.packets \in Seq(Packet) /\ st.events \in Seq(FaultEvent)
      /\ IsPending(st.pending)
  BY Fresh(n) \subseteq Packet, SeqMonotone DEF StageOK, Fresh, PendingOK
<1>3. /\ new.pending = IF delays THEN PutAside(st.pending, st.packets, config, step)
                                 ELSE st.pending
      /\ new.events = st.events \o fresh
  BY DEF NextStage
<1>4. DOMAIN st.packets = 1..Len(st.packets) /\ Len(st.packets) \in Nat
  BY <1>2
<1> HIDE DEF new, config, applied, T, V
<1>5. release \in Nat \cup {None} /\ (delays => release = step + config.delay_steps)
  BY <1>1 DEF FaultConfig
<1>6. ~delays => release = None
  OBVIOUS
<1> HIDE DEF release
<1>7. config.kind \in FaultKind
  BY <1>1 DEF FaultConfig
<1>8. \A k \in DOMAIN st.packets : fresh[k] \in FaultEvent /\ fresh[k].release_step = release
  BY <1>1, <1>5, <1>7 DEF FaultEvent
<1>9. fresh \in Seq(FaultEvent) /\ DOMAIN fresh = DOMAIN st.packets
  BY <1>4, <1>8
<1> HIDE DEF fresh
<1>10. Count(new.events, V) = Count(st.events, V) + Count(fresh, V)
  BY <1>2, <1>3, <1>9, CountConcat
<1>11. /\ Count(st.events, V) \in Nat /\ Count(fresh, V) \in Nat
       /\ Load(st.pending, T) \in Nat
  BY <1>2, <1>9, CountType, LoadUpto, BoundType
<1>12. CASE delays
  <2> DEFINE delayed == DelayedPackets(st.packets, config, release)
  <2>1. /\ delayed \in Seq(Packet)
        /\ DOMAIN delayed = DOMAIN st.packets
        /\ \A k \in DOMAIN st.packets : ReleaseStep(delayed[k]) = release
        /\ Load(PutAside(st.pending, st.packets, config, step), T)
           = Load(st.pending, T) + Count(delayed, T)
    <3> DEFINE d == st.pending
               packets == st.packets
    <3>1. /\ IsPending(d) /\ packets \in Seq(Packet) /\ config \in FaultConfig
          /\ step \in Nat /\ release = step + config.delay_steps
      BY <1>1, <1>2, <1>5, <1>12
    <3>2. delayed = DelayedPackets(packets, config, release)
      OBVIOUS
    <3> HIDE DEF d, packets, delayed
    <3>3. /\ delayed \in Seq(Packet)
          /\ DOMAIN delayed = DOMAIN packets
          /\ \A k \in DOMAIN packets : ReleaseStep(delayed[k]) = release
          /\ Load(PutAside(d, packets, config, step), T) = Load(d, T) + Count(delayed, T)
      BY <3>1, <3>2, PutAsideLoad
    <3> QED
      BY <3>3 DEF d, packets
  <2> HIDE DEF delayed
  <2>2. \A k \in DOMAIN delayed : delayed[k] \in T <=> fresh[k] \in V
    <3>1. \A k \in DOMAIN delayed : delayed[k] \in Packet
      BY <2>1
    <3> QED
      BY <1>8, <2>1, <3>1 DEF T, V, ReleasedAt, AnnouncedFor
  <2>3. Count(delayed, T) = Count(fresh, V)
    BY <1>9, <2>1, <2>2, CountSame
  <2> QED
    BY <1>3, <1>10, <1>11, <1>12, <2>1, <2>3 DEF T, V, new
<1>13. CASE ~delays
  <2>1. None \notin Nat
    BY NoneAssumption
  <2>2. \A k \in DOMAIN fresh : fresh[k] \notin V
    BY <1>6, <1>8, <1>9, <1>13, <2>1 DEF V, AnnouncedFor
  <2>3. {k \in DOMAIN fresh : fresh[k] \in V} = {}
    BY <2>2
  <2>4. Count(fresh, V) = 0
    BY <2>3, FS_EmptySet DEF Count
  <2>5. new.pending = st.pending
    BY <1>3, <1>13
  <2> QED
    BY <1>10, <1>11, <2>4, <2>5 DEF T, V, new
<1> QED
  BY <1>12, <1>13

\* The packets that stem from call c.
CallOf(c) == {q \in Packet : q.provenance.call = c}

\* The copies of the packet of call c that a stage holds.
Held(st, c) == Count(st.packets, CallOf(c)) + Load(st.pending, CallOf(c))

\* What a stage holds can be counted.
LEMMA StageCounts ==
    ASSUME NEW st, NEW n, NEW step, StageOK(st, n, step), NEW c
    PROVE  /\ st.packets \in Seq(Packet) /\ IsPending(st.pending)
           /\ Count(st.packets, CallOf(c)) \in Nat
           /\ Load(st.pending, CallOf(c)) \in Nat
<1>1. st.packets \in Seq(Packet) /\ IsPending(st.pending)
  BY Fresh(n) \subseteq Packet, SeqMonotone DEF StageOK, Fresh, PendingOK
<1> QED
  BY <1>1, CountType, LoadUpto, BoundType

\* A delay moves copies but keeps their number.
LEMMA DelayHolds ==
    ASSUME NEW d, IsPending(d), NEW packets \in Seq(Packet),
           NEW config \in FaultConfig, NEW step \in Nat, NEW c
    PROVE  Load(PutAside(d, packets, config, step), CallOf(c))
           = Load(d, CallOf(c)) + Count(packets, CallOf(c))
<1> DEFINE T == CallOf(c)
           release == step + config.delay_steps
           delayed == DelayedPackets(packets, config, release)
<1>1. /\ delayed \in Seq(Packet)
      /\ DOMAIN delayed = DOMAIN packets
      /\ \A k \in DOMAIN packets : delayed[k].provenance = packets[k].provenance
      /\ Load(PutAside(d, packets, config, step), T) = Load(d, T) + Count(delayed, T)
  BY PutAsideLoad
<1> HIDE DEF delayed
<1>2. \A k \in DOMAIN delayed : delayed[k] \in Packet /\ packets[k] \in Packet
  BY <1>1
<1>3. \A k \in DOMAIN delayed : delayed[k] \in T <=> packets[k] \in T
  BY <1>1, <1>2 DEF CallOf
<1>4. Count(delayed, T) = Count(packets, T)
  <2> HIDE DEF T
  <2> QED
    BY <1>1, <1>3, CountSame
<1> QED
  BY <1>1, <1>4

\* One turn of the loop over the configurations, case by case.
LEMMA NextStageFields ==
    ASSUME NEW j, NEW st, NEW i, NEW step
    PROVE  LET new == NextStage(j, st, i, step)
               config == j.configs[i]
               applied == Decision(j, i, step)
           IN  /\ ~applied => new.packets = st.packets /\ new.pending = st.pending
               /\ applied /\ config.kind = "delayed_evidence" =>
                     /\ new.packets = << >>
                     /\ new.pending = PutAside(st.pending, st.packets, config, step)
               /\ applied /\ config.kind # "delayed_evidence" =>
                     /\ new.packets = ApplyAll(j, st.packets, config)
                     /\ new.pending = st.pending
BY DEF NextStage

\* A fault that neither replaces nor splits a packet keeps its only copy.
LEMMA NextStageKeepsOne ==
    ASSUME NEW j, IsConfigured(j), IsHistory(j.history),
           NEW n, n = Len(j.history) + 1, NEW step \in Steps,
           NEW st, StageOK(st, n, step), NEW i \in DOMAIN j.configs,
           j.configs[i].kind \notin Splitting \cup {"stale_evidence"},
           Len(st.packets) <= 1, NEW c
    PROVE  LET new == NextStage(j, st, i, step)
           IN  Len(new.packets) <= 1 /\ Held(new, c) = Held(st, c)
<1> DEFINE config == j.configs[i]
           applied == Decision(j, i, step)
           new == NextStage(j, st, i, step)
           T == CallOf(c)
<1>1. config \in FaultConfig /\ applied \in BOOLEAN /\ step \in Nat
  BY InjectorAssumption DEF IsConfigured
<1>2. /\ st.packets \in Seq(Packet) /\ IsPending(st.pending)
      /\ Count(st.packets, T) \in Nat /\ Load(st.pending, T) \in Nat
  BY StageCounts
<1>3. CASE ~applied
  <2>1. new.packets = st.packets /\ new.pending = st.pending
    BY <1>3, NextStageFields
  <2> HIDE DEF new
  <2>2. Held(new, c) = Held(st, c)
    BY <2>1 DEF Held
  <2> QED
    BY <2>1, <2>2 DEF new
<1>4. CASE applied /\ config.kind = "delayed_evidence"
  <2>1. /\ new.packets = << >>
        /\ new.pending = PutAside(st.pending, st.packets, config, step)
    BY <1>4, NextStageFields
  <2>2. Load(new.pending, T) = Load(st.pending, T) + Count(st.packets, T)
    <3> HIDE DEF config, new
    <3> QED
      BY <1>1, <1>2, <2>1, DelayHolds
  <2>3. Len(new.packets) = 0
    BY <2>1
  <2>4. Count(new.packets, T) = 0
    BY <2>1, CountEmpty
  <2> HIDE DEF new, T
  <2>5. Held(new, c) = Held(st, c)
    BY <1>2, <2>2, <2>4 DEF Held, T
  <2> QED
    BY <2>3, <2>5 DEF new
<1>5. CASE applied /\ config.kind # "delayed_evidence"
  <2> DEFINE ss == [k \in DOMAIN st.packets |-> Apply(j, st.packets[k], config)]
  <2>1. new.packets = FlattenSeq(ss) /\ new.pending = st.pending
    BY <1>5, NextStageFields DEF ApplyAll
  <2>2. Len(new.packets) <= 1 /\ Count(new.packets, T) = Count(st.packets, T)
    <3>1. CASE st.packets = << >>
      <4>1. ss = << >>
        BY <3>1
      <4>2. new.packets = << >>
        BY <2>1, <4>1 DEF FlattenSeq
      <4> HIDE DEF new
      <4> QED
        BY <3>1, <4>2
    <3>2. CASE st.packets # << >>
      <4>1. Len(st.packets) = 1
        <5>1. Len(st.packets) \in Nat /\ Len(st.packets) # 0
          BY <1>2, <3>2
        <5>2. \A l \in Nat : l # 0 /\ l <= 1 => l = 1
          OBVIOUS
        <5> HIDE DEF ss, new, T, config, applied
        <5> QED
          BY <5>1, <5>2
      <4> DEFINE p == st.packets[1]
      <4>2. p \in Packet /\ st.packets = <<p>>
        BY <1>2, <4>1
      <4>3. j.history \in Seq(Packet)
        BY DEF IsHistory
      <4>4. PICK q : /\ Marked(Source(j, p, config.kind), q, config.kind)
                     /\ Apply(j, p, config) =
                           IF config.kind \in Splitting THEN <<p, q>> ELSE <<q>>
        <5> HIDE DEF p, config
        <5> QED
          BY <1>1, <1>5, <4>2, <4>3, ApplyShape
      <4>5. Source(j, p, config.kind) = p /\ config.kind \notin Splitting
        BY DEF Source
      <4>6. q \in Packet /\ q.provenance = p.provenance /\ Apply(j, p, config) = <<q>>
        BY <4>4, <4>5 DEF Marked
      <4>7. ss = << <<q>> >>
        <5>1. DOMAIN st.packets = {1}
          BY <1>2, <4>1
        <5>2. ss[1] = <<q>>
          BY <4>6, <5>1
        <5>3. ss = [k \in {1} |-> ss[k]]
          BY <5>1
        <5>4. << <<q>> >> = [k \in {1} |-> <<q>>]
          OBVIOUS
        <5> HIDE DEF ss
        <5> QED
          BY <5>2, <5>3, <5>4
      <4>8. FlattenSeq(ss) = <<q>>
        <5>1. /\ << >> \in Seq(Seq(Packet)) /\ <<q>> \in Seq(Packet)
              /\ Append(<< >>, <<q>>) = << <<q>> >>
          BY <4>6
        <5>2. FlattenSeq(<< >>) = << >>
          BY DEF FlattenSeq
        <5>3. FlattenSeq(Append(<< >>, <<q>>)) = FlattenSeq(<< >>) \o <<q>>
          BY <5>1, FlattenAppend
        <5> QED
          BY <4>7, <5>1, <5>2, <5>3
      <4>9. q \in T <=> p \in T
        BY <4>2, <4>6 DEF CallOf
      <4>10. Count(<<q>>, T) = Count(<<p>>, T)
        <5> HIDE DEF T
        <5> QED
          BY <4>9, CountSingle
      <4>11. Len(<<q>>) = 1
        OBVIOUS
      <4> HIDE DEF ss, new, p, T
      <4> QED
        BY <2>1, <4>2, <4>8, <4>10, <4>11
    <3> QED
      BY <3>1, <3>2
  <2> HIDE DEF new, T
  <2>3. Held(new, c) = Held(st, c)
    BY <2>1, <2>2 DEF Held, T
  <2> QED
    BY <2>2, <2>3 DEF new
<1> QED
  BY <1>1, <1>3, <1>4, <1>5

\* Nothing that is pending goes, and unless a fault replaces packets, one of
\* which there is a copy keeps one.
LEMMA NextStageKeepsSome ==
    ASSUME NEW j, IsConfigured(j), IsHistory(j.history),
           NEW n, n = Len(j.history) + 1, NEW step \in Steps,
           NEW st, StageOK(st, n, step), NEW i \in DOMAIN j.configs, NEW c
    PROVE  LET new == NextStage(j, st, i, step)
           IN  /\ Load(new.pending, CallOf(c)) >= Load(st.pending, CallOf(c))
               /\ j.configs[i].kind # "stale_evidence" /\ Held(st, c) >= 1 =>
                      Held(new, c) >= 1
<1> DEFINE config == j.configs[i]
           applied == Decision(j, i, step)
           new == NextStage(j, st, i, step)
           T == CallOf(c)
<1>1. config \in FaultConfig /\ applied \in BOOLEAN /\ step \in Nat
  BY InjectorAssumption DEF IsConfigured
<1>2. /\ st.packets \in Seq(Packet) /\ IsPending(st.pending)
      /\ Count(st.packets, T) \in Nat /\ Load(st.pending, T) \in Nat
  BY StageCounts
<1>3. /\ new.packets \in Seq(Packet) /\ IsPending(new.pending)
      /\ Count(new.packets, T) \in Nat /\ Load(new.pending, T) \in Nat
  BY NextStageOK, StageCounts
<1>4. CASE ~applied
  <2>1. new.packets = st.packets /\ new.pending = st.pending
    BY <1>4, NextStageFields
  <2> HIDE DEF new
  <2>2. Load(new.pending, T) >= Load(st.pending, T) /\ Held(new, c) = Held(st, c)
    BY <1>2, <2>1 DEF Held
  <2> QED
    BY <2>2 DEF new
<1>5. CASE applied /\ config.kind = "delayed_evidence"
  <2>1. /\ new.packets = << >>
        /\ new.pending = PutAside(st.pending, st.packets, config, step)
    BY <1>5, NextStageFields
  <2>2. Load(new.pending, T) = Load(st.pending, T) + Count(st.packets, T)
    <3> HIDE DEF config, new
    <3> QED
      BY <1>1, <1>2, <2>1, DelayHolds
  <2>3. Count(new.packets, T) = 0
    BY <2>1, CountEmpty
  <2> HIDE DEF new, T
  <2>4. Load(new.pending, T) >= Load(st.pending, T) /\ Held(new, c) = Held(st, c)
    BY <1>2, <2>2, <2>3 DEF Held, T
  <2> QED
    BY <2>4 DEF new, T
<1>6. CASE applied /\ config.kind # "delayed_evidence"
  <2> DEFINE ss == [k \in DOMAIN st.packets |-> Apply(j, st.packets[k], config)]
  <2>1. new.packets = FlattenSeq(ss) /\ new.pending = st.pending
    BY <1>6, NextStageFields DEF ApplyAll
  <2>2. Load(new.pending, T) >= Load(st.pending, T)
    BY <1>2, <2>1
  <2>3. ASSUME config.kind # "stale_evidence", Count(st.packets, T) >= 1
        PROVE  Count(new.packets, T) >= 1
    <3>1. PICK p \in Range(st.packets) : p \in T
      BY <1>2, <2>3, CountPositive
    <3>2. PICK k \in DOMAIN st.packets : p = st.packets[k]
      BY <3>1 DEF Range
    <3>3. p \in Packet /\ j.history \in Seq(Packet)
      BY <1>2, <3>2 DEF IsHistory
    <3>4. PICK q : /\ Marked(Source(j, p, config.kind), q, config.kind)
                   /\ Apply(j, p, config) =
                         IF config.kind \in Splitting THEN <<p, q>> ELSE <<q>>
      <4> HIDE DEF config
      <4> QED
        BY <1>1, <1>6, <3>3, ApplyShape
    <3>5. Source(j, p, config.kind) = p
      BY <2>3 DEF Source
    <3>6. q \in Packet /\ q.provenance = p.provenance
      BY <3>4, <3>5 DEF Marked
    <3>7. q \in T
      BY <3>1, <3>3, <3>6 DEF CallOf
    <3>8. q \in Range(Apply(j, p, config))
      <4>1. q = <<q>>[1] /\ 1 \in DOMAIN <<q>>
        OBVIOUS
      <4>2. q = <<p, q>>[2] /\ 2 \in DOMAIN <<p, q>>
        OBVIOUS
      <4> QED
        BY <3>4, <4>1, <4>2 DEF Range
    <3>9. ss \in Seq(Seq(Packet)) /\ DOMAIN ss = DOMAIN st.packets
      <4>1. \A l \in DOMAIN st.packets : st.packets[l] \in Fresh(n)
        BY DEF StageOK
      <4>2. ASSUME NEW l \in DOMAIN st.packets
            PROVE  Apply(j, st.packets[l], config) \in Seq(Packet)
        <5>1. Apply(j, st.packets[l], config) \in Seq(Fresh(n))
          BY <1>1, <1>6, <4>1, ApplyFresh
        <5>2. Fresh(n) \subseteq Packet
          BY DEF Fresh
        <5> QED
          BY <5>1, <5>2, SeqMonotone
      <4>3. DOMAIN st.packets = 1..Len(st.packets) /\ Len(st.packets) \in Nat
        BY <1>2
      <4> HIDE DEF config
      <4> QED
        BY <4>2, <4>3
    <3>10. ss[k] = Apply(j, p, config)
      BY <3>2
    <3> HIDE DEF ss, new
    <3>11. q \in Range(new.packets)
      <4>1. Range(FlattenSeq(ss)) = UNION {Range(ss[l]) : l \in DOMAIN ss}
        BY <3>9, FlattenRange
      <4> QED
        BY <2>1, <3>2, <3>8, <3>9, <3>10, <4>1
    <3> QED
      BY <1>3, <3>7, <3>11, CountPositive
  <2> HIDE DEF new, T
  <2>4. config.kind # "stale_evidence" /\ Held(st, c) >= 1 => Held(new, c) >= 1
    BY <1>2, <1>3, <2>1, <2>3 DEF Held, T
  <2> QED
    BY <2>2, <2>4 DEF new, T
<1> QED
  BY <1>1, <1>4, <1>5, <1>6

NoneReplaces(j) == \A i \in DOMAIN j.configs : j.configs[i].kind # "stale_evidence"

NoneSplits(j) == \A i \in DOMAIN j.configs : j.configs[i].kind \notin Splitting

\* What the loop has kept of its first stage by stage st.
Kept(j, first, st, n, step) ==
    /\ StageOK(st, n, step)
    /\ \A r \in Nat :
          Load(st.pending, ReleasedAt(r)) + Count(first.events, AnnouncedFor(r))
          = Load(first.pending, ReleasedAt(r)) + Count(st.events, AnnouncedFor(r))
    /\ \A c \in Nat :
          /\ Load(st.pending, CallOf(c)) >= Load(first.pending, CallOf(c))
          /\ NoneReplaces(j) /\ Held(first, c) >= 1 => Held(st, c) >= 1
    /\ NoneReplaces(j) /\ NoneSplits(j) =>
          Len(st.packets) <= 1 /\ \A c \in Nat : Held(st, c) = Held(first, c)

\* The first stage holds the packet of the call and what is not yet due.
LEMMA FirstStageOK ==
    ASSUME NEW j, IsHistory(j.history), NEW n, n = Len(j.history) + 1,
           PendingOK(j.pending, n - 1), j.events \in Seq(FaultEvent),
           NEW p \in Fresh(n), NEW step \in Nat
    PROVE  /\ StageOK(FirstStage(j, p, step), n, step)
           /\ FirstStage(j, p, step).packets = <<p>>
           /\ FirstStage(j, p, step).pending = StillPending(j.pending, step)
           /\ FirstStage(j, p, step).events = j.events
<1> DEFINE first == FirstStage(j, p, step)
           d == j.pending
<1>1. /\ first.packets = <<p>> /\ first.pending = StillPending(d, step)
      /\ first.events = j.events
  BY DEF FirstStage
<1>2. n \in Nat
  BY DEF IsHistory
<1>3. <<p>> \in Seq(Fresh(n))
  <2> DEFINE F == Fresh(n)
  <2>1. p \in F
    OBVIOUS
  <2> HIDE DEF F
  <2>2. <<p>> \in Seq(F)
    BY <2>1
  <2> QED
    BY <2>2 DEF F
<1>4. IsPending(d)
  BY DEF PendingOK
<1>5. IsPending(StillPending(d, step))
  BY <1>4, StillPendingLoad
<1>6. /\ DOMAIN StillPending(d, step) = {s \in DOMAIN d : s > step}
      /\ \A r \in DOMAIN StillPending(d, step) : StillPending(d, step)[r] = d[r]
  BY DEF StillPending
<1>7. ASSUME NEW r \in DOMAIN StillPending(d, step)
      PROVE  StillPending(d, step)[r] \in Seq(Aside(r, n))
  <2>1. r \in DOMAIN d /\ StillPending(d, step)[r] = d[r]
    BY <1>6
  <2>2. d[r] \in Seq(Aside(r, n - 1))
    BY <2>1 DEF PendingOK
  <2>3. Aside(r, n - 1) \subseteq Aside(r, n)
    <3>1. ASSUME NEW q \in Packet, q.provenance.call <= n - 1
          PROVE  q.provenance.call <= n
      <4>1. q.provenance.call \in Nat
        BY <3>1, PacketFields
      <4> QED
        BY <1>2, <3>1, <4>1
    <3> QED
      BY <3>1 DEF Aside
  <2> QED
    BY <2>1, <2>2, <2>3, SeqMonotone
<1> HIDE DEF first
<1>8. StageOK(first, n, step)
  BY <1>1, <1>3, <1>5, <1>6, <1>7 DEF StageOK, PendingOK
<1> QED
  BY <1>1, <1>8 DEF first

\* One turn keeps the counts: a delay moves packets, a fault replaces them.
LEMMA NextStageKept ==
    ASSUME NEW j, IsConfigured(j), IsHistory(j.history),
           NEW n, n = Len(j.history) + 1, NEW step \in Steps,
           NEW first, StageOK(first, n, step),
           NEW st, Kept(j, first, st, n, step), NEW i \in DOMAIN j.configs
    PROVE  Kept(j, first, NextStage(j, st, i, step), n, step)
<1> DEFINE new == NextStage(j, st, i, step)
<1>1. StageOK(st, n, step)
  BY DEF Kept
<1>2. StageOK(new, n, step)
  BY <1>1, NextStageOK
<1>3. ASSUME NEW r \in Nat
      PROVE  Load(new.pending, ReleasedAt(r)) + Count(first.events, AnnouncedFor(r))
             = Load(first.pending, ReleasedAt(r)) + Count(new.events, AnnouncedFor(r))
  <2>1. Load(new.pending, ReleasedAt(r)) + Count(st.events, AnnouncedFor(r))
        = Load(st.pending, ReleasedAt(r)) + Count(new.events, AnnouncedFor(r))
    BY <1>1, NextStageAudited
  <2>2. Load(st.pending, ReleasedAt(r)) + Count(first.events, AnnouncedFor(r))
        = Load(first.pending, ReleasedAt(r)) + Count(st.events, AnnouncedFor(r))
    BY DEF Kept
  <2> DEFINE LoadType(x) == Load(x.pending, ReleasedAt(r)) \in Nat
             CountsType(x) == Count(x.events, AnnouncedFor(r)) \in Nat
  <2>3. ASSUME NEW x, StageOK(x, n, step)
        PROVE  LoadType(x) /\ CountsType(x)
    <3>1. IsPending(x.pending) /\ x.events \in Seq(FaultEvent)
      BY <2>3 DEF StageOK, PendingOK
    <3> QED
      BY <3>1, CountType, LoadUpto, BoundType
  <2>4. /\ LoadType(first) /\ LoadType(st) /\ LoadType(new)
        /\ CountsType(first) /\ CountsType(st) /\ CountsType(new)
    <3> HIDE DEF LoadType, CountsType, new
    <3> QED
      BY <1>1, <1>2, <2>3
  <2> HIDE DEF new
  <2> QED
    BY <2>1, <2>2, <2>4
<1>4. ASSUME NEW c \in Nat
      PROVE  /\ Load(new.pending, CallOf(c)) >= Load(first.pending, CallOf(c))
             /\ NoneReplaces(j) /\ Held(first, c) >= 1 => Held(new, c) >= 1
  <2>1. /\ Load(new.pending, CallOf(c)) >= Load(st.pending, CallOf(c))
        /\ j.configs[i].kind # "stale_evidence" /\ Held(st, c) >= 1 => Held(new, c) >= 1
    BY <1>1, NextStageKeepsSome
  <2>2. /\ Load(st.pending, CallOf(c)) >= Load(first.pending, CallOf(c))
        /\ NoneReplaces(j) /\ Held(first, c) >= 1 => Held(st, c) >= 1
    BY DEF Kept
  <2>3. /\ Load(first.pending, CallOf(c)) \in Nat /\ Load(st.pending, CallOf(c)) \in Nat
        /\ Load(new.pending, CallOf(c)) \in Nat
    BY <1>1, <1>2, StageCounts
  <2>4. NoneReplaces(j) => j.configs[i].kind # "stale_evidence"
    BY DEF NoneReplaces
  <2> HIDE DEF new
  <2> QED
    BY <2>1, <2>2, <2>3, <2>4
<1>5. ASSUME NoneReplaces(j), NoneSplits(j)
      PROVE  Len(new.packets) <= 1 /\ \A c \in Nat : Held(new, c) = Held(first, c)
  <2>1. j.configs[i].kind \notin Splitting \cup {"stale_evidence"}
    BY <1>5 DEF NoneReplaces, NoneSplits
  <2>2. Len(st.packets) <= 1 /\ \A c \in Nat : Held(st, c) = Held(first, c)
    BY <1>5 DEF Kept
  <2>3. \A c \in Nat : Len(new.packets) <= 1 /\ Held(new, c) = Held(st, c)
    BY <1>1, <2>1, <2>2, NextStageKeepsOne
  <2> HIDE DEF new
  <2> QED
    BY <2>2, <2>3, 0 \in Nat
<1> HIDE DEF new
<1>6. Kept(j, first, new, n, step)
  BY <1>2, <1>3, <1>4, <1>5 DEF Kept
<1> QED
  BY <1>6 DEF new

\* What holds of the stage in which inject() ends.
LEMMA LastStageKept ==
    ASSUME NEW j, IsConfigured(j), IsHistory(j.history), NEW n, n = Len(j.history) + 1,
           PendingOK(j.pending, n - 1), j.events \in Seq(FaultEvent),
           NEW p \in Fresh(n), NEW step \in Steps
    PROVE  Kept(j, FirstStage(j, p, step), LastStage(j, p, step), n, step)
<1> DEFINE first == FirstStage(j, p, step)
<1>1. step \in Nat /\ Len(j.configs) \in Nat /\ DOMAIN j.configs = 1..Len(j.configs)
  BY InjectorAssumption DEF IsConfigured
<1>2. PICK stage : AreStages(stage, j, p, step) /\ LastStage(j, p, step) = stage[Len(j.configs)]
  BY <1>1, LastStageOfStages
<1>3. StageOK(first, n, step) /\ first.packets = <<p>>
  BY <1>1, FirstStageOK
<1> DEFINE S == {m \in Nat : m <= Len(j.configs) => Kept(j, first, stage[m], n, step)}
<1>4. 0 \in S
  <2>1. stage[0] = first
    BY <1>2 DEF AreStages
  <2>2. Len(first.packets) = 1
    BY <1>3
  <2> HIDE DEF first
  <2>3. \A c \in Nat : Load(first.pending, CallOf(c)) \in Nat
    BY <1>3, StageCounts
  <2>4. Kept(j, first, first, n, step)
    BY <1>3, <2>2, <2>3 DEF Kept
  <2> QED
    BY <2>1, <2>4
<1>5. ASSUME NEW m \in Nat, m \in S
      PROVE  m + 1 \in S
  <2> SUFFICES ASSUME m + 1 <= Len(j.configs)
               PROVE  Kept(j, first, stage[m + 1], n, step)
    OBVIOUS
  <2> HIDE DEF first
  <2>1. m <= Len(j.configs) /\ m + 1 \in DOMAIN j.configs
    BY <1>1
  <2>2. Kept(j, first, stage[m], n, step)
    BY <1>5, <2>1
  <2>3. stage[m + 1] = NextStage(j, stage[m], m + 1, step)
    BY <1>2 DEF AreStages
  <2>4. Kept(j, first, NextStage(j, stage[m], m + 1, step), n, step)
    BY <1>3, <2>1, <2>2, NextStageKept
  <2> QED
    BY <2>3, <2>4
<1>6. Len(j.configs) \in S
  <2> HIDE DEF S
  <2> QED
    BY <1>1, <1>4, <1>5, Induction
<1> QED
  BY <1>1, <1>2, <1>6

----------------------------------------------------------------------------
(* What is released *)

\* What may ever be released after n calls.
Late(n) == UNION {Aside(r, n) : r \in Nat}

\* The released packets are those put aside, in order of their release steps.
LEMMA UptoReleased ==
    ASSUME NEW n, NEW d, PendingOK(d, n), NEW m \in Nat
    PROVE  /\ Upto(d, m) \in Seq(Late(n))
           /\ \A k \in DOMAIN Upto(d, m) :
                 /\ ReleaseStep(Upto(d, m)[k]) \in Nat
                 /\ ReleaseStep(Upto(d, m)[k]) < m
                 /\ \A i \in 1..(k - 1) :
                       ReleaseStep(Upto(d, m)[i]) <= ReleaseStep(Upto(d, m)[k])
<1> DEFINE Sorted(s, b) ==
             /\ s \in Seq(Late(n))
             /\ \A k \in DOMAIN s :
                   /\ ReleaseStep(s[k]) \in Nat
                   /\ ReleaseStep(s[k]) < b
                   /\ \A i \in 1..(k - 1) : ReleaseStep(s[i]) <= ReleaseStep(s[k])
           S == {b \in Nat : Sorted(Upto(d, b), b)}
<1>1. 0 \in S
  <2>1. << >> \in Seq(Late(n)) /\ DOMAIN << >> = {}
    OBVIOUS
  <2>2. Upto(d, 0) = << >>
    BY UptoZero
  <2>3. Sorted(<< >>, 0)
    BY <2>1
  <2> HIDE DEF Sorted
  <2> QED
    BY <2>2, <2>3
<1>2. ASSUME NEW b \in Nat, b \in S
      PROVE  b + 1 \in S
  <2> DEFINE s == Upto(d, b)
             t == PendingAt(d, b)
  <2>1. Upto(d, b + 1) = s \o t
    BY UptoNext DEF PendingOK
  <2>2. Sorted(s, b)
    BY <1>2
  <2>3. t \in Seq(Aside(b, n))
    <3>1. << >> \in Seq(Aside(b, n))
      OBVIOUS
    <3> QED
      BY <3>1 DEF PendingAt, PendingOK
  <2>4. t \in Seq(Late(n))
    <3>1. Aside(b, n) \subseteq Late(n)
      BY DEF Late
    <3> QED
      BY <2>3, <3>1, SeqMonotone
  <2>5. \A k \in DOMAIN t : ReleaseStep(t[k]) = b
    BY <2>3 DEF Aside
  <2> HIDE DEF s, t
  <2>6. /\ s \o t \in Seq(Late(n)) /\ Len(s) \in Nat /\ Len(t) \in Nat
        /\ DOMAIN (s \o t) = 1..(Len(s) + Len(t))
        /\ DOMAIN s = 1..Len(s) /\ DOMAIN t = 1..Len(t)
        /\ \A k \in 1..Len(s) : (s \o t)[k] = s[k]
        /\ \A k \in 1..Len(t) : (s \o t)[Len(s) + k] = t[k]
    BY <2>2, <2>4, ConcatElements
  <2> DEFINE st == s \o t
  <2>7. \A k \in 1..Len(s) : st[k] = s[k]
    BY <2>6
  <2>8. \A k \in DOMAIN st : k \notin 1..Len(s) => ReleaseStep(st[k]) = b
    <3> SUFFICES ASSUME NEW k \in DOMAIN st, k \notin 1..Len(s)
                 PROVE  ReleaseStep(st[k]) = b
      OBVIOUS
    <3>1. k - Len(s) \in 1..Len(t) /\ Len(s) + (k - Len(s)) = k
      BY <2>6
    <3>2. st[k] = t[k - Len(s)]
      BY <2>6, <3>1
    <3> QED
      BY <2>5, <2>6, <3>1, <3>2
  <2>9. DOMAIN st = 1..(Len(s) + Len(t)) /\ Len(s) \in Nat /\ Len(t) \in Nat
    BY <2>6
  <2>10. \A k \in 1..Len(s) : ReleaseStep(st[k]) \in Nat /\ ReleaseStep(st[k]) < b
    BY <2>2, <2>6, <2>7
  <2> HIDE DEF st
  <2>11. ASSUME NEW k \in DOMAIN st
         PROVE  /\ ReleaseStep(st[k]) \in Nat
                /\ ReleaseStep(st[k]) < b + 1
                /\ \A i \in 1..(k - 1) : ReleaseStep(st[i]) <= ReleaseStep(st[k])
    <3>1. CASE k \in 1..Len(s)
      <4>1. \A i \in 1..(k - 1) : i \in 1..Len(s)
        BY <2>9, <3>1
      <4>2. \A i \in 1..(k - 1) : ReleaseStep(s[i]) <= ReleaseStep(s[k])
        BY <2>2, <2>6, <3>1
      <4> QED
        BY <2>7, <2>10, <3>1, <4>1, <4>2
    <3>2. CASE k \notin 1..Len(s)
      <4>1. ReleaseStep(st[k]) = b
        BY <2>8, <3>2
      <4>2. ASSUME NEW i \in 1..(k - 1)
            PROVE  ReleaseStep(st[i]) <= b
        <5>1. i \in DOMAIN st
          BY <2>9
        <5> QED
          BY <2>8, <2>10, <5>1
      <4> QED
        BY <4>1, <4>2
    <3> QED
      BY <3>1, <3>2
  <2>12. Sorted(st, b + 1)
    <3>1. st \in Seq(Late(n))
      BY <2>6 DEF st
    <3> QED
      BY <2>11, <3>1
  <2>13. Upto(d, b + 1) = st
    BY <2>1 DEF st, s, t
  <2> HIDE DEF Sorted
  <2>14. Sorted(Upto(d, b + 1), b + 1)
    BY <2>12, <2>13
  <2> QED
    BY <2>14
<1>3. m \in S
  <2> HIDE DEF S
  <2> QED
    BY <1>1, <1>2, Induction
<1> QED
  BY <1>3

----------------------------------------------------------------------------
(* One return *)

Output ==
    [call : {"inject", "flush"}, step : Nat \cup {None}, packets : Seq(Packet)]

\* The properties of a return o made after n calls of inject.
IsUnlabelledOriginal(o, n) ==
    \A k \in DOMAIN o.packets :
        LET p == o.packets[k]
        IN  Labels(p) = << >> =>
                /\ o.call = "inject"
                /\ p = Original(p.provenance.call, p.provenance.status)
                /\ p.provenance.call = n

IsStaleAuthentic(o, n) ==
    \A k \in DOMAIN o.packets :
        LET p == o.packets[k]
        IN  o.call = "inject" /\ p.provenance.call < n /\ ReleaseStep(p) = None =>
                /\ Labels(p) # << >> /\ Labels(p)[1] = "stale_evidence"
                /\ Labels(p) = <<"stale_evidence">> => p.status = p.provenance.status

IsReleasedInOrder(o) ==
    \A k \in DOMAIN o.packets :
        ReleaseStep(o.packets[k]) # None =>
            /\ o.call = "inject" => ReleaseStep(o.packets[k]) <= o.step
            /\ \A i \in 1..(k - 1) :
                  /\ ReleaseStep(o.packets[i]) # None
                  /\ ReleaseStep(o.packets[i]) <= ReleaseStep(o.packets[k])

OutputOK(o, n) ==
    /\ IsUnlabelledOriginal(o, n)
    /\ IsStaleAuthentic(o, n)
    /\ IsReleasedInOrder(o)
    /\ \A k \in DOMAIN o.packets : o.packets[k].provenance.call <= n

LateType == \A n : Late(n) = {q \in Packet : /\ ReleaseStep(q) \in Nat
                                            /\ Labels(q) # << >>
                                            /\ q.provenance.call <= n}

\* What may be returned late, in the form of a set.
LEMMA LateIsTyped == LateType
BY DEF LateType, Late, Aside

\* What inject() returns.
LEMMA InjectOutputOK ==
    ASSUME NEW n \in Nat, NEW d, PendingOK(d, n - 1), NEW fresh \in Seq(Fresh(n)),
           NEW step \in Nat, NEW o,
           o = [call |-> "inject", step |-> step,
                packets |-> InReleaseOrder(d, step) \o fresh]
    PROVE  o \in Output /\ OutputOK(o, n)
<1> DEFINE a == Upto(d, step + 1)
           ab == a \o fresh
<1>1. o.packets = ab /\ o.call = "inject" /\ o.step = step
  BY UptoIsInReleaseOrder
<1>2. /\ a \in Seq(Late(n - 1))
      /\ \A k \in DOMAIN a :
            /\ ReleaseStep(a[k]) \in Nat
            /\ ReleaseStep(a[k]) < step + 1
            /\ \A i \in 1..(k - 1) : ReleaseStep(a[i]) <= ReleaseStep(a[k])
  <2> DEFINE before == n - 1
             m == step + 1
  <2>1. PendingOK(d, before) /\ m \in Nat
    OBVIOUS
  <2> HIDE DEF before, m
  <2>2. /\ Upto(d, m) \in Seq(Late(before))
        /\ \A k \in DOMAIN Upto(d, m) :
              /\ ReleaseStep(Upto(d, m)[k]) \in Nat
              /\ ReleaseStep(Upto(d, m)[k]) < m
              /\ \A i \in 1..(k - 1) :
                    ReleaseStep(Upto(d, m)[i]) <= ReleaseStep(Upto(d, m)[k])
    BY <2>1, UptoReleased
  <2> QED
    BY <2>2 DEF before, m
<1>3. a \in Seq(Packet) /\ fresh \in Seq(Packet)
  <2>1. Late(n - 1) \subseteq Packet /\ Fresh(n) \subseteq Packet
    BY DEF Late, Aside, Fresh
  <2>2. a \in Seq(Late(n - 1))
    BY <1>2
  <2> HIDE DEF a
  <2>3. a \in Seq(Packet)
    BY <2>1, <2>2, SeqMonotone
  <2>4. fresh \in Seq(Packet)
    BY <2>1, SeqMonotone
  <2> QED
    BY <2>3, <2>4
<1> HIDE DEF a
<1>4. /\ ab \in Seq(Packet) /\ Len(a) \in Nat /\ Len(fresh) \in Nat
      /\ DOMAIN ab = 1..(Len(a) + Len(fresh))
      /\ DOMAIN a = 1..Len(a) /\ DOMAIN fresh = 1..Len(fresh)
      /\ \A k \in 1..Len(a) : ab[k] = a[k]
      /\ \A k \in 1..Len(fresh) : ab[Len(a) + k] = fresh[k]
  BY <1>3, ConcatElements
<1> HIDE DEF ab
<1>5. ASSUME NEW k \in DOMAIN ab
      PROVE  \/ /\ k \in DOMAIN a /\ ab[k] = a[k] /\ ab[k] \in Late(n - 1)
             \/ ab[k] \in Fresh(n)
  <2>1. CASE k <= Len(a)
    BY <1>2, <1>4, <2>1
  <2>2. CASE ~ (k <= Len(a))
    <3>1. k - Len(a) \in 1..Len(fresh) /\ Len(a) + (k - Len(a)) = k
      BY <1>4, <2>2
    <3>2. ab[k] = fresh[k - Len(a)]
      BY <1>4, <3>1
    <3> QED
      BY <1>4, <3>1, <3>2
  <2> QED
    BY <2>1, <2>2
<1>6. o \in Output
  BY <1>1, <1>4 DEF Output
<1>7. ASSUME NEW k \in DOMAIN ab
      PROVE  /\ Labels(ab[k]) = << >> =>
                   /\ ab[k] = Original(ab[k].provenance.call, ab[k].provenance.status)
                   /\ ab[k].provenance.call = n
             /\ ab[k].provenance.call < n /\ ReleaseStep(ab[k]) = None =>
                   /\ Labels(ab[k]) # << >> /\ Labels(ab[k])[1] = "stale_evidence"
                   /\ Labels(ab[k]) = <<"stale_evidence">> =>
                         ab[k].status = ab[k].provenance.status
             /\ ab[k].provenance.call <= n
  <2> DEFINE q == ab[k]
  <2>1. q \in Packet
    BY <1>4
  <2>2. q.provenance.call \in Nat /\ q.provenance.status \in Status
    BY <2>1, PacketFields
  <2>3. CASE q \in Late(n - 1)
    <3>1. /\ ReleaseStep(q) \in Nat /\ Labels(q) # << >>
          /\ q.provenance.call <= n - 1
      BY <2>3, LateIsTyped DEF LateType
    <3>2. ReleaseStep(q) # None
      BY <3>1, NoneAssumption
    <3> HIDE DEF q
    <3>3. q.provenance.call <= n
      BY <2>2, <3>1
    <3> QED
      BY <3>1, <3>2, <3>3 DEF q
  <2>4. CASE q \in Fresh(n)
    <3>1. Original(n, q.provenance.status).provenance.call = n
      BY DEF Original
    <3> HIDE DEF q
    <3>2. Labels(q) = << >> => q.provenance.call = n /\ q = Original(n, q.provenance.status)
      BY <2>4, <3>1 DEF Fresh
    <3> QED
      BY <2>4, <3>2 DEF Fresh, q
  <2> QED
    BY <1>5, <2>3, <2>4
<1>8. ASSUME NEW k \in DOMAIN ab, ReleaseStep(ab[k]) # None
      PROVE  /\ ReleaseStep(ab[k]) <= step
             /\ \A i \in 1..(k - 1) :
                   /\ ReleaseStep(ab[i]) # None
                   /\ ReleaseStep(ab[i]) <= ReleaseStep(ab[k])
  <2>1. k \in DOMAIN a /\ ab[k] = a[k]
    BY <1>5, <1>8 DEF Fresh
  <2>2. ReleaseStep(a[k]) \in Nat /\ ReleaseStep(a[k]) < step + 1
    BY <1>2, <2>1
  <2>3. ASSUME NEW i \in 1..(k - 1)
        PROVE  /\ ReleaseStep(ab[i]) # None
               /\ ReleaseStep(ab[i]) <= ReleaseStep(ab[k])
    <3>1. i \in DOMAIN a /\ ab[i] = a[i]
      BY <1>4, <2>1
    <3>2. ReleaseStep(a[i]) \in Nat /\ ReleaseStep(a[i]) <= ReleaseStep(a[k])
      BY <1>2, <2>1, <3>1
    <3> QED
      BY <2>1, <3>1, <3>2, NoneAssumption
  <2> QED
    BY <2>1, <2>2, <2>3
<1>9. IsUnlabelledOriginal(o, n) /\ IsStaleAuthentic(o, n)
  BY <1>1, <1>7 DEF IsUnlabelledOriginal, IsStaleAuthentic
<1>10. IsReleasedInOrder(o)
  BY <1>1, <1>8 DEF IsReleasedInOrder
<1> QED
  BY <1>1, <1>6, <1>7, <1>9, <1>10 DEF OutputOK

\* What flush() returns.
LEMMA FlushOutputOK ==
    ASSUME NEW n \in Nat, NEW d, PendingOK(d, n), NEW last \in Nat, NEW o,
           o = [call |-> "flush", step |-> None, packets |-> InReleaseOrder(d, last)]
    PROVE  o \in Output /\ OutputOK(o, n)
<1> DEFINE a == Upto(d, last + 1)
<1>1. o.packets = a /\ o.call = "flush" /\ o.step = None
  BY UptoIsInReleaseOrder
<1>2. /\ a \in Seq(Late(n))
      /\ \A k \in DOMAIN a :
            /\ ReleaseStep(a[k]) \in Nat
            /\ \A i \in 1..(k - 1) : ReleaseStep(a[i]) <= ReleaseStep(a[k])
  BY UptoReleased
<1> HIDE DEF a
<1>3. a \in Seq(Packet)
  <2>1. Late(n) \subseteq Packet
    BY DEF Late, Aside
  <2> QED
    BY <1>2, <2>1, SeqMonotone
<1>4. o \in Output
  BY <1>1, <1>3 DEF Output
<1>5. \A k \in DOMAIN a : Labels(a[k]) # << >> /\ a[k].provenance.call <= n
  <2>1. \A k \in DOMAIN a : a[k] \in Late(n)
    BY <1>2
  <2> QED
    BY <2>1, LateIsTyped DEF LateType
<1>6. IsUnlabelledOriginal(o, n) /\ IsStaleAuthentic(o, n)
  BY <1>1, <1>5 DEF IsUnlabelledOriginal, IsStaleAuthentic
<1>7. IsReleasedInOrder(o)
  <2>1. \A k \in DOMAIN a : \A i \in 1..(k - 1) : i \in DOMAIN a
    BY <1>3
  <2>2. \A k \in DOMAIN a : ReleaseStep(a[k]) # None
    BY <1>2, NoneAssumption
  <2> QED
    BY <1>1, <1>2, <2>1, <2>2 DEF IsReleasedInOrder
<1> QED
  BY <1>1, <1>4, <1>5, <1>6, <1>7 DEF OutputOK

----------------------------------------------------------------------------
(* What the returns and the pending packets come to *)

\* All packets returned so far.
Returned(outs) == FlattenSeq([c \in DOMAIN outs |-> outs[c].packets])

\* The packets of T that were returned or are pending.
Total(outs, d, T) == Count(Returned(outs), T) + Load(d, T)

\* One more call adds the packets it returns.
LEMMA ReturnedAppend ==
    ASSUME NEW outs \in Seq(Output), NEW o \in Output, NEW T
    PROVE  /\ Returned(outs) \in Seq(Packet)
           /\ Count(Returned(outs), T) \in Nat
           /\ Count(Returned(Append(outs, o)), T)
              = Count(Returned(outs), T) + Count(o.packets, T)
<1> DEFINE ss == [c \in DOMAIN outs |-> outs[c].packets]
           tt == [c \in DOMAIN Append(outs, o) |-> Append(outs, o)[c].packets]
<1>1. o.packets \in Seq(Packet) /\ \A c \in DOMAIN outs : outs[c].packets \in Seq(Packet)
  <2>1. \A x \in Output : x.packets \in Seq(Packet)
    BY DEF Output
  <2>2. \A c \in DOMAIN outs : outs[c] \in Output
    OBVIOUS
  <2> QED
    BY <2>1, <2>2
<1>2. ss \in Seq(Seq(Packet))
  BY <1>1
<1>3. tt = Append(ss, o.packets)
  OBVIOUS
<1> HIDE DEF ss, tt
<1>4. FlattenSeq(ss) \in Seq(Packet) /\ FlattenSeq(tt) = FlattenSeq(ss) \o o.packets
  BY <1>1, <1>2, <1>3, FlattenType, FlattenAppend
<1>5. /\ Count(FlattenSeq(ss), T) \in Nat
      /\ Count(FlattenSeq(tt), T) = Count(FlattenSeq(ss), T) + Count(o.packets, T)
  <2>1. \A s, t \in Seq(Packet) : Count(s, T) \in Nat /\ Count(s \o t, T) = Count(s, T) + Count(t, T)
    BY CountType, CountConcat
  <2> QED
    BY <1>1, <1>4, <2>1
<1> QED
  BY <1>4, <1>5 DEF Returned, ss, tt

\* Nothing was returned before the first call.
LEMMA ReturnedNone ==
    ASSUME NEW T
    PROVE  Count(Returned(<< >>), T) = 0
<1> DEFINE ss == [c \in DOMAIN << >> |-> << >>[c].packets]
<1>1. ss = << >>
  OBVIOUS
<1>2. FlattenSeq(<< >>) = << >>
  BY DEF FlattenSeq
<1>3. Returned(<< >>) = FlattenSeq(ss)
  BY DEF Returned
<1> HIDE DEF ss
<1> QED
  BY <1>1, <1>2, <1>3, CountEmpty

\* No packet is pending in an empty dictionary.
LEMMA LoadNone ==
    ASSUME NEW T
    PROVE  IsPending(<< >>) /\ Load(<< >>, T) = 0
<1>1. DOMAIN << >> = {}
  OBVIOUS
<1>2. IsPending(<< >>)
  BY <1>1, FS_EmptySet DEF IsPending
<1>3. CountUpto(<< >>, 0, T) = Load(<< >>, T)
  BY <1>1, <1>2, LoadUpto
<1> QED
  BY <1>2, <1>3, UptoZero, CountEmpty DEF CountUpto

\* The greatest release step of a flush.
LEMMA LastReleaseType ==
    ASSUME NEW d, IsPending(d)
    PROVE  Max({0} \cup DOMAIN d) \in Nat
<1>1. IsFiniteSet(DOMAIN d) /\ DOMAIN d \subseteq Nat
  BY DEF IsPending
<1>2. IsFiniteSet({0} \cup DOMAIN d) /\ {0} \cup DOMAIN d \in SUBSET Nat
  <2>1. IsFiniteSet({0})
    BY FS_Singleton
  <2>2. IsFiniteSet({0} \cup DOMAIN d)
    BY <1>1, <2>1, FS_Union
  <2> QED
    BY <1>1, <2>2
<1>3. PICK m \in {0} \cup DOMAIN d : \A y \in {0} \cup DOMAIN d : y <= m
  BY <1>2, GreatestNumber
<1>4. \E x \in {0} \cup DOMAIN d : \A y \in {0} \cup DOMAIN d : x >= y
  BY <1>2, <1>3
<1>5. Max({0} \cup DOMAIN d) \in {0} \cup DOMAIN d
  BY <1>4 DEF Max
<1> QED
  BY <1>2, <1>5

\* A flush returns all that is pending.
LEMMA FlushTotal ==
    ASSUME NEW outs \in Seq(Output), NEW d, IsPending(d), NEW o \in Output, NEW T,
           o.packets = InReleaseOrder(d, Max({0} \cup DOMAIN d))
    PROVE  /\ Count(o.packets, T) = Load(d, T)
           /\ Total(Append(outs, o), << >>, T) = Total(outs, d, T)
<1>1. Bound(d) \in Nat \ {0} /\ Bound(d) = Max({0} \cup DOMAIN d) + 1
  BY BoundType DEF Bound
<1>2. Max({0} \cup DOMAIN d) \in Nat
  BY LastReleaseType
<1>3. o.packets = Upto(d, Bound(d))
  BY <1>1, <1>2, UptoIsInReleaseOrder
<1>4. Count(o.packets, T) = Load(d, T)
  BY <1>3 DEF Load, CountUpto
<1>5. Load(d, T) \in Nat /\ Load(<< >>, T) = 0
  BY <1>1, BoundType, LoadUpto, LoadNone
<1> QED
  BY <1>4, <1>5, ReturnedAppend DEF Total

\* Return o releases what was pending in d, all but still, and adds fresh; then e
\* is pending.
Releases(outs, d, still, fresh, e, o, T) ==
    /\ Load(still, T) \in Nat
    /\ Count(fresh, T) \in Nat
    /\ Load(e, T) \in Nat
    /\ Total(outs, d, T) \in Nat
    /\ Total(outs, d, T) >= Load(still, T)
    /\ Total(Append(outs, o), e, T) + Load(still, T)
       = Total(outs, d, T) + Count(fresh, T) + Load(e, T)

\* What a call of inject returns, and what stays pending.
LEMMA InjectTotal ==
    ASSUME NEW outs \in Seq(Output), NEW d, IsPending(d), NEW step \in Nat,
           NEW fresh \in Seq(Packet), NEW e, IsPending(e), NEW o \in Output, NEW T,
           o.packets = InReleaseOrder(d, step) \o fresh
    PROVE  Releases(outs, d, StillPending(d, step), fresh, e, o, T)
<1>1. o.packets = Upto(d, step + 1) \o fresh /\ Upto(d, step + 1) \in Seq(Packet)
  <2>1. step + 1 \in Nat
    OBVIOUS
  <2>2. InReleaseOrder(d, step) = Upto(d, step + 1)
    BY UptoIsInReleaseOrder
  <2>3. Upto(d, step + 1) \in Seq(Packet)
    BY <2>1, UptoType
  <2> QED
    BY <2>2, <2>3
<1>2. /\ Count(fresh, T) \in Nat
      /\ CountUpto(d, step + 1, T) \in Nat
      /\ Count(o.packets, T) = CountUpto(d, step + 1, T) + Count(fresh, T)
  <2> DEFINE due == Upto(d, step + 1)
  <2>1. due \in Seq(Packet) /\ o.packets = due \o fresh
    BY <1>1
  <2>2. CountUpto(d, step + 1, T) = Count(due, T)
    BY DEF CountUpto
  <2> HIDE DEF due
  <2>3. Count(due, T) \in Nat /\ Count(fresh, T) \in Nat
    BY <2>1, CountType
  <2>4. Count(due \o fresh, T) = Count(due, T) + Count(fresh, T)
    BY <2>1, CountConcat
  <2> QED
    BY <2>1, <2>2, <2>3, <2>4
<1>3. /\ Load(StillPending(d, step), T) \in Nat
      /\ Load(d, T) = CountUpto(d, step + 1, T) + Load(StillPending(d, step), T)
  BY StillPendingLoad
<1>4. Load(e, T) \in Nat
  BY BoundType, LoadUpto
<1>5. /\ Count(Returned(outs), T) \in Nat
      /\ Count(Returned(Append(outs, o)), T)
         = Count(Returned(outs), T) + Count(o.packets, T)
  BY ReturnedAppend
<1>6. /\ Total(outs, d, T) = Count(Returned(outs), T) + Load(d, T)
      /\ Total(Append(outs, o), e, T) = Count(Returned(Append(outs, o)), T) + Load(e, T)
  BY DEF Total
<1> DEFINE all == Append(outs, o)
           still == StillPending(d, step)
           due == CountUpto(d, step + 1, T)
<1>7. /\ Count(fresh, T) \in Nat /\ due \in Nat /\ Load(still, T) \in Nat
      /\ Load(d, T) = due + Load(still, T)
      /\ Count(Returned(all), T) = Count(Returned(outs), T) + due + Count(fresh, T)
      /\ Total(outs, d, T) = Count(Returned(outs), T) + Load(d, T)
      /\ Total(all, e, T) = Count(Returned(all), T) + Load(e, T)
  BY <1>2, <1>3, <1>5, <1>6
<1> HIDE DEF all, still, due
<1>8. /\ Total(outs, d, T) \in Nat /\ Total(outs, d, T) >= Load(still, T)
      /\ Total(all, e, T) + Load(still, T) = Total(outs, d, T) + Count(fresh, T) + Load(e, T)
  <2> DEFINE new == Count(fresh, T)
             held == Load(d, T)
             kept == Load(still, T)
             left == Load(e, T)
             before == Count(Returned(outs), T)
             after == Count(Returned(all), T)
  <2>1. /\ new \in Nat /\ due \in Nat /\ kept \in Nat /\ before \in Nat /\ left \in Nat
        /\ held = due + kept /\ after = before + due + new
        /\ Total(outs, d, T) = before + held /\ Total(all, e, T) = after + left
    BY <1>4, <1>5, <1>7
  <2> HIDE DEF new, held, kept, left, before, after
  <2>2. before + held \in Nat /\ before + held >= kept
        /\ (after + left) + kept = (before + held) + new + left
    BY <2>1
  <2> QED
    BY <2>1, <2>2 DEF new, kept, left
<1> QED
  BY <1>4, <1>7, <1>8 DEF Releases, all, still

----------------------------------------------------------------------------
(* The injector between two calls *)

IsInjector(j) ==
    /\ j \in [configs : {j.configs}, schedule : {j.schedule}, history : Seq(Packet),
              pending : {j.pending}, events : Seq(FaultEvent)]
    /\ IsConfigured(j)
    /\ IsHistory(j.history)
    /\ PendingOK(j.pending, Len(j.history))

\* Every delay was announced; no packet is lost, and one is returned twice only
\* if it was split.
Accounted(j, outs) ==
    /\ \A r \in Nat :
          Total(outs, j.pending, ReleasedAt(r)) = Count(j.events, AnnouncedFor(r))
    /\ NoneReplaces(j) =>
          \A c \in 1..Len(j.history) : Total(outs, j.pending, CallOf(c)) >= 1
    /\ NoneReplaces(j) /\ NoneSplits(j) =>
          \A c \in Nat : Total(outs, j.pending, CallOf(c))
                         = IF c \in 1..Len(j.history) THEN 1 ELSE 0

\* The injector that a call of inject leaves.
LEMMA AfterInjectFields ==
    ASSUME NEW j, IsInjector(j), NEW p \in Packet, NEW step
    PROVE  LET k == AfterInject(j, p, step)
               last == LastStage(j, p, step)
           IN  /\ k.configs = j.configs /\ k.schedule = j.schedule
               /\ k.history = Append(j.history, p) /\ Len(j.history) \in Nat
               /\ k.history \in Seq(Packet) /\ Len(k.history) = Len(j.history) + 1
               /\ k.pending = last.pending /\ k.events = last.events
               /\ last.events \in Seq(FaultEvent) =>
                     k \in [configs : {k.configs}, schedule : {k.schedule},
                            history : Seq(Packet), pending : {k.pending},
                            events : Seq(FaultEvent)]
<1> DEFINE k == AfterInject(j, p, step)
           last == LastStage(j, p, step)
           pending == last.pending
           events == last.events
           new == [j EXCEPT !.pending = pending, !.events = events,
                            !.history = Append(@, p)]
<1>1. j \in [configs : {j.configs}, schedule : {j.schedule}, history : Seq(Packet),
             pending : {j.pending}, events : Seq(FaultEvent)]
  BY DEF IsInjector
<1>2. k = new
  BY DEF AfterInject
<1> HIDE DEF pending, events
<1>3. /\ new.configs = j.configs /\ new.schedule = j.schedule
      /\ new.history = Append(j.history, p)
      /\ new.pending = pending /\ new.events = events
      /\ DOMAIN new = {"configs", "schedule", "history", "pending", "events"}
  BY <1>1
<1>4. j.history \in Seq(Packet)
  BY <1>1
<1>5. /\ Len(j.history) \in Nat /\ Append(j.history, p) \in Seq(Packet)
      /\ Len(Append(j.history, p)) = Len(j.history) + 1
  BY <1>4
<1>6. events \in Seq(FaultEvent) =>
         new \in [configs : {new.configs}, schedule : {new.schedule},
                  history : Seq(Packet), pending : {new.pending},
                  events : Seq(FaultEvent)]
  BY <1>1, <1>3, <1>5
<1> HIDE DEF new, k
<1> QED
  BY <1>2, <1>3, <1>5, <1>6 DEF k, pending, events

\* A call of inject keeps the counts.
LEMMA InjectAccounted ==
    ASSUME NEW j, IsInjector(j), NEW outs \in Seq(Output), Accounted(j, outs),
           NEW n, n = Len(j.history) + 1, NEW p \in Fresh(n), p.provenance.call = n,
           NEW step \in Steps, NEW o \in Output, o.packets = Injected(j, p, step)
    PROVE  Accounted(AfterInject(j, p, step), Append(outs, o))
<1> DEFINE k == AfterInject(j, p, step)
           first == FirstStage(j, p, step)
           last == LastStage(j, p, step)
           all == Append(outs, o)
<1>1. /\ n \in Nat /\ n - 1 = Len(j.history) /\ step \in Nat /\ p \in Packet
      /\ j.events \in Seq(FaultEvent)
  BY InjectorAssumption DEF IsInjector, Fresh
<1>2. /\ IsConfigured(j) /\ IsHistory(j.history) /\ PendingOK(j.pending, n - 1)
      /\ IsPending(j.pending)
  BY <1>1 DEF IsInjector, PendingOK
<1>3. Kept(j, first, last, n, step)
  BY <1>1, <1>2, LastStageKept
<1>4. /\ first.packets = <<p>>
      /\ first.pending = StillPending(j.pending, step)
      /\ first.events = j.events
  BY <1>1, <1>2, FirstStageOK
<1>5. last.packets \in Seq(Packet) /\ IsPending(last.pending)
  BY <1>3, StageCounts DEF Kept
<1>6. /\ k.configs = j.configs
      /\ Len(k.history) = n /\ k.pending = last.pending /\ k.events = last.events
  BY <1>1, AfterInjectFields
<1>7. o.packets = InReleaseOrder(j.pending, step) \o last.packets
  BY DEF Injected
<1> HIDE DEF k, first, last, all
<1>8. ASSUME NEW T
      PROVE  /\ Load(first.pending, T) \in Nat
             /\ Count(last.packets, T) \in Nat
             /\ Load(last.pending, T) \in Nat
             /\ Total(outs, j.pending, T) \in Nat
             /\ Total(outs, j.pending, T) >= Load(first.pending, T)
             /\ Total(all, k.pending, T) + Load(first.pending, T)
                = Total(outs, j.pending, T) + Count(last.packets, T)
                  + Load(last.pending, T)
  <2> DEFINE d == j.pending
             fresh == last.packets
             e == last.pending
  <2>1. /\ IsPending(d) /\ fresh \in Seq(Packet) /\ IsPending(e)
        /\ o.packets = InReleaseOrder(d, step) \o fresh
    BY <1>2, <1>5, <1>7
  <2>2. first.pending = StillPending(d, step) /\ k.pending = e
    BY <1>4, <1>6
  <2> HIDE DEF d, fresh, e
  <2>3. Releases(outs, d, StillPending(d, step), fresh, e, o, T)
    BY <1>1, <2>1, InjectTotal
  <2> QED
    BY <2>2, <2>3 DEF d, fresh, e, all, Releases
<1>9. ASSUME NEW T
      PROVE  Total(all, k.pending, T) \in Nat
  <2>1. all \in Seq(Output) /\ IsPending(k.pending)
    BY <1>5, <1>6 DEF all
  <2>2. Count(Returned(all), T) \in Nat
    BY <2>1, ReturnedAppend
  <2>3. Load(k.pending, T) \in Nat
    BY <2>1, BoundType, LoadUpto
  <2> QED
    BY <2>2, <2>3 DEF Total
<1>10. ASSUME NEW r \in Nat
       PROVE  Total(all, k.pending, ReleasedAt(r)) = Count(k.events, AnnouncedFor(r))
  <2> DEFINE T == ReleasedAt(r)
  <2>1. Total(outs, j.pending, T) = Count(j.events, AnnouncedFor(r))
    BY DEF Accounted
  <2>2. Load(last.pending, T) + Count(j.events, AnnouncedFor(r))
        = Load(first.pending, T) + Count(last.events, AnnouncedFor(r))
    BY <1>3, <1>4 DEF Kept
  <2>3. Count(last.packets, T) = 0
    <3>1. last.packets \in Seq(Fresh(n))
      BY <1>3 DEF Kept, StageOK
    <3>2. \A q \in Fresh(n) : q \notin T
      BY NoneAssumption DEF Fresh, ReleasedAt
    <3>3. {x \in DOMAIN last.packets : last.packets[x] \in T} = {}
      BY <3>1, <3>2
    <3> QED
      BY <3>3, FS_EmptySet DEF Count
  <2>4. Count(last.events, AnnouncedFor(r)) \in Nat
    BY <1>3, CountType DEF Kept, StageOK
  <2> HIDE DEF T
  <2>5. /\ Load(first.pending, T) \in Nat /\ Load(last.pending, T) \in Nat
        /\ Total(outs, j.pending, T) \in Nat /\ Total(all, k.pending, T) \in Nat
        /\ Total(all, k.pending, T) + Load(first.pending, T)
           = Total(outs, j.pending, T) + Count(last.packets, T) + Load(last.pending, T)
    BY <1>8, <1>9
  <2>6. Total(all, k.pending, T) = Count(last.events, AnnouncedFor(r))
    BY <2>1, <2>2, <2>3, <2>4, <2>5
  <2> QED
    BY <1>6, <2>6 DEF T
<1>11. ASSUME NEW c \in Nat
       PROVE  /\ Count(first.packets, CallOf(c)) = IF c = n THEN 1 ELSE 0
              /\ Load(last.pending, CallOf(c)) >= Load(first.pending, CallOf(c))
              /\ NoneReplaces(j) /\ Held(first, c) >= 1 => Held(last, c) >= 1
              /\ NoneReplaces(j) /\ NoneSplits(j) => Held(last, c) = Held(first, c)
  <2>1. c = n => p \in CallOf(c)
    BY <1>1 DEF CallOf
  <2>2. c # n => p \notin CallOf(c)
    BY DEF CallOf
  <2>3. Count(<<p>>, CallOf(c)) = IF c = n THEN 1 ELSE 0
    BY <2>1, <2>2, CountSingle
  <2> QED
    BY <1>3, <1>4, <2>3 DEF Kept
<1>12. ASSUME NoneReplaces(j), NEW c \in 1..n
       PROVE  Total(all, k.pending, CallOf(c)) >= 1
  <2>1. c # n => Total(outs, j.pending, CallOf(c)) >= 1
    BY <1>1, <1>12 DEF Accounted
  <2>2. c \in Nat
    BY <1>1
  <2> DEFINE T == CallOf(c)
  <2>5. /\ Load(first.pending, T) \in Nat
        /\ Count(last.packets, T) \in Nat
        /\ Load(last.pending, T) \in Nat
        /\ Total(outs, j.pending, T) \in Nat
        /\ Total(outs, j.pending, T) >= Load(first.pending, T)
        /\ Total(all, k.pending, T) + Load(first.pending, T)
           = Total(outs, j.pending, T) + Count(last.packets, T) + Load(last.pending, T)
        /\ Total(all, k.pending, T) \in Nat
    BY <1>8, <1>9
  <2>6. Load(last.pending, T) >= Load(first.pending, T)
    BY <1>11, <2>2
  <2>7. /\ Held(first, c) = Count(first.packets, T) + Load(first.pending, T)
        /\ Held(last, c) = Count(last.packets, T) + Load(last.pending, T)
    BY DEF Held
  <2>8. Count(first.packets, T) = IF c = n THEN 1 ELSE 0
    BY <1>11, <2>2
  <2>9. Held(first, c) >= 1 => Held(last, c) >= 1
    BY <1>11, <1>12, <2>2
  <2> HIDE DEF T
  <2>3. CASE c = n
    <3>1. Held(first, c) >= 1
      BY <2>3, <2>5, <2>7, <2>8
    <3>2. Held(last, c) >= 1
      BY <2>9, <3>1
    <3> QED
      BY <2>5, <2>7, <3>2 DEF T
  <2>4. CASE c # n
    <3>1. Total(outs, j.pending, T) >= 1
      BY <2>1, <2>4 DEF T
    <3> QED
      BY <2>5, <2>6, <3>1 DEF T
  <2> QED
    BY <2>3, <2>4
<1>13. ASSUME NoneReplaces(j), NoneSplits(j), NEW c \in Nat
       PROVE  Total(all, k.pending, CallOf(c)) = IF c \in 1..n THEN 1 ELSE 0
  <2>1. Total(outs, j.pending, CallOf(c)) = IF c \in 1..(n - 1) THEN 1 ELSE 0
    BY <1>1, <1>13 DEF Accounted
  <2>2. Count(last.packets, CallOf(c)) + Load(last.pending, CallOf(c))
        = (IF c = n THEN 1 ELSE 0) + Load(first.pending, CallOf(c))
    BY <1>11, <1>13 DEF Held
  <2>3. Total(all, k.pending, CallOf(c))
        = Total(outs, j.pending, CallOf(c)) + (IF c = n THEN 1 ELSE 0)
    BY <1>8, <1>9, <2>2
  <2> QED
    BY <1>1, <2>1, <2>3
<1>14. (NoneReplaces(k) <=> NoneReplaces(j)) /\ (NoneSplits(k) <=> NoneSplits(j))
  BY <1>6 DEF NoneReplaces, NoneSplits
<1>15. Accounted(k, all)
  BY <1>6, <1>10, <1>12, <1>13, <1>14 DEF Accounted
<1> QED
  BY <1>15 DEF k, all

----------------------------------------------------------------------------
(* The returns *)

\* The calls of inject among the first c returns.
CallsTo(outs, c) == Cardinality({b \in 1..c : outs[b].call = "inject"})

ReturnsOK(outs, j) ==
    /\ CallsTo(outs, Len(outs)) = Len(j.history)
    /\ \A c \in DOMAIN outs : OutputOK(outs[c], CallsTo(outs, c))
    /\ outs # << >> /\ Last(outs).call = "inject" =>
          \A r \in DOMAIN j.pending : r > Last(outs).step

\* One more call is counted if it is an injection.
LEMMA CallsToAppend ==
    ASSUME NEW outs \in Seq(Output), NEW o \in Output
    PROVE  /\ \A c \in 0..Len(outs) : CallsTo(Append(outs, o), c) = CallsTo(outs, c)
           /\ CallsTo(outs, Len(outs)) \in Nat
           /\ CallsTo(Append(outs, o), Len(outs) + 1)
              = CallsTo(outs, Len(outs)) + (IF o.call = "inject" THEN 1 ELSE 0)
<1> DEFINE all == Append(outs, o)
           m == Len(outs)
           A == {b \in 1..m : outs[b].call = "inject"}
           B == {b \in 1..(m + 1) : all[b].call = "inject"}
<1>1. /\ m \in Nat /\ all[m + 1] = o
      /\ \A b \in 1..m : all[b] = outs[b]
  OBVIOUS
<1> HIDE DEF all, m
<1>2. ASSUME NEW c \in 0..m
      PROVE  CallsTo(all, c) = CallsTo(outs, c)
  <2>1. 1..c \subseteq 1..m
    BY <1>1
  <2>2. {b \in 1..c : all[b].call = "inject"} = {b \in 1..c : outs[b].call = "inject"}
    BY <1>1, <2>1
  <2> QED
    BY <2>2 DEF CallsTo
<1>3. IsFiniteSet(A) /\ Cardinality(A) \in Nat
  <2>1. IsFiniteSet(1..m)
    BY <1>1, FS_Interval
  <2>2. A \subseteq 1..m
    OBVIOUS
  <2> HIDE DEF A
  <2>3. IsFiniteSet(A)
    BY <2>1, <2>2, FS_Subset
  <2> QED
    BY <2>3, FS_CardinalityType
<1>4. Cardinality(B) = Cardinality(A) + (IF o.call = "inject" THEN 1 ELSE 0)
  <2>1. 1..(m + 1) = 1..m \cup {m + 1} /\ m + 1 \notin 1..m
    BY <1>1
  <2>2. CASE o.call = "inject"
    <3>1. B = A \cup {m + 1} /\ m + 1 \notin A
      BY <1>1, <2>1, <2>2
    <3> HIDE DEF A, B
    <3>2. Cardinality(A \cup {m + 1}) = Cardinality(A) + 1
      BY <1>3, <3>1, FS_AddElement
    <3> QED
      BY <2>2, <3>1, <3>2
  <2>3. CASE o.call # "inject"
    <3>1. B = A
      BY <1>1, <2>1, <2>3
    <3> HIDE DEF A, B
    <3> QED
      BY <1>3, <2>3, <3>1
  <2> QED
    BY <2>2, <2>3
<1> QED
  BY <1>2, <1>3, <1>4 DEF CallsTo, all, m

\* A return that is right for its call keeps the returns right.
LEMMA ReturnsAppend ==
    ASSUME NEW j, NEW k, NEW outs \in Seq(Output), ReturnsOK(outs, j), NEW o \in Output,
           Len(j.history) \in Nat,
           Len(k.history) = Len(j.history) + (IF o.call = "inject" THEN 1 ELSE 0),
           OutputOK(o, Len(k.history)),
           o.call = "inject" => \A r \in DOMAIN k.pending : r > o.step
    PROVE  ReturnsOK(Append(outs, o), k)
<1> DEFINE all == Append(outs, o)
<1>1. /\ Len(outs) \in Nat /\ Len(all) = Len(outs) + 1
      /\ DOMAIN outs = 1..Len(outs) /\ DOMAIN all = 1..(Len(outs) + 1)
      /\ all[Len(outs) + 1] = o /\ \A c \in 1..Len(outs) : all[c] = outs[c]
  OBVIOUS
<1>2. Last(all) = o
  BY <1>1 DEF Last
<1>3. /\ \A c \in 0..Len(outs) : CallsTo(all, c) = CallsTo(outs, c)
      /\ CallsTo(all, Len(outs) + 1) = Len(k.history)
  BY CallsToAppend DEF ReturnsOK
<1> HIDE DEF all
<1>4. ASSUME NEW c \in DOMAIN all
      PROVE  OutputOK(all[c], CallsTo(all, c))
  <2>1. CASE c = Len(outs) + 1
    BY <1>1, <1>3, <2>1
  <2>2. CASE c \in 1..Len(outs)
    <3>1. c \in 0..Len(outs) /\ OutputOK(outs[c], CallsTo(outs, c))
      BY <1>1, <2>2 DEF ReturnsOK
    <3> QED
      BY <1>1, <1>3, <2>2, <3>1
  <2> QED
    BY <1>1, <2>1, <2>2
<1>5. ReturnsOK(all, k)
  BY <1>1, <1>2, <1>3, <1>4 DEF ReturnsOK
<1> QED
  BY <1>5 DEF all

----------------------------------------------------------------------------
(* The invariant *)

IInv ==
    /\ IsInjector(injector)
    /\ outputs \in Seq(Output)
    /\ ReturnsOK(outputs, injector)
    /\ Accounted(injector, outputs)

\* A new injector has lost nothing and owes nothing.
LEMMA InitIInv == Init => IInv
<1> SUFFICES ASSUME Init
             PROVE  IInv
  OBVIOUS
<1>0. PICK configs \in Configurations :
         \E schedule \in Schedules(configs) : injector = NewInjector(configs, schedule)
  BY DEF Init
<1>1. PICK schedule \in Schedules(configs) : injector = NewInjector(configs, schedule)
  BY <1>0
<1>2. outputs = << >>
  BY DEF Init
<1>3. /\ injector.configs = configs /\ injector.schedule = schedule
      /\ injector.history = << >> /\ injector.pending = << >> /\ injector.events = << >>
      /\ injector \in [configs : {configs}, schedule : {schedule}, history : Seq(Packet),
                       pending : {<< >>}, events : Seq(FaultEvent)]
  BY <1>1 DEF NewInjector
<1>4. IsConfigured(injector)
  <2>1. configs \in Seq(FaultConfig)
    BY InjectorAssumption
  <2>2. \A i \in DOMAIN configs : \A s \in Steps : schedule[i][s] \in BOOLEAN
    BY DEF Schedules
  <2> QED
    BY <1>3, <2>1, <2>2 DEF IsConfigured, Decision
<1>5. IsHistory(injector.history)
  BY <1>3 DEF IsHistory
<1>6. PendingOK(injector.pending, Len(injector.history))
  <2>1. DOMAIN << >> = {} /\ IsPending(<< >>)
    BY LoadNone
  <2> QED
    BY <1>3, <2>1 DEF PendingOK
<1>7. IsInjector(injector)
  BY <1>3, <1>4, <1>5, <1>6 DEF IsInjector
<1>8. ReturnsOK(outputs, injector)
  <2>1. 1..0 = {} /\ Len(<< >>) = 0 /\ DOMAIN << >> = {}
    OBVIOUS
  <2>2. {b \in 1..0 : outputs[b].call = "inject"} = {}
    BY <2>1
  <2>3. CallsTo(outputs, 0) = 0
    BY <2>2, FS_EmptySet DEF CallsTo
  <2> QED
    BY <1>2, <1>3, <2>1, <2>3 DEF ReturnsOK
<1>9. Accounted(injector, outputs)
  <2>1. \A T : Total(outputs, injector.pending, T) = 0
    BY <1>2, <1>3, ReturnedNone, LoadNone DEF Total
  <2>2. \A T : Count(injector.events, T) = 0
    BY <1>3, CountEmpty
  <2>3. 1..Len(injector.history) = {}
    BY <1>3
  <2> QED
    BY <2>1, <2>2, <2>3 DEF Accounted
<1>10. outputs \in Seq(Output)
  BY <1>2
<1> QED
  BY <1>7, <1>8, <1>9, <1>10 DEF IInv

\* inject keeps the invariant.
LEMMA InjectIInv ==
    ASSUME IInv, NEW status \in OriginalStatus, NEW step \in Steps, Inject(status, step)
    PROVE  IInv'
<1> DEFINE j == injector
           outs == outputs
           n == Len(j.history) + 1
           p == Original(n, status)
           k == AfterInject(j, p, step)
           last == LastStage(j, p, step)
           o == [call |-> "inject", step |-> step, packets |-> Injected(j, p, step)]
<1>1. injector' = k /\ outputs' = Append(outs, o)
  BY DEF Inject
<1>2. /\ IsInjector(j) /\ outs \in Seq(Output) /\ ReturnsOK(outs, j)
      /\ Accounted(j, outs)
  BY DEF IInv
<1> HIDE DEF j, outs
<1>3. /\ j.history \in Seq(Packet) /\ j.events \in Seq(FaultEvent)
      /\ IsConfigured(j) /\ IsHistory(j.history) /\ PendingOK(j.pending, Len(j.history))
  BY <1>2 DEF IsInjector
<1>4. /\ n \in Nat /\ n - 1 = Len(j.history) /\ Len(j.history) \in Nat
      /\ status \in Status /\ step \in Nat
  BY <1>3, InjectorAssumption
<1>5. p \in Fresh(n) /\ p \in Packet /\ p.provenance.call = n
  <2> HIDE DEF n, p
  <2>1. Original(n, status) \in Fresh(n)
    BY <1>4, OriginalFresh
  <2>2. Original(n, status).provenance.call = n
    BY DEF Original
  <2> QED
    BY <2>1, <2>2 DEF p, Fresh
<1> HIDE DEF p
<1>6. Kept(j, FirstStage(j, p, step), last, n, step)
  BY <1>3, <1>4, <1>5, LastStageKept
<1> HIDE DEF last
<1>7. /\ last.packets \in Seq(Fresh(n)) /\ PendingOK(last.pending, n)
      /\ \A r \in DOMAIN last.pending : r > step
      /\ last.events \in Seq(FaultEvent)
  BY <1>6 DEF Kept, StageOK
<1>8. /\ k.configs = j.configs /\ k.schedule = j.schedule
      /\ k.history = Append(j.history, p) /\ k.history \in Seq(Packet) /\ Len(k.history) = n
      /\ k.pending = last.pending /\ k.events = last.events
      /\ k \in [configs : {k.configs}, schedule : {k.schedule}, history : Seq(Packet),
                pending : {k.pending}, events : Seq(FaultEvent)]
  BY <1>2, <1>5, <1>7, AfterInjectFields DEF last
<1> HIDE DEF k, o, n
<1>9. IsHistory(k.history)
  <2>1. \A i \in DOMAIN j.history : \E s \in Status : j.history[i] = Original(i, s)
    BY <1>3 DEF IsHistory
  <2>2. k.history[n] = p /\ DOMAIN k.history = 1..n
        /\ DOMAIN j.history = 1..(n - 1)
        /\ \A i \in 1..(n - 1) : k.history[i] = j.history[i]
    BY <1>3, <1>4, <1>8 DEF n
  <2>3. ASSUME NEW i \in DOMAIN k.history
        PROVE  \E s \in Status : k.history[i] = Original(i, s)
    <3>1. CASE i = n
      BY <1>4, <2>2, <3>1 DEF p
    <3>2. CASE i # n
      <4>1. i \in 1..(n - 1)
        BY <1>4, <2>2, <3>2
      <4> QED
        BY <2>1, <2>2, <4>1
    <3> QED
      BY <3>1, <3>2
  <2> QED
    BY <1>8, <2>3 DEF IsHistory
<1>10. IsInjector(k)
  BY <1>3, <1>7, <1>8, <1>9 DEF IsInjector, IsConfigured, Decision
<1>11. /\ o \in Output /\ OutputOK(o, n) /\ o.call = "inject" /\ o.step = step
       /\ o.packets = Injected(j, p, step)
  <2>1. o = [call |-> "inject", step |-> step,
             packets |-> InReleaseOrder(j.pending, step) \o last.packets]
    BY DEF o, Injected, last
  <2>2. PendingOK(j.pending, n - 1)
    BY <1>3, <1>4
  <2>3. o \in Output /\ OutputOK(o, n)
    BY <1>4, <1>7, <2>1, <2>2, InjectOutputOK
  <2> QED
    BY <2>3 DEF o
<1>12. ReturnsOK(Append(outs, o), k)
  <2>1. Len(k.history) = Len(j.history) + (IF o.call = "inject" THEN 1 ELSE 0)
    BY <1>8, <1>11 DEF n
  <2>2. OutputOK(o, Len(k.history))
    BY <1>8, <1>11
  <2>3. o.call = "inject" => \A r \in DOMAIN k.pending : r > o.step
    BY <1>7, <1>8, <1>11
  <2> QED
    BY <1>2, <1>4, <1>11, <2>1, <2>2, <2>3, ReturnsAppend
<1>13. Accounted(k, Append(outs, o))
  BY <1>2, <1>5, <1>11, InjectAccounted DEF k, n
<1>14. Append(outs, o) \in Seq(Output)
  BY <1>2, <1>11
<1> QED
  BY <1>1, <1>10, <1>12, <1>13, <1>14 DEF IInv

\* flush keeps it: it returns all that is pending.
LEMMA FlushIInv ==
    ASSUME IInv, Flush
    PROVE  IInv'
<1> DEFINE j == injector
           outs == outputs
           k == AfterFlush(j)
           o == [call |-> "flush", step |-> None, packets |-> Flushed(j)]
<1>1. injector' = k /\ outputs' = Append(outs, o)
  BY DEF Flush
<1>2. /\ IsInjector(j) /\ outs \in Seq(Output) /\ ReturnsOK(outs, j)
      /\ Accounted(j, outs)
  BY DEF IInv
<1> HIDE DEF j, outs
<1>3. /\ j \in [configs : {j.configs}, schedule : {j.schedule}, history : Seq(Packet),
                pending : {j.pending}, events : Seq(FaultEvent)]
      /\ IsConfigured(j) /\ IsHistory(j.history) /\ PendingOK(j.pending, Len(j.history))
  BY <1>2 DEF IsInjector
<1>4. /\ k.configs = j.configs /\ k.schedule = j.schedule /\ k.history = j.history
      /\ k.pending = << >> /\ k.events = j.events
      /\ k \in [configs : {k.configs}, schedule : {k.schedule}, history : Seq(Packet),
                pending : {k.pending}, events : Seq(FaultEvent)]
  BY <1>3 DEF AfterFlush
<1> HIDE DEF k, o
<1>5. IsPending(j.pending) /\ Len(j.history) \in Nat
  BY <1>3 DEF PendingOK
<1>6. PendingOK(k.pending, Len(k.history)) /\ DOMAIN k.pending = {}
  <2>1. DOMAIN << >> = {} /\ IsPending(<< >>)
    BY LoadNone
  <2> QED
    BY <1>4, <2>1 DEF PendingOK
<1>7. IsInjector(k)
  BY <1>3, <1>4, <1>6 DEF IsInjector, IsConfigured, Decision
<1>8. /\ o \in Output /\ OutputOK(o, Len(j.history)) /\ o.call = "flush"
      /\ o.packets = InReleaseOrder(j.pending, Max({0} \cup DOMAIN j.pending))
  <2>1. o = [call |-> "flush", step |-> None,
             packets |-> InReleaseOrder(j.pending, Max({0} \cup DOMAIN j.pending))]
    BY DEF o, Flushed
  <2>2. Max({0} \cup DOMAIN j.pending) \in Nat
    BY <1>5, LastReleaseType
  <2>3. o \in Output /\ OutputOK(o, Len(j.history))
    BY <1>3, <1>5, <2>1, <2>2, FlushOutputOK
  <2> QED
    BY <2>1, <2>3
<1>9. ReturnsOK(Append(outs, o), k)
  <2>1. Len(k.history) = Len(j.history) + (IF o.call = "inject" THEN 1 ELSE 0)
    BY <1>4, <1>5, <1>8
  <2>2. OutputOK(o, Len(k.history))
    BY <1>4, <1>8
  <2>3. o.call = "inject" => \A r \in DOMAIN k.pending : r > o.step
    BY <1>8
  <2> QED
    BY <1>2, <1>5, <1>8, <2>1, <2>2, <2>3, ReturnsAppend
<1>10. Accounted(k, Append(outs, o))
  <2>1. \A T : Total(Append(outs, o), k.pending, T) = Total(outs, j.pending, T)
    BY <1>2, <1>4, <1>5, <1>8, FlushTotal
  <2>2. /\ NoneReplaces(k) <=> NoneReplaces(j)
        /\ NoneSplits(k) <=> NoneSplits(j)
    BY <1>4 DEF NoneReplaces, NoneSplits
  <2> QED
    BY <1>2, <1>4, <2>1, <2>2 DEF Accounted
<1>11. Append(outs, o) \in Seq(Output)
  BY <1>2, <1>8
<1> QED
  BY <1>1, <1>7, <1>9, <1>10, <1>11 DEF IInv

\* Every step keeps it.
LEMMA NextIInv == IInv /\ [Next]_vars => IInv'
<1> SUFFICES ASSUME IInv, [Next]_vars
             PROVE  IInv'
  OBVIOUS
<1>1. ASSUME NEW status \in OriginalStatus, NEW step \in Steps, Inject(status, step)
      PROVE  IInv'
  BY <1>1, InjectIInv
<1>2. CASE Flush
  BY <1>2, FlushIInv
<1>3. CASE UNCHANGED vars
  <2>1. injector' = injector /\ outputs' = outputs
    BY <1>3 DEF vars
  <2> QED
    BY <2>1 DEF IInv
<1> QED
  BY <1>1, <1>2, <1>3 DEF Next

\* The invariant on which every property of the injector rests.
THEOREM Invariant == Spec => []IInv
BY InitIInv, NextIInv, PTL DEF Spec

----------------------------------------------------------------------------
(* The properties *)

\* Every corruption stays auditable: only a packet in its own call, as the caller
\* passed it, is returned without a label.
THEOREM Originals == Spec => []UnlabelledIsOriginal
<1>1. ASSUME IInv
      PROVE  UnlabelledIsOriginal
  <2>1. \A c \in DOMAIN outputs : IsUnlabelledOriginal(outputs[c], CallsTo(outputs, c))
    BY <1>1 DEF IInv, ReturnsOK, OutputOK
  <2> QED
    BY <2>1 DEF UnlabelledIsOriginal, IsUnlabelledOriginal, CallNumber, CallsTo, Labels
<1> QED
  BY <1>1, Invariant, PTL

\* What is replayed from the history is what was passed, never what a fault made
\* of it.
THEOREM Replays == Spec => []StaleIsAuthentic
<1>1. ASSUME IInv
      PROVE  StaleIsAuthentic
  <2>1. \A c \in DOMAIN outputs : IsStaleAuthentic(outputs[c], CallsTo(outputs, c))
    BY <1>1 DEF IInv, ReturnsOK, OutputOK
  <2> QED
    BY <2>1 DEF StaleIsAuthentic, IsStaleAuthentic, CallNumber, CallsTo, Labels, ReleaseStep
<1> QED
  BY <1>1, Invariant, PTL

\* Delayed packets are released on the first call that reaches their step, in the
\* order of their steps and before the packet of that call.
THEOREM Releasing == Spec => []ReleasedOnTime
<1>1. ASSUME IInv
      PROVE  ReleasedOnTime
  <2>1. \A c \in DOMAIN outputs : IsReleasedInOrder(outputs[c])
    BY <1>1 DEF IInv, ReturnsOK, OutputOK
  <2>2. outputs # << >> /\ Last(outputs).call = "inject" =>
           \A r \in DOMAIN injector.pending : r > Last(outputs).step
    BY <1>1 DEF IInv, ReturnsOK
  <2> QED
    BY <2>1, <2>2 DEF ReleasedOnTime, IsReleasedInOrder, ReleaseStep
<1> QED
  BY <1>1, Invariant, PTL

\* What was returned are packets.
LEMMA ReturnedType ==
    ASSUME NEW outs \in Seq(Output)
    PROVE  Returned(outs) \in Seq(Packet)
<1> DEFINE ss == [c \in DOMAIN outs |-> outs[c].packets]
<1>1. ss \in Seq(Seq(Packet))
  <2>1. \A x \in Output : x.packets \in Seq(Packet)
    BY DEF Output
  <2>2. \A c \in DOMAIN outs : outs[c] \in Output
    OBVIOUS
  <2>3. \A c \in DOMAIN outs : outs[c].packets \in Seq(Packet)
    BY <2>1, <2>2
  <2> QED
    BY <2>3
<1> HIDE DEF ss
<1> QED
  BY <1>1, FlattenType DEF Returned, ss

\* The packets in the dictionary are those that are counted.
LEMMA WaitingLoad ==
    ASSUME IInv
    PROVE  /\ Waiting \in Seq(Packet)
           /\ Returned(outputs) \in Seq(Packet)
           /\ \A T : Total(outputs, injector.pending, T)
                     = Count(Returned(outputs), T) + Count(Waiting, T)
<1> DEFINE d == injector.pending
<1>1. IsPending(d) /\ outputs \in Seq(Output)
  BY DEF IInv, IsInjector, PendingOK
<1>2. Waiting = InReleaseOrder(d, Max({0} \cup DOMAIN d))
  BY DEF Waiting, Flushed
<1> HIDE DEF d
<1>3. Waiting = Upto(d, Bound(d)) /\ Bound(d) \in Nat
  <2>1. Max({0} \cup DOMAIN d) \in Nat
    BY <1>1, LastReleaseType
  <2> QED
    BY <1>2, <2>1, UptoIsInReleaseOrder DEF Bound
<1>4. Waiting \in Seq(Packet)
  BY <1>1, <1>3, UptoType
<1>5. Returned(outputs) \in Seq(Packet)
  BY <1>1, ReturnedType
<1>6. \A T : Total(outputs, d, T) = Count(Returned(outputs), T) + Count(Waiting, T)
  BY <1>3 DEF Total, Load, CountUpto
<1> QED
  BY <1>4, <1>5, <1>6 DEF d

\* The counts of the proofs are the cardinalities of the properties.
LEMMA CountMeanings ==
    ASSUME NEW s \in Seq(Packet), NEW r
    PROVE  /\ Count(s, ReleasedAt(r))
              = Cardinality({k \in DOMAIN s : s[k].reliability.release_step = r})
           /\ Count(s, CallOf(r))
              = Cardinality({k \in DOMAIN s : s[k].provenance.call = r})
<1>1. \A k \in DOMAIN s : s[k] \in Packet
  OBVIOUS
<1>2. {k \in DOMAIN s : s[k] \in ReleasedAt(r)}
      = {k \in DOMAIN s : s[k].reliability.release_step = r}
  BY <1>1 DEF ReleasedAt, ReleaseStep
<1>3. {k \in DOMAIN s : s[k] \in CallOf(r)} = {k \in DOMAIN s : s[k].provenance.call = r}
  BY <1>1 DEF CallOf
<1> QED
  BY <1>2, <1>3 DEF Count

\* The audit log announces exactly the packets that are put aside.
THEOREM Auditing == Spec => []DelaysAreAudited
<1>1. ASSUME IInv
      PROVE  DelaysAreAudited
  <2> DEFINE events == injector.events
             Announced(r) == {e \in DOMAIN events : events[e].release_step = r}
             Of(packets, r) ==
                 {k \in DOMAIN packets : packets[k].reliability.release_step = r}
  <2>1. events \in Seq(FaultEvent)
    BY <1>1 DEF IInv, IsInjector
  <2>2. ASSUME NEW r \in Nat
        PROVE  Cardinality(Announced(r))
               = Cardinality(Of(Returned(outputs), r)) + Cardinality(Of(Waiting, r))
    <3>1. Count(events, AnnouncedFor(r))
          = Count(Returned(outputs), ReleasedAt(r)) + Count(Waiting, ReleasedAt(r))
      BY <1>1, WaitingLoad DEF IInv, Accounted
    <3>2. \A e \in DOMAIN events : events[e] \in FaultEvent
      BY <2>1
    <3>3. Announced(r) = {e \in DOMAIN events : events[e] \in AnnouncedFor(r)}
      BY <3>2 DEF AnnouncedFor
    <3>4. Count(events, AnnouncedFor(r)) = Cardinality(Announced(r))
      BY <3>3 DEF Count
    <3>5. /\ Count(Returned(outputs), ReleasedAt(r))
             = Cardinality(Of(Returned(outputs), r))
          /\ Count(Waiting, ReleasedAt(r)) = Cardinality(Of(Waiting, r))
      BY <1>1, WaitingLoad, CountMeanings
    <3> QED
      BY <3>1, <3>4, <3>5
  <2>3. {events[e].release_step : e \in DOMAIN events} \ {None} \subseteq Nat
    <3>1. \A x \in FaultEvent : x.release_step \in Nat \cup {None}
      BY DEF FaultEvent
    <3>2. \A e \in DOMAIN events : events[e] \in FaultEvent
      BY <2>1
    <3> QED
      BY <3>1, <3>2
  <2>4. \A r \in {events[e].release_step : e \in DOMAIN events} \ {None} :
           Cardinality(Announced(r))
           = Cardinality(Of(Returned(outputs), r)) + Cardinality(Of(Waiting, r))
    BY <2>2, <2>3
  <2> QED
    BY <2>4 DEF DelaysAreAudited, Returned
<1> QED
  BY <1>1, Invariant, PTL

\* Faults delay packets and corrupt them but, unless they replace them, lose none;
\* and, unless they split them, return or keep each exactly once.
THEOREM Keeping == Spec => []NothingLost
<1>1. ASSUME IInv
      PROVE  NothingLost
  <2> DEFINE total(n) == Total(outputs, injector.pending, CallOf(n))
  <2>1. /\ "stale_evidence" \notin Kinds => NoneReplaces(injector)
        /\ Kinds \cap {"contradictory_outputs", "duplicated_evidence"} = {} =>
              NoneSplits(injector)
    BY DEF Kinds, NoneReplaces, NoneSplits, Splitting
  <2>2. DOMAIN injector.history = 1..Len(injector.history)
        /\ Len(injector.history) \in Nat
    <3>1. injector.history \in Seq(Packet)
      BY <1>1 DEF IInv, IsInjector
    <3> QED
      BY <3>1
  <2>3. ASSUME NEW n \in DOMAIN injector.history
        PROVE  Copies(n) = total(n)
    <3> DEFINE Of(packets) ==
                   Cardinality({k \in DOMAIN packets : packets[k].provenance.call = n})
    <3>1. total(n) = Count(Returned(outputs), CallOf(n)) + Count(Waiting, CallOf(n))
      BY <1>1, WaitingLoad
    <3>2. /\ Count(Returned(outputs), CallOf(n)) = Of(Returned(outputs))
          /\ Count(Waiting, CallOf(n)) = Of(Waiting)
      BY <1>1, WaitingLoad, CountMeanings
    <3>3. Copies(n) = Of(Returned(outputs)) + Of(Waiting)
      BY DEF Copies, Returned
    <3> HIDE DEF Of
    <3> QED
      BY <3>1, <3>2, <3>3
  <2> HIDE DEF total
  <2>4. ASSUME "stale_evidence" \notin Kinds, NEW n \in DOMAIN injector.history
        PROVE  /\ Copies(n) >= 1
               /\ Kinds \cap {"contradictory_outputs", "duplicated_evidence"} = {} =>
                     Copies(n) = 1
    <3>1. total(n) >= 1
      BY <1>1, <2>1, <2>2, <2>4 DEF IInv, Accounted, total
    <3>2. n \in Nat
      BY <2>2
    <3>3. NoneSplits(injector) => total(n) = 1
      BY <1>1, <2>1, <2>2, <2>4, <3>2 DEF IInv, Accounted, total
    <3> QED
      BY <2>1, <2>3, <3>1, <3>3
  <2> QED
    BY <2>4 DEF NothingLost
<1> QED
  BY <1>1, Invariant, PTL
=============================================================================
