--------------------------- MODULE FaultInjector ---------------------------
(***************************************************************************)
(* One FaultInjector in use: a caller injects packets at steps of its      *)
(* choice and may flush.  The steps need not be consecutive, nor even      *)
(* increase.                                                               *)
(***************************************************************************)
EXTENDS FaultInjection

CONSTANTS
    Configurations,  \* the lists of FaultConfig an injector is made with
    Steps,           \* the steps callers pass
    OriginalStatus,  \* the statuses of the packets callers pass
    MaxCalls         \* bound on the calls of inject

ASSUME InjectorAssumption ==
    /\ Configurations \subseteq Seq(FaultConfig) \ {<< >>}
    /\ Steps \subseteq Nat
    /\ OriginalStatus \subseteq Status
    /\ "claim" \in Claims /\ "cx" \in Counterexamples

VARIABLES
    injector,  \* the object
    outputs    \* history: the step and the packets of every return so far

vars == <<injector, outputs>>

Schedules(configs) == [DOMAIN configs -> [Steps -> BOOLEAN]]

\* The packet a caller passes in call n; its provenance identifies it.
Original(n, status) ==
    [checked_claim |-> "claim", status |-> status, counterexample |-> "cx",
     provenance |-> [call |-> n, status |-> status],
     reliability |-> [injected_faults |-> << >>, release_step |-> None],
     independence |-> "INDEPENDENT", llm_produced |-> FALSE, sealed |-> TRUE]

Init ==
    /\ \E configs \in Configurations : \E schedule \in Schedules(configs) :
          injector = NewInjector(configs, schedule)
    /\ outputs = << >>

Inject(status, step) ==
    LET p == Original(Len(injector.history) + 1, status)
    IN  /\ Len(injector.history) < MaxCalls
        /\ injector' = AfterInject(injector, p, step)
        /\ outputs' = Append(outputs, [call |-> "inject", step |-> step,
                                       packets |-> Injected(injector, p, step)])

Flush ==
    /\ DOMAIN injector.pending # {}
    /\ injector' = AfterFlush(injector)
    /\ outputs' = Append(outputs, [call |-> "flush", step |-> None,
                                   packets |-> Flushed(injector)])

Next ==
    \/ \E status \in OriginalStatus, step \in Steps : Inject(status, step)
    \/ Flush

Spec == Init /\ [][Next]_vars

----------------------------------------------------------------------------
(* Properties *)

Kinds == {injector.configs[i].kind : i \in DOMAIN injector.configs}

\* The packets that are pending.
Waiting == Flushed(injector)

\* How many copies of the packet of call n were returned or are pending.
Copies(n) ==
    LET Of(packets) == Cardinality({k \in DOMAIN packets : packets[k].provenance.call = n})
    IN  Of(FlattenSeq([c \in DOMAIN outputs |-> outputs[c].packets])) + Of(Waiting)

\* Faults may corrupt evidence and delay it but, unless they replace or split
\* it, every packet is returned once or still pending; splitting never loses it.
NothingLost ==
    "stale_evidence" \notin Kinds =>
        \A n \in DOMAIN injector.history :
            IF Kinds \cap {"contradictory_outputs", "duplicated_evidence"} = {}
            THEN Copies(n) = 1
            ELSE Copies(n) >= 1

\* "Delayed packets are released on the first later call whose step reaches their
\* release step": none is returned before, none that is due stays behind, and one
\* return lists them in release order, before the fresh packets.
ReleasedOnTime ==
    /\ \A c \in DOMAIN outputs :
          LET packets == outputs[c].packets
              Release(k) == packets[k].reliability.release_step
          IN  \A k \in DOMAIN packets :
                 Release(k) # None =>
                    /\ outputs[c].call = "inject" => Release(k) <= outputs[c].step
                    /\ \A j \in 1..(k - 1) : Release(j) # None /\ Release(j) <= Release(k)
    /\ outputs # << >> /\ Last(outputs).call = "inject" =>
          \A release \in DOMAIN injector.pending : release > Last(outputs).step

\* The number of the call of inject that was return c.
CallNumber(c) == Cardinality({d \in 1..c : outputs[d].call = "inject"})

\* Every corruption stays auditable: a returned packet without a label is the
\* very packet passed in that call.
UnlabelledIsOriginal ==
    \A c \in DOMAIN outputs : \A k \in DOMAIN outputs[c].packets :
        LET p == outputs[c].packets[k]
        IN  p.reliability.injected_faults = << >> =>
                /\ outputs[c].call = "inject"
                /\ p = Original(p.provenance.call, p.provenance.status)
                /\ p.provenance.call = CallNumber(c)

\* A packet of an earlier call that comes back undelayed is replayed as its
\* verifier made it: stale is its first label, and if it is the only one the
\* content is untouched; nothing another fault made of it is ever replayed.
StaleIsAuthentic ==
    \A c \in DOMAIN outputs : \A k \in DOMAIN outputs[c].packets :
        LET p == outputs[c].packets[k]
            labels == p.reliability.injected_faults
        IN  /\ outputs[c].call = "inject"
            /\ p.provenance.call < CallNumber(c)
            /\ p.reliability.release_step = None
            => /\ labels # << >> /\ labels[1] = "stale_evidence"
               /\ labels = <<"stale_evidence">> => p.status = p.provenance.status

\* The audit log accounts for the delays: at every release step, as many packets
\* were put aside, whether returned since or still pending, as events announced.
DelaysAreAudited ==
    LET returned == FlattenSeq([c \in DOMAIN outputs |-> outputs[c].packets])
        Of(packets, r) == {k \in DOMAIN packets : packets[k].reliability.release_step = r}
    IN  \A r \in {injector.events[e].release_step : e \in DOMAIN injector.events} \ {None} :
            Cardinality({e \in DOMAIN injector.events :
                            injector.events[e].release_step = r})
            = Cardinality(Of(returned, r)) + Cardinality(Of(Waiting, r))
=============================================================================
