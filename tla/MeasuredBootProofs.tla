------------------------- MODULE MeasuredBootProofs -------------------------
(***************************************************************************)
(* Proofs about MeasuredBoot: a capture with its timeline is a capture,    *)
(* and what the summary of a capture says of it, for every set of options  *)
(* and every bound.                                                        *)
(***************************************************************************)
EXTENDS MeasuredBoot, BootCaptureProofs, FiniteSetTheorems, WellFoundedInduction

(***************************************************************************)
(* Every step of MeasuredBoot is a step of BootCapture, so what is proved  *)
(* of Spec holds of MeasuredSpec.                                          *)
(***************************************************************************)
measured == <<vars, measuredVars>>

LEMMA MeasuredStep == [MeasuredNext]_measured => [Next]_vars
<1> SUFFICES ASSUME [MeasuredNext]_measured PROVE [Next]_vars
  OBVIOUS
<1> USE DEF Next, Main
<1>1. CASE Arms BY <1>1 DEF Arms, MainPower
<1>2. CASE BaselineStep BY <1>2 DEF BaselineStep, MainPower
<1>3. CASE SampleStep BY <1>3 DEF SampleStep, Carrier
<1>4. CASE FinalSampleStep BY <1>4 DEF FinalSampleStep, MainFinally
<1>5. CASE SshStep BY <1>5 DEF SshStep, Probe, Network
<1>6. CASE ChunkStep BY <1>6 DEF ChunkStep, Serial
<1>7. CASE FailureStep BY <1>7 DEF FailureStep, MainVerdict
<1>8. CASE FinalSupplyStep BY <1>8 DEF FinalSupplyStep, MainFinally
<1>9. CASE Silent
  <2>1. \/ Main \/ Interrupt \/ Carrier \/ Serial \/ CheckStopAgain
        \/ Tick \/ OutputLost \/ Terminated
        \/ \E w \in Network : Probe(w)
        \/ \E w \in Workers : Leave(w)
        \/ \E w \in Failing : SetStop(w)
    <3>1. "http" \in Network BY DEF Network
    <3> QED BY <1>9, <3>1, Zenon
            DEF Silent, Main, MainPower, MainVerdict, MainFinally, Carrier, Serial,
                Probe
  <2> QED BY <2>1, Zenon
<1>10. CASE UNCHANGED measured BY <1>10 DEF measured
<1> QED BY <1>1, <1>2, <1>3, <1>4, <1>5, <1>6, <1>7, <1>8, <1>9, <1>10
        DEF MeasuredNext

\* A capture with its timeline behaves as a capture: writing the timeline and
\* the statistics disturbs nothing that run and the workers do.
THEOREM MeasuredRefines == MeasuredSpec => Spec
<1>1. MeasuredInit => Init BY DEF MeasuredInit
<1> QED BY <1>1, MeasuredStep, PTL DEF MeasuredSpec, Spec, measured

(***************************************************************************)
(* Least and greatest elements.                                            *)
(***************************************************************************)
\* A nonempty set of natural numbers has a least element.
LEMMA LeastExists ==
  ASSUME NEW S, S \subseteq Nat, S # {}
  PROVE  \E x \in S : \A y \in S : x <= y
<1> DEFINE R == {p \in Nat \X Nat : p[1] < p[2]}
<1>1. IsWellFoundedOn(R, Nat)
  BY NatLessThanWellFounded, Zenon DEF OpToRel
<1> HIDE DEF R
<1>2. PICK x \in S : \A y \in S : ~(<<y, x>> \in R)
  BY <1>1, WFMin
<1>3. ASSUME NEW y \in S PROVE x <= y
  <2> DEFINE p == <<y, x>>
  <2>1. p \in Nat \X Nat /\ p[1] = y /\ p[2] = x OBVIOUS
  <2>2. ~(p \in R) BY <1>2
  <2>3. ~(p[1] < p[2])
    <3> HIDE DEF p
    <3> QED BY <2>1, <2>2 DEF R
  <2> QED BY <2>1, <2>3
<1> QED BY <1>3

\* A nonempty set of natural numbers below a bound has a greatest element.
LEMMA GreatestExists ==
  ASSUME NEW n \in Nat, NEW S, S \subseteq 0..n, S # {}
  PROVE  \E x \in S : \A y \in S : y <= x
<1> DEFINE T == {n - x : x \in S}
<1>1. T \subseteq Nat /\ T # {}
  <2>1. PICK x \in S : TRUE OBVIOUS
  <2>2. n - x \in T BY <2>1
  <2>3. \A y \in S : n - y \in Nat OBVIOUS
  <2> QED BY <2>2, <2>3
<1>2. PICK z \in T : \A y \in T : z <= y
  <2> HIDE DEF T
  <2> QED BY <1>1, LeastExists
<1>3. PICK x \in S : z = n - x OBVIOUS
<1>4. ASSUME NEW y \in S PROVE y <= x
  <2>1. n - y \in T OBVIOUS
  <2>2. z <= n - y BY <1>2, <2>1
  <2>3. n - x <= n - y BY <1>3, <2>2
  <2>4. x \in 0..n /\ y \in 0..n OBVIOUS
  <2> HIDE DEF T
  <2> QED BY <2>3, <2>4
<1> QED BY <1>4

LEMMA Greatest ==
  ASSUME NEW n \in Nat, NEW S, S \subseteq 0..n, S # {}
  PROVE  Summary!Max(S) \in S /\ \A y \in S : y <= Summary!Max(S)
<1>1. \E x \in S : \A y \in S : x >= y
  BY GreatestExists
<1> QED BY <1>1 DEF Summary!Max

LEMMA Least ==
  ASSUME NEW S, S \subseteq Nat, S # {}
  PROVE  Summary!Min(S) \in S /\ \A y \in S : Summary!Min(S) <= y
<1>1. \E x \in S : \A y \in S : x <= y
  BY LeastExists
<1> QED BY <1>1 DEF Summary!Min

(***************************************************************************)
(* The timeline as it grows.                                               *)
(***************************************************************************)
Plain == {"carrier_ready", "ssh_banner_ready", "carrier_down_baseline", "error"}
ChunkTexts == {<<"noise">>, <<"banner">>, <<"banner", "banner">>, <<"head">>,
               <<"banner", "head">>, <<"tail">>, <<"tail", "banner">>, <<"head", "tail">>}

\* What a record of the timeline may be.
Entries ==
    [event : Plain, t : Times]
    \cup [event : {"reference_started"}, t : Times, label : {Summary!Power, "capture_start"}]
    \cup [event : {"carrier_transition"}, t : Times, carrier : {"down", "up"}]
    \cup [event : {"carrier_monitor_finished"}, t : Times,
          carrier : {"none", "down", "up"}, last : Times]
    \cup [event : {"uart_received"}, t : Times, offset : Nat, text : ChunkTexts]

\* The places of one kind in a timeline.
OfKind(tl, k) == {i \in 1..Len(tl) : tl[i].event = k}

\* What becomes of the records of a kind when timeline s grows to u: nothing,
\* or a last one is added.
Keeps(s, u, k) ==
    OfKind(u, k) = OfKind(s, k) /\ \A i \in OfKind(s, k) : u[i] = s[i]
Gains(s, u, e) ==
    \E n \in Nat : /\ OfKind(u, e.event) = OfKind(s, e.event) \cup {n}
                  /\ u[n] = e
                  /\ \A i \in OfKind(s, e.event) : i < n /\ u[i] = s[i]

\* u is s and some more.
Extends(s, u) ==
    /\ Len(s) \in Nat /\ Len(u) \in Nat /\ Len(s) <= Len(u)
    /\ \A i \in 1..Len(s) : u[i] = s[i]

LEMMA GainsLast ==
  ASSUME NEW s, NEW u, Extends(s, u), NEW n \in (Len(s) + 1)..Len(u),
         \A j \in (Len(s) + 1)..Len(u) : j # n => u[j].event # u[n].event
  PROVE  Gains(s, u, u[n])
<1> DEFINE k == u[n].event
<1>1. OfKind(u, k) = OfKind(s, k) \cup {n}
  <2>1. ASSUME NEW i \in OfKind(u, k) PROVE i \in OfKind(s, k) \cup {n}
    BY <2>1 DEF OfKind, Extends
  <2>2. ASSUME NEW i \in OfKind(s, k) PROVE i \in OfKind(u, k)
    BY <2>2 DEF OfKind, Extends
  <2>3. n \in OfKind(u, k) BY DEF OfKind, Extends
  <2> HIDE DEF k
  <2> QED BY <2>1, <2>2, <2>3
<1>2. \A i \in OfKind(s, k) : i < n /\ u[i] = s[i]
  BY DEF OfKind, Extends
<1>3. n \in Nat BY DEF Extends
<1> QED BY <1>1, <1>2, <1>3 DEF Gains

LEMMA KeepsOthers ==
  ASSUME NEW s, NEW u, Extends(s, u), NEW k,
         \A j \in (Len(s) + 1)..Len(u) : u[j].event # k
  PROVE  Keeps(s, u, k)
<1>1. ASSUME NEW i \in OfKind(u, k) PROVE i \in OfKind(s, k)
  BY <1>1 DEF OfKind, Extends
<1>2. ASSUME NEW i \in OfKind(s, k) PROVE i \in OfKind(u, k) /\ u[i] = s[i]
  BY <1>2 DEF OfKind, Extends
<1> QED BY <1>1, <1>2 DEF Keeps

LEMMA OneRecord ==
  ASSUME NEW s \in Seq(Entries), NEW e \in Entries,
         NEW u, u = s \o <<e>>
  PROVE  /\ u \in Seq(Entries)
         /\ Gains(s, u, e)
         /\ \A k : k # e.event => Keeps(s, u, k)
<1> HIDE DEF Entries
<1> DEFINE n == Len(s)
<1>1. /\ u \in Seq(Entries) /\ Len(u) = n + 1 /\ n \in Nat
      /\ \A i \in 1..n : u[i] = s[i]
      /\ u[n + 1] = e
  OBVIOUS
<1>2. Extends(s, u) BY <1>1 DEF Extends
<1> HIDE DEF n
<1>3. Len(s) = n BY DEF n
<1>4. \A j \in (n + 1)..Len(u) : j = n + 1
  BY <1>1
<1>5. Gains(s, u, e)
  <2>1. n + 1 \in (n + 1)..Len(u) BY <1>1
  <2>2. \A j \in (n + 1)..Len(u) : j # n + 1 => u[j].event # u[n + 1].event
    BY <1>1, <1>4
  <2>3. Gains(s, u, u[n + 1]) BY <1>2, <1>3, <2>1, <2>2, GainsLast
  <2> QED BY <1>1, <2>3
<1>6. ASSUME NEW k, k # e.event PROVE Keeps(s, u, k)
  BY <1>1, <1>2, <1>3, <1>4, <1>6, KeepsOthers
<1> QED BY <1>1, <1>5, <1>6

LEMMA TwoRecords ==
  ASSUME NEW s \in Seq(Entries), NEW e \in Entries, NEW f \in Entries,
         NEW u, u = s \o <<e, f>>, e.event # f.event
  PROVE  /\ u \in Seq(Entries)
         /\ Gains(s, u, e) /\ Gains(s, u, f)
         /\ \A k : k # e.event /\ k # f.event => Keeps(s, u, k)
<1> HIDE DEF Entries
<1> DEFINE n == Len(s)
<1>1. /\ u \in Seq(Entries) /\ Len(u) = n + 2 /\ n \in Nat
      /\ \A i \in 1..n : u[i] = s[i]
      /\ u[n + 1] = e /\ u[n + 2] = f
  OBVIOUS
<1>2. Extends(s, u) BY <1>1 DEF Extends
<1> HIDE DEF n
<1>3. Len(s) = n BY DEF n
<1>4. \A j \in (n + 1)..Len(u) : j = n + 1 \/ j = n + 2
  BY <1>1
<1>5. Gains(s, u, e)
  <2>1. n + 1 \in (n + 1)..Len(u) BY <1>1
  <2>2. \A j \in (n + 1)..Len(u) : j # n + 1 => u[j].event # u[n + 1].event
    BY <1>1, <1>4
  <2>3. Gains(s, u, u[n + 1]) BY <1>2, <1>3, <2>1, <2>2, GainsLast
  <2> QED BY <1>1, <2>3
<1>6. Gains(s, u, f)
  <2>1. n + 2 \in (n + 1)..Len(u) BY <1>1
  <2>2. \A j \in (n + 1)..Len(u) : j # n + 2 => u[j].event # u[n + 2].event
    BY <1>1, <1>4
  <2>3. Gains(s, u, u[n + 2]) BY <1>2, <1>3, <2>1, <2>2, GainsLast
  <2> QED BY <1>1, <2>3
<1>7. ASSUME NEW k, k # e.event, k # f.event PROVE Keeps(s, u, k)
  BY <1>1, <1>2, <1>3, <1>4, <1>7, KeepsOthers
<1> QED BY <1>1, <1>5, <1>6, <1>7

LEMMA ThreeRecords ==
  ASSUME NEW s \in Seq(Entries), NEW e \in Entries, NEW f \in Entries, NEW g \in Entries,
         NEW u, u = s \o <<e, f, g>>, e.event # f.event,
         e.event # g.event, f.event # g.event
  PROVE  /\ u \in Seq(Entries)
         /\ Gains(s, u, e) /\ Gains(s, u, f) /\ Gains(s, u, g)
         /\ \A k : k # e.event /\ k # f.event /\ k # g.event => Keeps(s, u, k)
<1> HIDE DEF Entries
<1> DEFINE n == Len(s)
<1>1. /\ u \in Seq(Entries) /\ Len(u) = n + 3 /\ n \in Nat
      /\ \A i \in 1..n : u[i] = s[i]
      /\ u[n + 1] = e /\ u[n + 2] = f /\ u[n + 3] = g
  OBVIOUS
<1>2. Extends(s, u) BY <1>1 DEF Extends
<1> HIDE DEF n
<1>3. Len(s) = n BY DEF n
<1>4. \A j \in (n + 1)..Len(u) : j = n + 1 \/ j = n + 2 \/ j = n + 3
  BY <1>1
<1>5. Gains(s, u, e)
  <2>1. n + 1 \in (n + 1)..Len(u) BY <1>1
  <2>2. \A j \in (n + 1)..Len(u) : j # n + 1 => u[j].event # u[n + 1].event
    BY <1>1, <1>4
  <2>3. Gains(s, u, u[n + 1]) BY <1>2, <1>3, <2>1, <2>2, GainsLast
  <2> QED BY <1>1, <2>3
<1>6. Gains(s, u, f)
  <2>1. n + 2 \in (n + 1)..Len(u) BY <1>1
  <2>2. \A j \in (n + 1)..Len(u) : j # n + 2 => u[j].event # u[n + 2].event
    BY <1>1, <1>4
  <2>3. Gains(s, u, u[n + 2]) BY <1>2, <1>3, <2>1, <2>2, GainsLast
  <2> QED BY <1>1, <2>3
<1>7. Gains(s, u, g)
  <2>1. n + 3 \in (n + 1)..Len(u) BY <1>1
  <2>2. \A j \in (n + 1)..Len(u) : j # n + 3 => u[j].event # u[n + 3].event
    BY <1>1, <1>4
  <2>3. Gains(s, u, u[n + 3]) BY <1>2, <1>3, <2>1, <2>2, GainsLast
  <2> QED BY <1>1, <2>3
<1>8. ASSUME NEW k, k # e.event, k # f.event, k # g.event PROVE Keeps(s, u, k)
  BY <1>1, <1>2, <1>3, <1>4, <1>8, KeepsOthers
<1> QED BY <1>1, <1>5, <1>6, <1>7, <1>8

LEMMA NoRecord ==
  ASSUME NEW s \in Seq(Entries), NEW u, u = s \o <<>>
  PROVE  u = s /\ \A k : Keeps(s, u, k)
<1> HIDE DEF Entries
<1>1. u = s OBVIOUS
<1> QED BY <1>1 DEF Keeps

(***************************************************************************)
(* What each step writes.                                                  *)
(***************************************************************************)
MeasuredTypeOK ==
    /\ timeline \in Seq(Entries)
    /\ sampling \in [count : Nat, gap : Nat, read : Nat, since : Times, last : Times]
    /\ supplyFault \in BOOLEAN

Kept(k) == Keeps(timeline, timeline', k)
New(e)  == Gains(timeline, timeline', e)

LEMMA ArmsWrites ==
  ASSUME TypeOK, MeasuredTypeOK, Arms
  PROVE  /\ timeline' \in Seq(Entries)
         /\ New([event |-> "reference_started", t |-> reference',
                 label |-> IF main = "arm" THEN Summary!Power ELSE "capture_start"])
         /\ \A k : k # "reference_started" => Kept(k)
<1> DEFINE e == [event |-> "reference_started", t |-> reference',
                 label |-> IF main = "arm" THEN Summary!Power ELSE "capture_start"]
<1>1. reference' \in Times
  BY DEF Arms, PublishReference, ArmUnknown, Arm, TypeOK, Times
<1>2. e \in Entries /\ e.event = "reference_started"
  BY <1>1 DEF Entries
<1>3. timeline' = timeline \o <<e>>
  BY DEF Arms, Log
<1> HIDE DEF e
<1> QED BY <1>2, <1>3, OneRecord DEF MeasuredTypeOK, New, Kept, e

\* What a read of the carrier that returned v leaves in the timeline.
Watched(v) ==
    /\ IF reference # NoTime /\ v # lastState
       THEN New([event |-> "carrier_transition", t |-> now, carrier |-> v])
       ELSE Kept("carrier_transition")
    /\ IF ready'["carrier"] # ready["carrier"]
       THEN New(At("carrier_ready", now)) ELSE Kept("carrier_ready")

LEMMA ReadyOnRise ==
  ASSUME TypeOK, NEW v \in {"down", "up"}, NEW b, RecordCarrier(v, b)
  PROVE  ready'["carrier"] # ready["carrier"] =>
             reference # NoTime /\ v # lastState /\ v = "up"
BY DEF RecordCarrier, MarkReady

LEMMA PlainEntry ==
  ASSUME TypeOK, NEW k \in Plain
  PROVE  At(k, now) \in Entries /\ At(k, now).event = k
BY DEF Entries, At, TypeOK, Times

LEMMA TransitionEntry ==
  ASSUME TypeOK, NEW v \in {"down", "up"}
  PROVE  /\ [event |-> "carrier_transition", t |-> now, carrier |-> v] \in Entries
         /\ [event |-> "carrier_transition", t |-> now, carrier |-> v].event
               = "carrier_transition"
BY DEF Entries, TypeOK, Times

LEMMA BaselineWrites ==
  ASSUME TypeOK, MeasuredTypeOK, BaselineStep
  PROVE  /\ timeline' \in Seq(Entries)
         /\ \A k : k \notin {"carrier_transition", "carrier_down_baseline"} => Kept(k)
         /\ \/ baseline' = baseline /\ timeline' = timeline
            \/ /\ baseline' = now
               /\ New(At("carrier_down_baseline", now))
               /\ IF lastState # "down"
                  THEN New([event |-> "carrier_transition", t |-> now, carrier |-> "down"])
                  ELSE Kept("carrier_transition")
<1> DEFINE e == At("carrier_down_baseline", now)
           f == [event |-> "carrier_transition", t |-> now, carrier |-> "down"]
<1>1. CASE baseline' = baseline
  <2>1. timeline' = timeline BY <1>1 DEF BaselineStep
  <2> QED BY <1>1, <2>1 DEF Kept, Keeps, MeasuredTypeOK
<1>2. CASE baseline' # baseline
  <2>1. baseline' = now
    BY <1>2 DEF BaselineStep, TakeBaseline
  <2>2. e \in Entries /\ e.event = "carrier_down_baseline"
    BY PlainEntry DEF Plain
  <2>3. f \in Entries /\ f.event = "carrier_transition"
    BY TransitionEntry
  <2>4. CASE lastState # "down"
    <3>1. timeline' = timeline \o <<f, e>>
      BY <1>2, <2>4 DEF BaselineStep, Log, Transition, If
    <3> HIDE DEF e, f
    <3> QED BY <2>1, <2>2, <2>3, <2>4, <3>1, TwoRecords
            DEF MeasuredTypeOK, New, Kept, e, f
  <2>5. CASE lastState = "down"
    <3>1. timeline' = timeline \o <<e>>
      BY <1>2, <2>5 DEF BaselineStep, Log, Transition, If
    <3> HIDE DEF e, f
    <3> QED BY <2>1, <2>2, <2>5, <3>1, OneRecord
            DEF MeasuredTypeOK, New, Kept, e, f
  <2> QED BY <2>4, <2>5
<1> QED BY <1>1, <1>2

LEMMA SampleWrites ==
  ASSUME TypeOK, MeasuredTypeOK, SampleStep
  PROVE  /\ timeline' \in Seq(Entries)
         /\ \A k : k \notin {"carrier_transition", "carrier_ready"} => Kept(k)
         /\ sample' \in {"down", "up"} /\ RecordCarrier(sample', begun["carrier"])
         /\ Watched(sample')
<1>1. PICK v \in {"down", "up"} : sample' = v /\ RecordCarrier(v, begun["carrier"])
  BY DEF SampleStep, CarrierReads
<1> DEFINE e == [event |-> "carrier_transition", t |-> now, carrier |-> v]
           f == At("carrier_ready", now)
<1>2. e \in Entries /\ e.event = "carrier_transition"
  BY TransitionEntry
<1>3. f \in Entries /\ f.event = "carrier_ready"
  BY PlainEntry DEF Plain
<1>4. ready'["carrier"] # ready["carrier"] => reference # NoTime /\ v # lastState
  BY <1>1, ReadyOnRise
<1>5. CASE reference = NoTime \/ v = lastState
  <2> DEFINE none == <<>>
  <2>a. none \o none = none OBVIOUS
  <2>b. reference # NoTime => v = lastState /\ ready'["carrier"] = ready["carrier"]
    BY <1>4, <1>5
  <2>c. (Transition(sample') = none /\ CarrierReady = none) \/ reference = NoTime
    BY <1>1, <2>b DEF Transition, CarrierReady, If
  <2> HIDE DEF none
  <2>d. timeline' = timeline \/ timeline' = timeline \o none
    BY <2>a, <2>c DEF SampleStep, Log
  <2>1. timeline' = timeline \/ timeline' = timeline \o <<>>
    BY <2>d DEF none
  <2>2. timeline' = timeline /\ \A k : Kept(k)
    BY <2>1, NoRecord DEF MeasuredTypeOK, Kept, Keeps
  <2> QED BY <1>1, <1>4, <1>5, <2>2 DEF MeasuredTypeOK, Watched
<1>6. CASE reference # NoTime /\ v # lastState /\ ready'["carrier"] = ready["carrier"]
  <2>1. timeline' = timeline \o <<e>>
    BY <1>1, <1>6 DEF SampleStep, Log, Transition, CarrierReady, If
  <2> HIDE DEF e, f
  <2>2. timeline' \in Seq(Entries) /\ New(e) /\ \A k : k # "carrier_transition" => Kept(k)
    BY <1>2, <2>1, OneRecord DEF MeasuredTypeOK, New, Kept
  <2> QED BY <1>1, <1>6, <2>2 DEF Watched, e
<1>7. CASE ready'["carrier"] # ready["carrier"]
  <2>1. timeline' = timeline \o <<e, f>>
    BY <1>1, <1>4, <1>7 DEF SampleStep, Log, Transition, CarrierReady, If
  <2> HIDE DEF e, f
  <2>2. /\ timeline' \in Seq(Entries) /\ New(e) /\ New(f)
        /\ \A k : k # "carrier_transition" /\ k # "carrier_ready" => Kept(k)
    BY <1>2, <1>3, <2>1, TwoRecords DEF MeasuredTypeOK, New, Kept
  <2> QED BY <1>1, <1>4, <1>7, <2>2 DEF Watched, e, f
<1> QED BY <1>5, <1>6, <1>7

LEMMA FinalSampleWrites ==
  ASSUME TypeOK, MeasuredTypeOK, FinalSampleStep
  PROVE  /\ timeline' \in Seq(Entries)
         /\ \A k : k \notin {"carrier_transition", "carrier_ready", "error",
                            "carrier_monitor_finished"} => Kept(k)
         /\ \/ /\ \E v \in {"down", "up"} : FinalRead(v) /\ Watched(v)
                     /\ New([event |-> "carrier_monitor_finished", t |-> now,
                             carrier |-> v, last |-> now])
               /\ Kept("error") /\ Sampled(now)
            \/ /\ FinalReadFails /\ UNCHANGED sampling
               /\ Kept("carrier_transition") /\ Kept("carrier_ready")
               /\ New(At("error", now))
               /\ New([event |-> "carrier_monitor_finished", t |-> now,
                       carrier |-> lastState, last |-> sampling.last])
<1>1. ASSUME NEW v \in {"down", "up"}, FinalRead(v),
             Log((IF reference = NoTime THEN <<>> ELSE Transition(lastState') \o CarrierReady)
                 \o Finished(lastState', now))
      PROVE  /\ timeline' \in Seq(Entries)
             /\ \A k : k \notin {"carrier_transition", "carrier_ready",
                                "carrier_monitor_finished"} => Kept(k)
             /\ Watched(v)
             /\ New([event |-> "carrier_monitor_finished", t |-> now,
                     carrier |-> v, last |-> now])
  <2> DEFINE e == [event |-> "carrier_transition", t |-> now, carrier |-> v]
             f == At("carrier_ready", now)
             g == [event |-> "carrier_monitor_finished", t |-> now, carrier |-> v,
                   last |-> now]
  <2>1. lastState' = v /\ RecordCarrier(v, now)
    BY <1>1 DEF FinalRead
  <2>2. e \in Entries /\ e.event = "carrier_transition"
    BY TransitionEntry
  <2>3. f \in Entries /\ f.event = "carrier_ready"
    BY PlainEntry DEF Plain
  <2>4. g \in Entries /\ g.event = "carrier_monitor_finished"
    BY DEF Entries, TypeOK, Times
  <2>5. ready'["carrier"] # ready["carrier"] => reference # NoTime /\ v # lastState
    BY <2>1, ReadyOnRise
  <2>6. CASE reference = NoTime \/ v = lastState
    <3>1. timeline' = timeline \o <<g>>
      BY <1>1, <2>1, <2>5, <2>6 DEF Log, Transition, CarrierReady, If, Finished
    <3> HIDE DEF e, f, g
    <3>2. /\ timeline' \in Seq(Entries) /\ New(g)
          /\ \A k : k # "carrier_monitor_finished" => Kept(k)
      BY <2>4, <3>1, OneRecord DEF MeasuredTypeOK, New, Kept
    <3> QED BY <2>5, <2>6, <3>2 DEF Watched, g
  <2>7. CASE reference # NoTime /\ v # lastState /\ ready'["carrier"] = ready["carrier"]
    <3>1. timeline' = timeline \o <<e, g>>
      BY <1>1, <2>1, <2>7 DEF Log, Transition, CarrierReady, If, Finished
    <3> HIDE DEF e, f, g
    <3>2. /\ timeline' \in Seq(Entries) /\ New(e) /\ New(g)
          /\ \A k : k # "carrier_transition" /\ k # "carrier_monitor_finished" => Kept(k)
      BY <2>2, <2>4, <3>1, TwoRecords DEF MeasuredTypeOK, New, Kept
    <3> QED BY <2>7, <3>2 DEF Watched, e, g
  <2>8. CASE ready'["carrier"] # ready["carrier"]
    <3>1. timeline' = timeline \o <<e, f, g>>
      BY <1>1, <2>1, <2>5, <2>8 DEF Log, Transition, CarrierReady, If, Finished
    <3> HIDE DEF e, f, g
    <3>2. /\ timeline' \in Seq(Entries) /\ New(e) /\ New(f) /\ New(g)
          /\ \A k : k # "carrier_transition" /\ k # "carrier_ready"
                    /\ k # "carrier_monitor_finished" => Kept(k)
      BY <2>2, <2>3, <2>4, <3>1, ThreeRecords DEF MeasuredTypeOK, New, Kept
    <3> QED BY <2>5, <2>8, <3>2 DEF Watched, e, f, g
  <2> QED BY <2>6, <2>7, <2>8
<1>2. ASSUME FinalReadFails, Log(<<At("error", now)>> \o Finished(lastState, sampling.last))
      PROVE  /\ timeline' \in Seq(Entries)
             /\ \A k : k \notin {"error", "carrier_monitor_finished"} => Kept(k)
             /\ New(At("error", now))
             /\ New([event |-> "carrier_monitor_finished", t |-> now,
                     carrier |-> lastState, last |-> sampling.last])
  <2> DEFINE f == At("error", now)
             g == [event |-> "carrier_monitor_finished", t |-> now,
                   carrier |-> lastState, last |-> sampling.last]
  <2>1. f \in Entries /\ f.event = "error"
    BY PlainEntry DEF Plain
  <2>2. g \in Entries /\ g.event = "carrier_monitor_finished"
    BY DEF Entries, TypeOK, MeasuredTypeOK, Times
  <2>3. timeline' = timeline \o <<f, g>>
    BY <1>2 DEF Log, Finished
  <2> HIDE DEF f, g
  <2>4. /\ timeline' \in Seq(Entries) /\ New(f) /\ New(g)
        /\ \A k : k # "error" /\ k # "carrier_monitor_finished" => Kept(k)
    BY <2>1, <2>2, <2>3, TwoRecords DEF MeasuredTypeOK, New, Kept
  <2> QED BY <2>4 DEF f, g
<1> QED BY <1>1, <1>2 DEF FinalSampleStep

LEMMA SshWrites ==
  ASSUME TypeOK, MeasuredTypeOK, SshStep
  PROVE  /\ timeline' \in Seq(Entries)
         /\ \A k : k # "ssh_banner_ready" => Kept(k)
         /\ IF ready'["net"] # ready["net"]
            THEN New(At("ssh_banner_ready", now)) ELSE Kept("ssh_banner_ready")
<1> DEFINE e == At("ssh_banner_ready", now)
<1>1. e \in Entries /\ e.event = "ssh_banner_ready"
  BY PlainEntry DEF Plain
<1>2. CASE ready'["net"] # ready["net"]
  <2>1. timeline' = timeline \o <<e>>
    BY <1>2 DEF SshStep, Log, If
  <2> HIDE DEF e
  <2> QED BY <1>1, <1>2, <2>1, OneRecord DEF MeasuredTypeOK, New, Kept, e
<1>3. CASE ready'["net"] = ready["net"]
  <2>1. timeline' = timeline \o <<>>
    BY <1>3 DEF SshStep, Log, If
  <2> HIDE DEF e
  <2> QED BY <1>3, <2>1, NoRecord DEF MeasuredTypeOK, Kept
<1> QED BY <1>2, <1>3

\* A step that may record an error.
ErrorWritten(condition) ==
    /\ timeline' \in Seq(Entries)
    /\ \A k : k # "error" => Kept(k)
    /\ IF condition THEN New(At("error", now)) ELSE Kept("error")

LEMMA ErrorWrites ==
  ASSUME TypeOK, MeasuredTypeOK, NEW c \in BOOLEAN, Log(If(c, At("error", now)))
  PROVE  ErrorWritten(c)
<1> DEFINE e == At("error", now)
<1>1. e \in Entries /\ e.event = "error"
  BY PlainEntry DEF Plain
<1>2. CASE c
  <2>1. timeline' = timeline \o <<e>>
    BY <1>2 DEF Log, If
  <2> HIDE DEF e
  <2> QED BY <1>1, <1>2, <2>1, OneRecord DEF MeasuredTypeOK, New, Kept, e,
                                             ErrorWritten
<1>3. CASE ~c
  <2>1. timeline' = timeline \o <<>>
    BY <1>3 DEF Log, If
  <2> HIDE DEF e
  <2> QED BY <1>3, <2>1, NoRecord DEF MeasuredTypeOK, Kept, ErrorWritten
<1> QED BY <1>2, <1>3

LEMMA FailureWrites ==
  ASSUME TypeOK, MeasuredTypeOK, FailureStep
  PROVE  ErrorWritten(errors' # errors \/ (Handle => raised # "interrupt"))
<1> DEFINE c == main = "except" /\ main' # main => raised # "interrupt"
<1>1. ErrorWritten(c)
  BY ErrorWrites DEF FailureStep
<1>2. c <=> (errors' # errors \/ (Handle => raised # "interrupt"))
  BY DEF FailureStep, Handle, Goto, RecordFailure, WorkerUnchanged
<1> QED BY <1>1, <1>2 DEF ErrorWritten

LEMMA FinalSupplyWrites ==
  ASSUME TypeOK, MeasuredTypeOK, FinalSupplyStep
  PROVE  \/ FinalSupplyTaken /\ ErrorWritten(~SupplyHealthy)
               /\ supplyFault' = (alarm \/ output = "off")
         \/ FinalSupplyFails /\ ErrorWritten(TRUE) /\ UNCHANGED supplyFault
<1>1. CASE FinalSupplyTaken /\ Log(If(~SupplyHealthy, At("error", now)))
             /\ supplyFault' = (alarm \/ output = "off")
  BY <1>1, ErrorWrites DEF SupplyHealthy
<1>2. CASE FinalSupplyFails /\ Log(<<At("error", now)>>) /\ UNCHANGED supplyFault
  <2>1. Log(If(TRUE, At("error", now)))
    BY <1>2 DEF If
  <2> QED BY <1>2, <2>1, ErrorWrites
<1> QED BY <1>1, <1>2 DEF FinalSupplyStep

\* The chunks of a timeline, and the last of them.
LEMMA ChunksAre ==
  ASSUME MeasuredTypeOK
  PROVE  /\ Chunks = {i \in OfKind(timeline, "uart_received") : NoTime <= timeline[i].t}
         /\ \A i \in OfKind(timeline, "uart_received") :
               timeline[i].offset \in Nat /\ timeline[i].text \in ChunkTexts
         /\ \A i \in 1..Len(timeline) : timeline[i].t \in Times
<1>1. \A i \in 1..Len(timeline) : timeline[i] \in Entries
  BY DEF MeasuredTypeOK
<1>2. \A i \in OfKind(timeline, "uart_received") :
         timeline[i].offset \in Nat /\ timeline[i].text \in ChunkTexts
  <2> SUFFICES ASSUME NEW i \in OfKind(timeline, "uart_received")
               PROVE  timeline[i].offset \in Nat /\ timeline[i].text \in ChunkTexts
    OBVIOUS
  <2>1. timeline[i] \in Entries /\ timeline[i].event = "uart_received"
    BY <1>1 DEF OfKind
  <2> HIDE DEF ChunkTexts
  <2> QED BY <2>1 DEF Entries, Plain
<1>3. \A i \in 1..Len(timeline) : timeline[i].t \in Times
  <2> SUFFICES ASSUME NEW e \in Entries PROVE e.t \in Times
    BY <1>1
  <2> HIDE DEF Times
  <2> QED BY DEF Entries
<1>4. DOMAIN timeline = 1..Len(timeline)
  <2> HIDE DEF Entries
  <2> QED BY DEF MeasuredTypeOK
<1>5. Chunks = {i \in OfKind(timeline, "uart_received") : NoTime <= timeline[i].t}
  BY <1>4 DEF Chunks, Summary!Places, OfKind, NoTime, Summary!None
<1> QED BY <1>2, <1>3, <1>5

LEMMA UartBytesNat ==
  ASSUME MeasuredTypeOK
  PROVE  UartBytes \in Nat
<1>1. Len(timeline) \in Nat
  <2> HIDE DEF Entries
  <2> QED BY DEF MeasuredTypeOK
<1>2. CASE Chunks # {}
  <2>1. Chunks \subseteq 0..Len(timeline)
    BY <1>1, ChunksAre DEF OfKind
  <2> DEFINE i == Summary!Max(Chunks)
  <2>2. i \in Chunks
    BY <1>1, <1>2, <2>1, Greatest
  <2> HIDE DEF i
  <2>3. timeline[i].offset \in Nat /\ timeline[i].text \in ChunkTexts
    BY <2>2, ChunksAre
  <2>4. Len(timeline[i].text) \in Nat
    BY <2>3 DEF ChunkTexts
  <2>5. UartBytes = timeline[i].offset + Len(timeline[i].text)
    BY <1>2 DEF UartBytes, i
  <2> QED BY <2>3, <2>4, <2>5
<1> QED BY <1>2 DEF UartBytes

LEMMA ChunkWrites ==
  ASSUME TypeOK, MeasuredTypeOK, ChunkStep
  PROVE  /\ timeline' \in Seq(Entries)
         /\ \A k : k # "uart_received" => Kept(k)
         /\ \E text \in Texts :
              IF reference # NoTime
              THEN New([event |-> "uart_received", t |-> begun["serial"],
                        offset |-> UartBytes, text |-> text])
              ELSE Kept("uart_received")
<1>1. PICK text \in Texts :
         Log(If(reference # NoTime, [event |-> "uart_received", t |-> begun["serial"],
                                     offset |-> UartBytes, text |-> text]))
  BY DEF ChunkStep
<1> DEFINE e == [event |-> "uart_received", t |-> begun["serial"],
                 offset |-> UartBytes, text |-> text]
<1>2. text \in ChunkTexts
  BY DEF Texts, ChunkTexts, TypeOK
<1>3. e \in Entries /\ e.event = "uart_received"
  <2>1. begun["serial"] \in Times BY DEF TypeOK, Workers
  <2> HIDE DEF ChunkTexts, Times
  <2> QED BY <1>2, <2>1, UartBytesNat DEF Entries
<1>4. CASE reference # NoTime
  <2>1. timeline' = timeline \o <<e>>
    BY <1>1, <1>4 DEF Log, If
  <2> HIDE DEF e
  <2> QED BY <1>3, <1>4, <2>1, OneRecord DEF MeasuredTypeOK, New, Kept, e
<1>5. CASE reference = NoTime
  <2>1. timeline' = timeline \o <<>>
    BY <1>1, <1>5 DEF Log, If
  <2> HIDE DEF e
  <2> QED BY <1>5, <2>1, NoRecord DEF MeasuredTypeOK, Kept
<1> QED BY <1>4, <1>5

\* What a step that writes nothing leaves alone of the record and of the link.
LEMMA SilentFrame ==
  ASSUME TypeOK, [MeasuredNext]_measured, ~Arms, ~BaselineStep, ~SampleStep,
         ~FinalSampleStep, ~SshStep, ~ChunkStep, ~FailureStep, ~FinalSupplyStep
  PROVE  /\ UNCHANGED <<reference, errors, lastUp, dropped, baseline>>
         /\ \A w \in {"carrier", "serial", "net"} : ready'[w] = ready[w]
         /\ UNCHANGED measuredVars
         /\ \A k : Kept(k)
<1>1. CASE Silent
  <2>1. UNCHANGED measuredVars BY <1>1 DEF Silent
  <2>2. UNCHANGED <<reference, errors, lastUp, dropped, baseline>>
        /\ \A w \in {"carrier", "serial", "net"} : ready'[w] = ready[w]
    <3> USE DEF SetupUnchanged, VerdictUnchanged, recordVars, carrierVars, Step,
                WorkerUnchanged, ProbeUnchanged
    <3>1. CASE MainSetup
      BY <3>1 DEF MainSetup, Resolve, Identify, InitialSupply, StartWorker, Started,
                  PowerOff, VerifyOff, Dwell, ColdCheck, CheckStop, Requery
    <3>2. CASE EnterPowerSection \/ WriteOn \/ VerifyOn \/ Decide
      BY <3>2 DEF EnterPowerSection, WriteOn, VerifyOn, Decide
    <3>3. CASE WaitEnds \/ ReadMissing \/ ReadFinalUp \/ Verdict \/ Interrupt
               \/ Finally \/ Join \/ FinalUpCheck \/ Finish
      BY <3>3 DEF WaitEnds, ReadMissing, ReadFinalUp, Verdict, Interrupt, Finally,
                  Join, FinalUpCheck, Finish
    <3>4. CASE CarrierEnters \/ CarrierReadFails \/ CarrierCommits \/ SerialReads
               \/ SerialReadFails \/ CheckStopAgain
      BY <3>4 DEF CarrierEnters, CarrierReadFails, CarrierCommits, SerialReads,
                  SerialReadFails, CheckStopAgain
    <3>5. CASE \E w \in Network : ProbeBegins(w) \/ ProbeEnds(w)
      BY <3>5 DEF ProbeBegins, ProbeEnds
    <3>6. CASE ProbeMarks("http")
      BY <3>6 DEF ProbeMarks, MarkReady, TypeOK, Workers
    <3>7. CASE \/ \E w \in Workers : Leave(w)
               \/ \E w \in Failing : SetStop(w)
      BY <3>7 DEF Leave, SetStop
    <3>8. CASE Tick \/ OutputLost \/ Terminated
      BY <3>8 DEF Tick, OutputLost, Terminated, vars
    <3> QED BY <1>1, <3>1, <3>2, <3>3, <3>4, <3>5, <3>6, <3>7, <3>8 DEF Silent
  <2> QED BY <2>1, <2>2 DEF measuredVars, Kept, Keeps
<1>2. CASE UNCHANGED measured
  BY <1>2 DEF measured, measuredVars, vars, recordVars, carrierVars, Kept, Keeps
<1> QED BY <1>1, <1>2 DEF MeasuredNext

LEMMA SampledType ==
  ASSUME TypeOK, MeasuredTypeOK, NEW b \in Times, Sampled(b)
  PROVE  sampling' \in [count : Nat, gap : Nat, read : Nat, since : Times, last : Times]
<1> DEFINE Larger(x, y) == IF x > y THEN x ELSE y
<1>1. \A x \in Nat, y \in Int : Larger(x, y) \in Nat
  OBVIOUS
<1>2. now \in Nat /\ sampling.count \in Nat /\ sampling.gap \in Nat
      /\ sampling.read \in Nat /\ sampling.since \in Int
  BY DEF TypeOK, MeasuredTypeOK, Times, NoTime
<1>3. now - b \in Int /\ now - sampling.since \in Int
  BY <1>2 DEF Times, NoTime
<1>4. /\ Larger(sampling.gap, now - sampling.since) \in Nat
      /\ Larger(sampling.read, now - b) \in Nat
  BY <1>1, <1>2, <1>3
<1>5. CASE reference = NoTime
  BY <1>2, <1>5 DEF Sampled, MeasuredTypeOK, Times
<1>6. CASE reference # NoTime
  <2>1. sampling' = [count |-> sampling.count + 1,
                     gap   |-> Larger(sampling.gap, now - sampling.since),
                     read  |-> Larger(sampling.read, now - b),
                     since |-> now, last |-> now]
    BY <1>6 DEF Sampled
  <2> HIDE DEF Larger
  <2> QED BY <1>2, <1>4, <2>1 DEF Times
<1> QED BY <1>5, <1>6

LEMMA MeasuredTypeStep ==
  ASSUME TypeOK, MeasuredTypeOK, [MeasuredNext]_measured
  PROVE  MeasuredTypeOK'
<1> DEFINE S == [count : Nat, gap : Nat, read : Nat, since : Times, last : Times]
<1>a. now \in Times /\ begun["carrier"] \in Times /\ sampling \in S /\ supplyFault \in BOOLEAN
  BY DEF TypeOK, MeasuredTypeOK, Workers, Times
<1> SUFFICES timeline' \in Seq(Entries) /\ sampling' \in S /\ supplyFault' \in BOOLEAN
  BY DEF MeasuredTypeOK
<1>1. CASE Arms
  <2>1. reference' \in Times
    BY <1>1 DEF Arms, PublishReference, ArmUnknown, Arm, TypeOK, Times
  <2>2. sampling' \in S
    BY <1>1, <1>a, <2>1 DEF Arms
  <2> QED BY <1>1, <1>a, <2>2, ArmsWrites DEF Arms
<1>2. CASE BaselineStep
  BY <1>2, <1>a, BaselineWrites, SampledType DEF BaselineStep
<1>3. CASE SampleStep BY <1>3, <1>a, SampleWrites, SampledType DEF SampleStep
<1>4. CASE FinalSampleStep
  BY <1>4, <1>a, FinalSampleWrites, SampledType DEF FinalSampleStep
<1>5. CASE SshStep BY <1>5, <1>a, SshWrites DEF SshStep
<1>6. CASE ChunkStep BY <1>6, <1>a, ChunkWrites DEF ChunkStep
<1>7. CASE FailureStep BY <1>7, <1>a, FailureWrites DEF FailureStep, ErrorWritten
<1>8. CASE FinalSupplyStep
  BY <1>8, <1>a, FinalSupplyWrites DEF FinalSupplyStep, ErrorWritten
<1>9. CASE /\ ~Arms /\ ~BaselineStep /\ ~SampleStep /\ ~FinalSampleStep
           /\ ~SshStep /\ ~ChunkStep /\ ~FailureStep /\ ~FinalSupplyStep
  BY <1>9, SilentFrame DEF measuredVars, MeasuredTypeOK
<1> QED BY <1>1, <1>2, <1>3, <1>4, <1>5, <1>6, <1>7, <1>8, <1>9

(***************************************************************************)
(* Which steps write the records of each kind.                             *)
(***************************************************************************)
LEMMA ReferenceWritten ==
  ASSUME TypeOK, MeasuredTypeOK, [MeasuredNext]_measured
  PROVE  \/ /\ Arms
            /\ New([event |-> "reference_started", t |-> reference',
                    label |-> IF main = "arm" THEN Summary!Power ELSE "capture_start"])
         \/ reference' = reference /\ Kept("reference_started")
<1>1. CASE Arms BY <1>1, ArmsWrites
<1>2. CASE BaselineStep
  BY <1>2, BaselineWrites DEF BaselineStep, TakeBaseline, recordVars
<1>3. CASE SampleStep
  BY <1>3, SampleWrites DEF SampleStep, CarrierReads, WorkerUnchanged
<1>4. CASE FinalSampleStep
  BY <1>4, FinalSampleWrites DEF FinalSampleStep, FinalSample
<1>5. CASE SshStep
  BY <1>5, SshWrites DEF SshStep, ProbeMarks, ProbeUnchanged, WorkerUnchanged
<1>6. CASE ChunkStep
  BY <1>6, ChunkWrites DEF ChunkStep, SerialRecords, WorkerUnchanged
<1>7. CASE FailureStep
  BY <1>7, FailureWrites DEF FailureStep, RecordFailure, Handle, WorkerUnchanged,
                             ErrorWritten
<1>8. CASE FinalSupplyStep
  BY <1>8, FinalSupplyWrites DEF FinalSupplyStep, FinalSupply, ErrorWritten
<1>9. CASE /\ ~Arms /\ ~BaselineStep /\ ~SampleStep /\ ~FinalSampleStep
           /\ ~SshStep /\ ~ChunkStep /\ ~FailureStep /\ ~FinalSupplyStep
  BY <1>9, SilentFrame
<1> QED BY <1>1, <1>2, <1>3, <1>4, <1>5, <1>6, <1>7, <1>8, <1>9

LEMMA ErrorsWritten ==
  ASSUME TypeOK, MeasuredTypeOK, [MeasuredNext]_measured
  PROVE  \/ errors' # {} /\ New(At("error", now))
         \/ errors' = errors /\ Kept("error")
<1>1. CASE Arms
  BY <1>1, ArmsWrites DEF Arms, PublishReference, ArmUnknown
<1>2. CASE BaselineStep
  BY <1>2, BaselineWrites DEF BaselineStep, TakeBaseline, recordVars
<1>3. CASE SampleStep
  BY <1>3, SampleWrites DEF SampleStep, CarrierReads, WorkerUnchanged
<1>4. CASE FinalSampleStep
  BY <1>4, FinalSampleWrites DEF FinalRead, FinalReadFails, Fail
<1>5. CASE SshStep
  BY <1>5, SshWrites DEF SshStep, ProbeMarks, ProbeUnchanged
<1>6. CASE ChunkStep
  BY <1>6, ChunkWrites DEF ChunkStep, SerialRecords
<1>7. CASE FailureStep
  BY <1>7, FailureWrites DEF FailureStep, RecordFailure, Handle, Fail, ErrorWritten
<1>8. CASE FinalSupplyStep
  BY <1>8, FinalSupplyWrites DEF FinalSupplyTaken, FinalSupplyFails, Fail,
                                 ErrorWritten
<1>9. CASE /\ ~Arms /\ ~BaselineStep /\ ~SampleStep /\ ~FinalSampleStep
           /\ ~SshStep /\ ~ChunkStep /\ ~FailureStep /\ ~FinalSupplyStep
  BY <1>9, SilentFrame
<1> QED BY <1>1, <1>2, <1>3, <1>4, <1>5, <1>6, <1>7, <1>8, <1>9

LEMMA SshWritten ==
  ASSUME TypeOK, MeasuredTypeOK, [MeasuredNext]_measured
  PROVE  \/ /\ ready["net"] = NoTime /\ ready'["net"] = now
            /\ New(At("ssh_banner_ready", now))
         \/ ready'["net"] = ready["net"] /\ Kept("ssh_banner_ready")
<1>a. \A v, b : RecordCarrier(v, b) => ready'["net"] = ready["net"]
  BY DEF RecordCarrier, MarkReady, TypeOK, Workers
<1>1. CASE Arms
  BY <1>1, ArmsWrites DEF Arms, PublishReference, ArmUnknown
<1>2. CASE BaselineStep
  BY <1>2, BaselineWrites DEF BaselineStep, TakeBaseline, recordVars
<1>3. CASE SampleStep BY <1>3, <1>a, SampleWrites
<1>4. CASE FinalSampleStep
  BY <1>4, <1>a, FinalSampleWrites DEF FinalRead, FinalReadFails
<1>5. CASE SshStep
  <2>1. /\ now \in Nat /\ begun["net"] \in Times /\ "net" \in Workers
        /\ MarkReady("net", now, begun["net"])
    BY <1>5 DEF SshStep, ProbeMarks, TypeOK, Workers
  <2>2. ready'["net"] = ready["net"] \/ (ready["net"] = NoTime /\ ready'["net"] = now)
    BY <2>1, MarkReadyOnly
  <2> QED BY <1>5, <2>2, SshWrites
<1>6. CASE ChunkStep
  <2>1. ready'["net"] = ready["net"]
    BY <1>6 DEF ChunkStep, SerialRecords, MarkReady, TypeOK, Workers
  <2> QED BY <1>6, <2>1, ChunkWrites
<1>7. CASE FailureStep
  BY <1>7, FailureWrites DEF FailureStep, RecordFailure, Handle, ErrorWritten
<1>8. CASE FinalSupplyStep
  BY <1>8, FinalSupplyWrites DEF FinalSupplyStep, FinalSupply, ErrorWritten
<1>9. CASE /\ ~Arms /\ ~BaselineStep /\ ~SampleStep /\ ~FinalSampleStep
           /\ ~SshStep /\ ~ChunkStep /\ ~FailureStep /\ ~FinalSupplyStep
  BY <1>9, SilentFrame
<1> QED BY <1>1, <1>2, <1>3, <1>4, <1>5, <1>6, <1>7, <1>8, <1>9

(***************************************************************************)
(* The reference, the errors and the banner in the timeline.               *)
(***************************************************************************)
Seen(k) == OfKind(timeline, k)

Unsent == BeforePower \cup {"baseline", "decide", "arm_unknown"}

\* The timeline has one record of the reference, once it is set, and its label
\* tells whether a power command was sent.
ReferenceRecorded ==
    /\ \A i \in Seen("reference_started") :
          /\ reference # NoTime /\ timeline[i].t = reference
          /\ timeline[i].label = Summary!Power <=> sentAt # NoTime
    /\ \A i, j \in Seen("reference_started") : i = j
    /\ reference # NoTime => Seen("reference_started") # {}
    /\ main \in Unsent => sentAt = NoTime

\* A verdict comes without errors; those that come later leave a record in the
\* window of the summary.
ErrorsRecorded ==
    /\ main \in AfterPower => reference # NoTime
    /\ status \in Summary!GoodStatuses =>
           main \in Concluding \cup {"done"} /\ reference # NoTime
    /\ status \in Summary!GoodStatuses /\ errors # {} =>
           \E i \in Seen("error") : reference <= timeline[i].t
    /\ errors = {} => Seen("error") = {}

SshRecorded ==
    /\ \A i \in Seen("ssh_banner_ready") :
          ready["net"] # NoTime /\ timeline[i].t = ready["net"]
    /\ ready["net"] # NoTime => Seen("ssh_banner_ready") # {}

\* The power command's stamp is taken once, before there is a reference, and
\* run waits only after that.
LEMMA SentFrame ==
  ASSUME [Next]_vars
  PROVE  /\ sentAt' # sentAt => main = "decide" /\ main' = "write"
         /\ main' \in AfterPower => main \in AfterPower \/ PublishReference \/ ArmUnknown
         /\ main' \in Unsent => main \in Unsent
<1> USE DEF Unsent, BeforePower, PowerSection, AfterPower, SetupUnchanged,
            VerdictUnchanged, Goto, Raise, mainVars
<1>1. CASE MainSetup
  BY <1>1, OptionsAssumption DEF MainSetup, Resolve, Identify, InitialSupply,
                                 StartWorker, Started,
              PowerOff, VerifyOff, Dwell, ColdCheck, CheckStop, Requery
<1>2. CASE MainPower
  BY <1>2 DEF MainPower, EnterPowerSection, TakeBaseline, Decide, WriteOn,
              PublishReference, VerifyOn, ArmUnknown
<1>3. CASE MainVerdict
  BY <1>3 DEF MainVerdict, WaitEnds, ReadMissing, ReadFinalUp, Verdict, Handle
<1>4. CASE MainFinally
  BY <1>4 DEF MainFinally, Finally, Join, FinalSample, FinalUpCheck, FinalSupply,
              Finish
<1>5. CASE Interrupt BY <1>5 DEF Interrupt
<1>6. CASE Others
  <2>1. UNCHANGED mainVars
    BY <1>6 DEF Others, Carrier, CarrierEnters, CarrierReads, CarrierReadFails,
                CarrierCommits, Serial, SerialReads, SerialReadFails, SerialRecords,
                Probe, ProbeBegins, ProbeEnds, ProbeMarks, CheckStopAgain, Leave,
                RecordFailure, SetStop, Tick, WorkerUnchanged, ProbeUnchanged
  <2> QED BY <1>6, <2>1, SupplyFrame
<1>7. CASE OutputLost \/ UNCHANGED vars BY <1>7 DEF OutputLost, vars
<1> QED BY <1>1, <1>2, <1>3, <1>4, <1>5, <1>6, <1>7 DEF Next, Main, Others, Terminated

\* A good status comes from the verdict, and is only revised to another one.
LEMMA StatusFrame ==
  ASSUME [Next]_vars, status' \in Summary!GoodStatuses,
         status \in Summary!GoodStatuses => main \in Concluding \cup {"done"}
  PROVE  /\ main' \in Concluding \cup {"done"}
         /\ \/ status \in Summary!GoodStatuses
            \/ main = "verdict" /\ errors = {} /\ errors' = {} /\ reference' = reference
<1> USE DEF Summary!GoodStatuses, BeforePower, PowerSection, AfterPower,
            SetupUnchanged,
            VerdictUnchanged, Goto, Raise, mainVars, recordVars, Concluding
<1>1. CASE MainSetup
  BY <1>1 DEF MainSetup, Resolve, Identify, InitialSupply, StartWorker, Started,
              PowerOff, VerifyOff, Dwell, ColdCheck, CheckStop, Requery
<1>2. CASE MainPower
  BY <1>2 DEF MainPower, EnterPowerSection, TakeBaseline, Decide, WriteOn,
              PublishReference, VerifyOn, ArmUnknown
<1>3. CASE MainVerdict
  BY <1>3 DEF MainVerdict, WaitEnds, ReadMissing, ReadFinalUp, Verdict, Handle
<1>4. CASE MainFinally
  BY <1>4 DEF MainFinally, Finally, Join, FinalSample, FinalRead, FinalReadFails,
              FinalUpCheck, FinalSupply, FinalSupplyTaken, FinalSupplyFails, Finish
<1>5. CASE Interrupt BY <1>5 DEF Interrupt, TryBlock
<1>6. CASE Others
  BY <1>6, SupplyFrame
<1>7. CASE OutputLost \/ UNCHANGED vars BY <1>7 DEF OutputLost, vars
<1> QED BY <1>1, <1>2, <1>3, <1>4, <1>5, <1>6, <1>7 DEF Next, Main, Others, Terminated

LEMMA ReferenceStep ==
  ASSUME IInv, MeasuredTypeOK, ReferenceRecorded, [MeasuredNext]_measured
  PROVE  ReferenceRecorded'
<1>a. [Next]_vars BY MeasuredStep
<1>b. TypeOK /\ PowerInv BY DEF IInv
<1>1. main' \in Unsent => sentAt' = NoTime
  BY <1>a, SentFrame DEF ReferenceRecorded, Unsent, BeforePower
<1>2. CASE reference' = reference /\ Kept("reference_started")
  <2>1. sentAt' # sentAt => reference = NoTime
    BY <1>a, <1>b, SentFrame DEF PowerInv, PowerSection
  <2>2. Seen("reference_started")' = Seen("reference_started")
    BY <1>2 DEF Kept, Keeps, Seen
  <2>3. \A i \in Seen("reference_started") : timeline'[i] = timeline[i]
    BY <1>2 DEF Kept, Keeps, Seen
  <2> QED BY <1>1, <1>2, <2>1, <2>2, <2>3 DEF ReferenceRecorded
<1>3. ASSUME Arms, NEW e, New(e), e.event = "reference_started", e.t = reference',
             e.label = IF main = "arm" THEN Summary!Power ELSE "capture_start"
      PROVE  ReferenceRecorded'
  <2>1. reference = NoTime
    BY <1>3, <1>b DEF Arms, PublishReference, ArmUnknown, PowerInv, PowerSection
  <2>2. Seen("reference_started") = {}
    BY <2>1 DEF ReferenceRecorded
  <2>3. PICK n \in Nat : Seen("reference_started")' = {n} /\ timeline'[n] = e
    BY <1>3, <2>2 DEF New, Gains, Seen
  <2>4. reference' # NoTime
    BY <1>3, <1>b DEF Arms, PublishReference, ArmUnknown, Arm, PowerInv, TypeOK,
                      NoTime
  <2>5. sentAt' = sentAt /\ (main = "arm" <=> sentAt # NoTime)
    BY <1>3, <1>b DEF Arms, PublishReference, ArmUnknown, mainVars, PowerInv,
                      ReferenceRecorded, Unsent
  <2>6. "capture_start" # Summary!Power
    BY DEF Summary!Power
  <2> QED BY <1>1, <1>3, <2>3, <2>4, <2>5, <2>6 DEF ReferenceRecorded
<1> DEFINE e == [event |-> "reference_started", t |-> reference',
                 label |-> IF main = "arm" THEN Summary!Power ELSE "capture_start"]
<1>4. /\ e.event = "reference_started" /\ e.t = reference'
      /\ e.label = IF main = "arm" THEN Summary!Power ELSE "capture_start"
  OBVIOUS
<1>5. Arms /\ New(e) => ReferenceRecorded'
  <2> HIDE DEF e
  <2> QED BY <1>3, <1>4
<1> QED BY <1>b, <1>2, <1>5, ReferenceWritten

LEMMA ErrorsStep ==
  ASSUME IInv, MeasuredTypeOK, ErrorsRecorded, [MeasuredNext]_measured
  PROVE  ErrorsRecorded'
<1>a. [Next]_vars BY MeasuredStep
<1>b. TypeOK /\ PowerInv /\ ClockInv BY DEF IInv
<1>1. status \in Summary!GoodStatuses => reference' = reference /\ reference # NoTime
  BY <1>b, ReferenceWritten
  DEF ErrorsRecorded, Arms, PublishReference, ArmUnknown, Concluding
<1>2. main' \in AfterPower => reference' # NoTime
  <2>1. CASE reference' = reference /\ ~PublishReference /\ ~ArmUnknown
    BY <1>a, <2>1, SentFrame DEF ErrorsRecorded
  <2>2. PublishReference \/ ArmUnknown => reference' # NoTime
    BY <1>b DEF PublishReference, ArmUnknown, Arm, PowerInv, TypeOK, NoTime
  <2> QED BY <1>b, <2>1, <2>2, ReferenceWritten DEF Arms
<1>3. status' \in Summary!GoodStatuses =>
         main' \in Concluding \cup {"done"} /\ reference' # NoTime
  <2>1. status \in Summary!GoodStatuses => main \in Concluding \cup {"done"}
    BY DEF ErrorsRecorded
  <2>2. main = "verdict" => reference # NoTime
    BY DEF ErrorsRecorded, AfterPower
  <2> QED BY <1>a, <1>1, <2>1, <2>2, StatusFrame
<1>4. CASE errors' # {} /\ New(At("error", now))
  <2>1. PICK n \in Nat : n \in Seen("error")' /\ timeline'[n] = At("error", now)
    BY <1>4 DEF New, Gains, Seen, At
  <2>2. timeline'[n].t = now
    BY <2>1 DEF At
  <2>3. status' \in Summary!GoodStatuses => reference' <= now
    <3>1. reference <= now BY <1>b DEF ClockInv
    <3>2. status \in Summary!GoodStatuses => main \in Concluding \cup {"done"}
      BY DEF ErrorsRecorded
    <3> QED BY <1>a, <1>1, <3>1, <3>2, StatusFrame
  <2> QED BY <1>2, <1>3, <1>4, <2>1, <2>2, <2>3 DEF ErrorsRecorded
<1>5. CASE errors' = errors /\ Kept("error")
  <2>1. Seen("error")' = Seen("error")
        /\ \A i \in Seen("error") : timeline'[i] = timeline[i]
    BY <1>5 DEF Kept, Keeps, Seen
  <2>2. status' \in Summary!GoodStatuses /\ errors' # {} =>
            status \in Summary!GoodStatuses /\ reference' = reference
    <3>1. status \in Summary!GoodStatuses => main \in Concluding \cup {"done"}
      BY DEF ErrorsRecorded
    <3> QED BY <1>a, <1>1, <3>1, StatusFrame
  <2> QED BY <1>2, <1>3, <1>5, <2>1, <2>2 DEF ErrorsRecorded
<1> QED BY <1>b, <1>4, <1>5, ErrorsWritten

LEMMA SshStepKeeps ==
  ASSUME IInv, MeasuredTypeOK, SshRecorded, [MeasuredNext]_measured
  PROVE  SshRecorded'
<1>a. TypeOK BY DEF IInv
<1>1. CASE ready'["net"] = ready["net"] /\ Kept("ssh_banner_ready")
  <2>1. Seen("ssh_banner_ready")' = Seen("ssh_banner_ready")
        /\ \A i \in Seen("ssh_banner_ready") : timeline'[i] = timeline[i]
    BY <1>1 DEF Kept, Keeps, Seen
  <2> QED BY <1>1, <2>1 DEF SshRecorded
<1>2. CASE /\ ready["net"] = NoTime /\ ready'["net"] = now
           /\ New(At("ssh_banner_ready", now))
  <2>1. Seen("ssh_banner_ready") = {}
    BY <1>2 DEF SshRecorded
  <2>2. PICK n \in Nat : Seen("ssh_banner_ready")' = {n}
                         /\ timeline'[n] = At("ssh_banner_ready", now)
    BY <1>2, <2>1 DEF New, Gains, Seen, At
  <2>3. timeline'[n].t = now
    BY <2>2 DEF At
  <2>4. now # NoTime
    BY <1>a DEF TypeOK, NoTime
  <2> QED BY <1>2, <2>2, <2>3, <2>4 DEF SshRecorded
<1> QED BY <1>a, <1>1, <1>2, SshWritten


(***************************************************************************)
(* What a summary reads from the timeline.                                 *)
(***************************************************************************)
LEMMA OneElement ==
  ASSUME NEW S, Summary!Cardinality(S) = 1
  PROVE  S # {}
<1>1. Summary!Cardinality(S) = Cardinality(S)
  BY Zenon DEF Summary!Cardinality, Cardinality
<1> QED BY <1>1, FS_EmptySet

\* Without an end the window holds every record from its start on.
LEMMA PlacesAre ==
  ASSUME MeasuredTypeOK, NEW k, NEW start
  PROVE  Summary!Places(timeline, k, start, NoTime)
             = {i \in Seen(k) : start <= timeline[i].t}
<1>1. DOMAIN timeline = 1..Len(timeline)
  <2> HIDE DEF Entries
  <2> QED BY DEF MeasuredTypeOK
<1> QED BY <1>1 DEF Summary!Places, Seen, OfKind, NoTime, Summary!None

Window == Summary!ReferenceWindow(Metadata, timeline)

\* A window is that from the reference on, or is refused.
LEMMA WindowIs ==
  ASSUME TypeOK, MeasuredTypeOK, ReferenceRecorded
  PROVE  \/ Window = [refused |-> TRUE, start |-> NoTime, end |-> NoTime]
         \/ /\ Window = [refused |-> FALSE, start |-> reference, end |-> NoTime]
            /\ reference # NoTime
<1> DEFINE references == Summary!Places(timeline, "reference_started", NoTime, NoTime)
           matches == {i \in references :
                         /\ timeline[i].label = Summary!Power
                         /\ Metadata.reference \in {NoTime, timeline[i].t}}
           start == timeline[CHOOSE i \in matches : TRUE].t
           later == {t \in Summary!Stamps(timeline, references) : t > start}
           refused == \/ Summary!Cardinality(matches) # 1
                      \/ (Metadata.reference # NoTime /\ Metadata.label # Summary!Power)
<1>1. Window = IF refused
               THEN [refused |-> TRUE, start |-> NoTime, end |-> NoTime]
               ELSE [refused |-> FALSE, start |-> start, end |-> Summary!FirstOf(later)]
  BY DEF Window, Summary!ReferenceWindow, Summary!None, NoTime
<1>2. references \subseteq Seen("reference_started")
  BY PlacesAre
<1>3. ASSUME ~refused
      PROVE  start = reference /\ reference # NoTime /\ later = {}
  <2>1. matches # {} BY <1>3, OneElement
  <2>2. (CHOOSE i \in matches : TRUE) \in Seen("reference_started")
    BY <1>2, <2>1
  <2>3. start = reference /\ reference # NoTime
    BY <2>2 DEF ReferenceRecorded
  <2>4. \A t \in Summary!Stamps(timeline, references) : t = reference
    BY <1>2 DEF Summary!Stamps, ReferenceRecorded
  <2>5. ~(reference > reference) BY DEF TypeOK, Times, NoTime
  <2> QED BY <2>3, <2>4, <2>5
<1>4. Summary!FirstOf({}) = NoTime
  BY DEF Summary!FirstOf, Summary!None, NoTime
<1> HIDE DEF references, matches, start, later, refused
<1> QED BY <1>1, <1>3, <1>4

WindowChunks == Summary!Places(timeline, "uart_received", Window.start, Window.end)
WindowText   == Summary!Pieces(timeline, WindowChunks)
SecondBoot   == Summary!FirstOf({Summary!Stamp(timeline, q) :
                                   q \in Summary!Restarts(timeline, WindowText)})
WindowEnd    == IF SecondBoot = NoTime THEN Window.end ELSE SecondBoot
SshSeen      == Summary!SshBanner(Metadata, timeline, Window.start, WindowEnd)
CarrierSeen  == Summary!CarrierObservations(Metadata, timeline, Window.start, WindowEnd)

\* What is observed, and what an eligible report rests on.
LEMMA ReportIs ==
  /\ \/ Report.observations = Summary!Unobserved
     \/ /\ ~Window.refused
        /\ Report.observations =
              [os |-> Summary!MarkerTime(timeline, Summary!FirstBoot(timeline, WindowText)),
               ssh |-> SshSeen.time,
               carrier |-> IF "carrier" \in Enabled THEN CarrierSeen.first ELSE NoTime]
  /\ Summary!Eligible(Report) =>
        /\ status \in Summary!GoodStatuses
        /\ ~Window.refused
        /\ ~Summary!ErrorEvents(timeline, Window.start, Window.end)
        /\ SecondBoot = NoTime
        /\ ~SshSeen.clash
        /\ "carrier" \in Enabled => ~CarrierSeen.refused
        /\ Report.observations =
              [os |-> Summary!MarkerTime(timeline, Summary!FirstBoot(timeline, WindowText)),
               ssh |-> SshSeen.time,
               carrier |-> IF "carrier" \in Enabled THEN CarrierSeen.first ELSE NoTime]
        /\ Report.link = CarrierSeen
  /\ /\ status \in Summary!GoodStatuses
     /\ ~Window.refused
     /\ ~Summary!UartGap(timeline, WindowChunks)
     /\ ~Summary!ErrorEvents(timeline, Window.start, Window.end)
     /\ ~supplyFault
     /\ SecondBoot = NoTime
     /\ ~SshSeen.clash
     /\ "carrier" \in Enabled => ~CarrierSeen.refused
     => Summary!Eligible(Report)
<1>1. Metadata.status = status /\ Metadata.supplyFault = supplyFault
      /\ Metadata.observed = ("carrier" \in Enabled)
  BY DEF Metadata
<1>2. Summary!None = NoTime BY DEF Summary!None, NoTime
<1> USE DEF Summary!Eligible, Summary!Issue
<1> DEFINE ok == status \in Summary!GoodStatuses
           gap == Summary!UartGap(timeline, WindowChunks)
           errs == Summary!ErrorEvents(timeline, Window.start, Window.end)
           sec == Summary!MarkerTime(timeline, Summary!FirstBoot(timeline, WindowText))
           stat == Summary!Issue(~ok, "capture_not_completed_cleanly")
           known == stat
                    \cup Summary!Issue(errs, "capture_error_event")
                    \cup Summary!Issue(supplyFault, "supply_fault")
           issues == known
                   \cup Summary!Issue(SecondBoot # NoTime, "multiple_kernel_boots_in_reference_window")
                   \cup Summary!Issue(SshSeen.clash, "ssh_definition_or_timestamp_conflict")
                   \cup Summary!Issue("carrier" \in Enabled /\ CarrierSeen.refused, "carrier_refused")
<1>3. Report = IF Window.refused
        THEN [issues |-> stat \cup {"reference_refused"}, observations |-> Summary!Unobserved]
        ELSE IF gap
        THEN [issues |-> known \cup {"uart_capture_gap"}, observations |-> Summary!Unobserved]
        ELSE [issues |-> issues,
              observations |-> [os |-> sec, ssh |-> SshSeen.time,
                  carrier |-> IF "carrier" \in Enabled THEN CarrierSeen.first ELSE NoTime],
              link |-> CarrierSeen]
  BY <1>1, <1>2, Zenon DEF Report, Summary!SummarizeRun, Window, WindowChunks,
                           WindowText,
     SecondBoot, WindowEnd, SshSeen, CarrierSeen
<1> QED BY <1>3

LEMMA PiecesAre ==
  ASSUME MeasuredTypeOK, NEW start,
         NEW p \in Summary!Pieces(timeline, Summary!Places(timeline, "uart_received", start, NoTime))
  PROVE  /\ p[1] \in Seen("uart_received") /\ start <= timeline[p[1]].t
         /\ Summary!Stamp(timeline, p) = timeline[p[1]].t
         /\ timeline[p[1]].t \in Times
         /\ p[2] \in DOMAIN timeline[p[1]].text
<1> DEFINE chunks == {i \in Seen("uart_received") : start <= timeline[i].t}
<1>1. p \in UNION {{k} \X DOMAIN timeline[k].text : k \in chunks}
  BY PlacesAre DEF Summary!Pieces
<1>2. PICK k \in chunks : p \in {k} \X DOMAIN timeline[k].text
  BY <1>1
<1> QED BY <1>2, ChunksAre DEF Seen, OfKind, Summary!Stamp

LEMMA PlacesBefore ==
  ASSUME MeasuredTypeOK, NEW k, NEW start \in Nat, NEW end \in Nat
  PROVE  /\ Summary!Places(timeline, k, start, end)
               = {i \in Seen(k) : start <= timeline[i].t /\ timeline[i].t < end}
         /\ Summary!Stamps(timeline, Summary!Places(timeline, k, start, end)) \subseteq start..(end - 1)
<1>1. DOMAIN timeline = 1..Len(timeline)
  <2> HIDE DEF Entries
  <2> QED BY DEF MeasuredTypeOK
<1>2. end # NoTime BY DEF NoTime
<1>3. Summary!Places(timeline, k, start, end)
         = {i \in Seen(k) : start <= timeline[i].t /\ timeline[i].t < end}
  BY <1>1, <1>2 DEF Summary!Places, Seen, OfKind, NoTime, Summary!None
<1>4. \A i \in Seen(k) : timeline[i].t \in Times
  BY ChunksAre DEF Seen, OfKind
<1> QED BY <1>3, <1>4 DEF Summary!Stamps, Times, NoTime

LEMMA BeforeIsEarlier ==
  ASSUME NEW p, NEW q, timeline[p[1]].t \in Times, timeline[q[1]].t \in Times,
         Summary!Before(timeline, p, q)
  PROVE  Summary!Stamp(timeline, p) <= Summary!Stamp(timeline, q)
BY DEF Summary!Before, Summary!Precedes, Summary!Stamp, Times, NoTime

LEMMA FirstOfTimes ==
  ASSUME NEW S, S \subseteq Nat
  PROVE  /\ S = {} => Summary!FirstOf(S) = NoTime
         /\ S # {} => Summary!FirstOf(S) \in S /\ \A t \in S : Summary!FirstOf(S) <= t
BY Least DEF Summary!FirstOf, Summary!None, NoTime

\* What a window with an end reports was seen before that.
LEMMA BannerBefore ==
  ASSUME TypeOK, MeasuredTypeOK, NEW end \in Nat, WindowEnd = end,
         Window.start \in Nat
  PROVE  SshSeen.time \in -1..end
<1> DEFINE seen == Summary!FirstOf(Summary!Stamps(timeline,
                     Summary!Places(timeline, "ssh_banner_ready", Window.start, end)))
           noted == IF /\ Metadata.readiness.ssh_banner >= Window.start
                       /\ end = NoTime \/ Metadata.readiness.ssh_banner < end
                    THEN Metadata.readiness.ssh_banner ELSE NoTime
<1>1. seen \in -1..end
  <2> DEFINE S == Summary!Stamps(timeline,
                     Summary!Places(timeline, "ssh_banner_ready", Window.start, end))
  <2>1. S \subseteq Window.start..(end - 1)
    BY PlacesBefore
  <2> HIDE DEF S
  <2>2. S \subseteq Nat /\ S \subseteq -1..end
    BY <2>1
  <2>3. Summary!FirstOf(S) \in S \/ Summary!FirstOf(S) = NoTime
    BY <2>2, FirstOfTimes
  <2>4. Summary!FirstOf(S) \in -1..end
    <3>1. NoTime \in -1..end BY DEF NoTime
    <3> QED BY <2>2, <2>3, <3>1, Zenon
  <2> QED BY <2>4 DEF S
<1>2. noted \in -1..end
  <2>1. Metadata.readiness.ssh_banner \in Times
    BY DEF Metadata, TypeOK, Workers
  <2>2. end # NoTime BY DEF NoTime
  <2> HIDE DEF Metadata
  <2> QED BY <2>1, <2>2 DEF Times, NoTime
<1>3. SshSeen.time \in {seen, noted, NoTime}
  BY DEF SshSeen, Summary!SshBanner, Summary!None, NoTime
<1> QED BY <1>1, <1>2, <1>3 DEF NoTime

LEMMA CarrierBefore ==
  ASSUME TypeOK, MeasuredTypeOK, NEW end \in Nat, WindowEnd = end,
         Window.start \in Nat
  PROVE  CarrierSeen.first \in -1..end
<1> DEFINE first == Metadata.readiness.carrier
           moves == Summary!Places(timeline, "carrier_transition", Window.start, end)
           marks == Summary!Places(timeline, "carrier_ready", Window.start, end)
<1>1. \/ CarrierSeen.first = NoTime
      \/ CarrierSeen.first = first
           /\ Summary!ReadinessAgrees(timeline, marks, moves, first)
  BY DEF CarrierSeen, Summary!CarrierObservations, Summary!None, NoTime
<1>2. CASE Summary!ReadinessAgrees(timeline, marks, moves, first) /\ first # NoTime
  <2>1. Summary!Stamps(timeline, marks) = {first}
    BY <1>2 DEF Summary!ReadinessAgrees, Summary!None, NoTime
  <2>2. first \in Window.start..(end - 1)
    BY <2>1, PlacesBefore
  <2>3. first \in -1..end
    <3> HIDE DEF first
    <3> QED BY <2>2
  <2> QED BY <1>1, <2>3 DEF NoTime
<1> QED BY <1>1, <1>2 DEF NoTime

LEMMA MarkerBefore ==
  ASSUME MeasuredTypeOK, NEW start \in Nat
  PROVE  LET text == Summary!Pieces(timeline,
                        Summary!Places(timeline, "uart_received", start, NoTime))
             os   == Summary!MarkerTime(timeline, Summary!FirstBoot(timeline, text))
         IN  /\ os \in Times
             /\ \A q \in Summary!Restarts(timeline, text) : os <= Summary!Stamp(timeline, q)
<1> DEFINE text == Summary!Pieces(timeline,
                        Summary!Places(timeline, "uart_received", start, NoTime))
           early == Summary!FirstBoot(timeline, text)
           found == Summary!Markers(timeline, early)
           stamps == {Summary!Stamp(timeline, m[2]) : m \in found}
<1>1. found \subseteq early \X early /\ early \subseteq text
  BY DEF Summary!Markers, Summary!FirstBoot
<1>2. \A p \in text : Summary!Stamp(timeline, p) \in Nat
                      /\ Summary!Stamp(timeline, p) = timeline[p[1]].t
  BY PiecesAre DEF Times, NoTime
<1>3. stamps \subseteq Nat
  BY <1>1, <1>2
<1>4. Summary!MarkerTime(timeline, early) = Summary!FirstOf(stamps)
  BY DEF Summary!MarkerTime
<1>5. ASSUME NEW q \in Summary!Restarts(timeline, text), stamps # {}
      PROVE  Summary!FirstOf(stamps) <= Summary!Stamp(timeline, q)
  <2>1. PICK m \in found : TRUE
    BY <1>5
  <2>2. m[2] \in early
    BY <1>1, <2>1
  <2>3. Summary!Before(timeline, m[2], q) /\ q \in text
    BY <1>5, <2>2 DEF Summary!FirstBoot, Summary!Restarts
  <2>4. Summary!Stamp(timeline, m[2]) <= Summary!Stamp(timeline, q)
    BY <1>1, <1>2, <2>2, <2>3, BeforeIsEarlier DEF Times
  <2>5. /\ Summary!FirstOf(stamps) <= Summary!Stamp(timeline, m[2])
        /\ Summary!FirstOf(stamps) \in Nat /\ Summary!Stamp(timeline, m[2]) \in Nat
    <3>1. Summary!Stamp(timeline, m[2]) \in stamps
      BY <2>1
    <3> HIDE DEF stamps
    <3> QED BY <1>3, <1>5, <3>1, FirstOfTimes
  <2> QED BY <1>2, <2>3, <2>4, <2>5
<1>6. Summary!FirstOf(stamps) \in Times
      /\ (stamps = {} => Summary!FirstOf(stamps) = NoTime)
  <2> HIDE DEF stamps
  <2> QED BY <1>3, FirstOfTimes DEF Times
<1>7. \A q \in Summary!Restarts(timeline, text) : q \in text
  BY DEF Summary!Restarts
<1>8. \A q \in Summary!Restarts(timeline, text) :
         Summary!FirstOf(stamps) <= Summary!Stamp(timeline, q)
  BY <1>2, <1>5, <1>6, <1>7 DEF NoTime
<1> HIDE DEF stamps, found
<1> QED BY <1>4, <1>6, <1>8

(***************************************************************************)
(* The report of a capture.                                                *)
(***************************************************************************)
Recorded == MeasuredTypeOK /\ ReferenceRecorded /\ ErrorsRecorded /\ SshRecorded

LEMMA RecordedInit == MeasuredInit => Recorded
<1> SUFFICES ASSUME MeasuredInit PROVE Recorded
  OBVIOUS
<1> USE DEF MeasuredInit, Init, NoTime
<1>1. timeline \in Seq(Entries) /\ Len(timeline) = 0
  <2> HIDE DEF Entries
  <2> QED OBVIOUS
<1>2. \A k : Seen(k) = {}
  BY <1>1 DEF Seen, OfKind
<1>3. MeasuredTypeOK
  BY <1>1 DEF MeasuredTypeOK, Times
<1>4. ReferenceRecorded /\ ErrorsRecorded /\ SshRecorded
  BY <1>2 DEF ReferenceRecorded, ErrorsRecorded, SshRecorded, Summary!GoodStatuses,
              AfterPower, Workers
<1> QED BY <1>3, <1>4 DEF Recorded

LEMMA RecordedInvariance == MeasuredSpec => [](IInv /\ Recorded)
<1>1. IInv /\ Recorded /\ [MeasuredNext]_measured => Recorded'
  BY MeasuredTypeStep, ReferenceStep, ErrorsStep, SshStepKeeps DEF Recorded, IInv
<1> QED BY <1>1, RecordedInit, MeasuredRefines, Invariance, PTL DEF MeasuredSpec,
                                                                    measured

\* A published capture had no instrument failure and did not lose its output
\* (summarize_run with run's error paths): whatever failed after the verdict
\* left an error event in the window, or a status that is refused.
THEOREM PublishedSound == MeasuredSpec => []PublishedIsSound
<1>1. IInv /\ Recorded => PublishedIsSound
  <2> SUFFICES ASSUME IInv, Recorded, Published
               PROVE  errors = {} /\ ~lost /\ status \in Summary!GoodStatuses
    BY DEF PublishedIsSound
  <2>1. /\ status \in Summary!GoodStatuses /\ ~Window.refused
        /\ ~Summary!ErrorEvents(timeline, Window.start, Window.end)
    BY ReportIs DEF Published
  <2>2. Window.start = reference /\ Window.end = NoTime
    BY <2>1, WindowIs DEF IInv, Recorded
  <2>3. {i \in Seen("error") : reference <= timeline[i].t} = {}
    BY <2>1, <2>2, PlacesAre DEF Summary!ErrorEvents, Recorded
  <2>4. errors = {}
    BY <2>1, <2>3 DEF Recorded, ErrorsRecorded
  <2>5. ~lost
    BY <2>1 DEF IInv, SupplyInv, Published, Summary!GoodStatuses
  <2> QED BY <2>1, <2>4, <2>5
<1> QED BY <1>1, RecordedInvariance, PTL

\* A capture in whose window a second kernel banner arrived is not published,
\* and what its summary reports happened before that (summarize_run, lines
\* 153-154 and 269-300): the readiness of one boot is never combined with
\* that of another.
THEOREM FirstBootSound == MeasuredSpec => []FirstBootOnly
<1>1. IInv /\ Recorded => FirstBootOnly
  <2> SUFFICES ASSUME IInv, Recorded, main = "done", RebootSeen # {}
               PROVE  /\ ~Published
                      /\ \A o \in DOMAIN Report.observations, t \in RebootSeen :
                            Report.observations[o] <= t
    BY DEF FirstBootOnly
  <2>a. TypeOK /\ MeasuredTypeOK /\ ReferenceRecorded
    BY DEF IInv, Recorded
  <2> DEFINE chunks == Summary!Places(timeline, "uart_received", reference, NoTime)
             text   == Summary!Pieces(timeline, chunks)
             again  == Summary!Restarts(timeline, text)
  <2>b. RebootSeen = {Summary!Stamp(timeline, q) : q \in again}
    BY DEF RebootSeen, NoTime, Summary!None
  <2>c. again \subseteq text
    BY DEF Summary!Restarts
  <2>1. RebootSeen \subseteq Times
    BY <2>a, <2>b, <2>c, PiecesAre
  <2>2. CASE Window.refused
    <3>1. ~Summary!Eligible(Report) /\ Report.observations = Summary!Unobserved
      BY <2>2, ReportIs
    <3> QED BY <2>1, <3>1 DEF Published, Summary!Unobserved, Summary!None, Times,
                              NoTime
  <2>3. CASE ~Window.refused
    <3>1. Window.start = reference /\ Window.end = NoTime /\ reference \in Nat
      BY <2>3, <2>a, WindowIs DEF TypeOK, Times
    <3>2. WindowChunks = chunks /\ WindowText = text
      BY <3>1 DEF WindowChunks, WindowText
    <3>3. RebootSeen \subseteq Nat
      BY <2>a, <2>b, <2>c, <3>1, PiecesAre DEF Times, NoTime
    <3>4. SecondBoot = Summary!FirstOf(RebootSeen)
      BY <2>b, <3>2 DEF SecondBoot
    <3>5. SecondBoot \in Nat /\ \A t \in RebootSeen : SecondBoot <= t
      BY <3>3, <3>4, FirstOfTimes
    <3>6. WindowEnd = SecondBoot
      BY <3>5 DEF WindowEnd, NoTime
    <3>7. ~Summary!Eligible(Report)
      BY <3>5, ReportIs DEF NoTime
    <3>8. CASE Report.observations = Summary!Unobserved
      <4>1. \A o \in DOMAIN Report.observations : Report.observations[o] = NoTime
        BY <3>8 DEF Summary!Unobserved, Summary!None, NoTime
      <4>2. \A t \in RebootSeen : NoTime <= t
        BY <2>1 DEF Times, NoTime
      <4> QED BY <3>7, <4>1, <4>2 DEF Published
    <3>9. CASE Report.observations =
              [os |-> Summary!MarkerTime(timeline, Summary!FirstBoot(timeline, text)),
               ssh |-> SshSeen.time,
               carrier |-> IF "carrier" \in Enabled THEN CarrierSeen.first ELSE NoTime]
      <4>1. SshSeen.time \in -1..SecondBoot
        BY <2>a, <3>1, <3>5, <3>6, BannerBefore
      <4>2. CarrierSeen.first \in -1..SecondBoot
        BY <2>a, <3>1, <3>5, <3>6, CarrierBefore
      <4>3. Summary!MarkerTime(timeline, Summary!FirstBoot(timeline, text)) \in Times
            /\ \A t \in RebootSeen :
                 Summary!MarkerTime(timeline, Summary!FirstBoot(timeline, text)) <= t
        BY <2>a, <2>b, <2>1, <3>1, MarkerBefore
      <4>4. \A t \in RebootSeen : SshSeen.time <= t /\ CarrierSeen.first <= t /\ NoTime <= t
        BY <2>1, <3>5, <4>1, <4>2 DEF Times, NoTime
      <4>5. DOMAIN Report.observations = {"os", "ssh", "carrier"}
        BY <3>9
      <4> QED BY <3>7, <3>9, <4>3, <4>4, <4>5 DEF Published
    <3> QED BY <2>3, <3>2, <3>8, <3>9, ReportIs
  <2> QED BY <2>2, <2>3
<1> QED BY <1>1, RecordedInvariance, PTL

(***************************************************************************)
(* The link in the timeline.                                               *)
(***************************************************************************)
\* The transitions in the window, and the state the last of them recorded.
Moves   == {i \in Seen("carrier_transition") : reference # NoTime /\ reference <= timeline[i].t}
Current == IF worker["carrier"] = "commit" THEN sample ELSE lastState

\* Transitions are recorded in order, and those from before the reference are
\* not newer than the baseline.
MovesOrdered ==
    /\ \A i, j \in Seen("carrier_transition") : i < j => timeline[i].t <= timeline[j].t
    /\ \A i \in Seen("carrier_transition") : timeline[i].t <= now
    /\ reference = NoTime => \A i \in Seen("carrier_transition") : timeline[i].t <= baseline
    /\ main \in {"write", "arm"} => baseline < sentAt

\* The moves begin with the link going up, alternate, and end in what the
\* observer takes for the link's state.
MovesAlternate ==
    /\ reference # NoTime /\ Moves = {} => Current = "down"
    /\ \A i \in Moves : (\A j \in Moves : j <= i) => timeline[i].carrier = Current
    /\ \A i \in Moves : (\A j \in Moves : i <= j) => timeline[i].carrier = "up"
    /\ \A i, j \in Moves : i < j /\ (\A k \in Moves : k <= i \/ j <= k) =>
           timeline[i].carrier # timeline[j].carrier

\* What the observer derived from the moves as it went.
LinkDerived ==
    /\ reference = NoTime => lastUp = NoTime /\ ~dropped
    /\ lastUp = NoTime => \A i \in Moves : timeline[i].carrier = "down"
    /\ lastUp # NoTime =>
           /\ \E i \in Moves : timeline[i].carrier = "up" /\ timeline[i].t = lastUp
           /\ \A i \in Moves : timeline[i].carrier = "up" => timeline[i].t <= lastUp
    /\ ready["carrier"] = NoTime =>
           ~dropped /\ \A i \in Moves : timeline[i].t > reference + Duration
    /\ ready["carrier"] # NoTime =>
           /\ \A i \in Moves : ready["carrier"] <= timeline[i].t
           /\ \E i \in Moves : timeline[i].carrier = "up" /\ timeline[i].t = ready["carrier"]
           /\ dropped <=> \E i \in Moves : timeline[i].carrier = "down"

LinkRecorded == "carrier" \in Enabled => MovesOrdered /\ MovesAlternate /\ LinkDerived

LEMMA NowGrows ==
  ASSUME TypeOK, LockInv, [Next]_vars
  PROVE  now \in Nat /\ now' \in Nat /\ now <= now'
<1>1. CASE Main \/ Interrupt BY <1>1, MainFrame DEF TypeOK
<1>2. CASE ~Main /\ ~Interrupt BY <1>2, OthersFrame DEF MainKept, TypeOK
<1> QED BY <1>1, <1>2

\* Between the samples nothing changes what the observer takes for the state.
LEMMA CurrentFrame ==
  ASSUME TypeOK, [MeasuredNext]_measured, ~BaselineStep, ~SampleStep, ~FinalSampleStep
  PROVE  Current' = Current
<1> SUFFICES \/ UNCHANGED <<sample, lastState>>
                /\ (worker'["carrier"] = "commit" <=> worker["carrier"] = "commit")
             \/ CarrierCommits
  BY DEF Current, CarrierCommits, Step, TypeOK, Workers
<1> USE DEF SetupUnchanged, VerdictUnchanged, carrierVars, Step, WorkerUnchanged,
            ProbeUnchanged, TypeOK, Workers, Network, Failing
<1>1. CASE MainSetup
  <2>1. UNCHANGED <<sample, lastState>>
    BY <1>1 DEF MainSetup, Resolve, Identify, InitialSupply, StartWorker, Started,
                PowerOff, VerifyOff, Dwell, ColdCheck, CheckStop, Requery
  <2> QED BY <1>1, <2>1, MainFrame DEF Main
<1>2. CASE EnterPowerSection \/ WriteOn \/ VerifyOn \/ Decide \/ Arms
  BY <1>2 DEF EnterPowerSection, WriteOn, VerifyOn, Decide, Arms, PublishReference,
              ArmUnknown
<1>3. CASE WaitEnds \/ ReadMissing \/ ReadFinalUp \/ Verdict \/ Interrupt
           \/ Finally \/ Join \/ FinalUpCheck \/ Finish \/ FinalSupplyStep
  BY <1>3 DEF WaitEnds, ReadMissing, ReadFinalUp, Verdict, Interrupt, Finally,
              Join, FinalUpCheck, Finish, FinalSupplyStep, FinalSupply
<1>4. CASE CarrierEnters \/ CarrierReadFails \/ SerialReads \/ SerialReadFails
           \/ CheckStopAgain \/ ChunkStep
  BY <1>4 DEF CarrierEnters, CarrierReadFails, SerialReads, SerialReadFails,
              CheckStopAgain, ChunkStep, SerialRecords
<1>5. CASE SshStep \/ \E w \in Network : ProbeBegins(w) \/ ProbeEnds(w) \/ ProbeMarks(w)
  BY <1>5 DEF SshStep, ProbeBegins, ProbeEnds, ProbeMarks
<1>6. CASE \/ \E w \in Workers : Leave(w)
           \/ \E w \in Failing : SetStop(w)
           \/ FailureStep
  BY <1>6 DEF Leave, SetStop, FailureStep, RecordFailure, Handle
<1>7. CASE Tick \/ OutputLost \/ Terminated \/ UNCHANGED measured
  BY <1>7 DEF Tick, OutputLost, Terminated, vars, measured
<1>8. ProbeMarks("http") => \E w \in Network : ProbeMarks(w)
  OBVIOUS
<1> QED BY <1>1, <1>2, <1>3, <1>4, <1>5, <1>6, <1>7, <1>8, Zenon DEF MeasuredNext,
                                                                     Silent

\* The baseline is taken once, and the power command's stamp is newer.
LEMMA PowerFrame ==
  ASSUME TypeOK, LockInv, [MeasuredNext]_measured
  PROVE  /\ main' \in {"write", "arm"} =>
                \/ baseline' < sentAt'
                \/ main \in {"write", "arm"} /\ UNCHANGED <<sentAt, baseline>>
         /\ (BaselineStep /\ TakeBaseline) \/ baseline' = baseline
<1>a. [Next]_vars BY MeasuredStep
<1>b. now \in Nat /\ baseline \in Times BY DEF TypeOK
<1> USE DEF SetupUnchanged, VerdictUnchanged, Goto, Raise, mainVars, carrierVars
<1>1. CASE MainSetup
  BY <1>1, OptionsAssumption
  DEF MainSetup, Resolve, Identify, InitialSupply, StartWorker, Started, PowerOff,
      VerifyOff, Dwell, ColdCheck, CheckStop, Requery
<1>2. CASE EnterPowerSection \/ WriteOn \/ PublishReference \/ VerifyOn \/ ArmUnknown
  BY <1>2 DEF EnterPowerSection, WriteOn, PublishReference, VerifyOn, ArmUnknown
<1>3. CASE Decide /\ now > baseline
  <2>1. baseline' = baseline /\ (main' \in {"write", "arm"} => sentAt' = now)
    BY <1>3 DEF Decide
  <2> QED BY <1>3, <1>b, <2>1 DEF Times, NoTime
<1>4. CASE WaitEnds \/ ReadMissing \/ ReadFinalUp \/ Verdict \/ Handle
  BY <1>4 DEF WaitEnds, ReadMissing, ReadFinalUp, Verdict, Handle
<1>5. CASE Finally \/ Join \/ FinalSample \/ FinalUpCheck \/ FinalSupply \/ Finish
  BY <1>5 DEF Finally, Join, FinalSample, FinalUpCheck, FinalSupply, Finish
<1>6. CASE Interrupt BY <1>6 DEF Interrupt
<1>7. CASE Others
  <2>1. UNCHANGED <<main, sentAt, baseline>>
    BY <1>7 DEF Others, Carrier, CarrierEnters, CarrierReads, CarrierReadFails,
                CarrierCommits, Serial, SerialReads, SerialReadFails, SerialRecords,
                Probe, ProbeBegins, ProbeEnds, ProbeMarks, CheckStopAgain, Leave,
                RecordFailure, SetStop, Tick, WorkerUnchanged, ProbeUnchanged
  <2> QED BY <2>1
<1>8. CASE OutputLost \/ Terminated \/ UNCHANGED measured
  BY <1>8 DEF OutputLost, Terminated, vars, measured
<1>9. CASE Silent
  <2>1. "http" \in Network BY DEF Network
  <2> QED BY <1>9, <1>1, <1>2, <1>3, <1>4, <1>5, <1>6, <1>7, <1>8, <2>1, Zenon
          DEF Silent, Others, Carrier, Serial, Probe
<1>10. CASE SampleStep \/ SshStep \/ ChunkStep
  BY <1>10, <1>7 DEF SampleStep, SshStep, ChunkStep, Others, Carrier, Serial, Probe,
                     Network
<1>11. CASE FailureStep
  BY <1>11, <1>4, <1>7 DEF FailureStep, Others
<1>12. CASE BaselineStep
  BY <1>12 DEF BaselineStep, TakeBaseline
<1> QED BY <1>2, <1>5, <1>8, <1>9, <1>10, <1>11, <1>12
        DEF MeasuredNext, Arms, FinalSampleStep, FinalSupplyStep

\* A read of the carrier that returned v, as the record and the timeline show it.
Read(v) ==
    /\ \E b : RecordCarrier(v, b)
    /\ Watched(v)
    /\ UNCHANGED <<now, reference, baseline>>
    /\ Current = lastState /\ Current' = v

LinkKept ==
    /\ UNCHANGED <<lastUp, dropped>>
    /\ ready'["carrier"] = ready["carrier"]
    /\ Kept("carrier_transition") /\ Kept("carrier_ready")

LEMMA LinkWritten ==
  ASSUME IInv, EndInv, MeasuredTypeOK, [MeasuredNext]_measured
  PROVE  \/ \E v \in {"down", "up"} : Read(v)
         \/ LinkKept /\ (Arms \/ reference' = reference) /\ (TakeBaseline \/ Current' = Current)
         \/ /\ TakeBaseline /\ baseline' = now /\ reference = NoTime
            /\ UNCHANGED <<now, reference, lastUp, dropped>>
            /\ ready'["carrier"] = ready["carrier"] /\ Kept("carrier_ready")
            /\ New([event |-> "carrier_transition", t |-> now, carrier |-> "down"])
<1>a. [Next]_vars BY MeasuredStep
<1>b. TypeOK /\ LockInv /\ PowerInv BY DEF IInv
<1>c. CarrierReads => worker["carrier"] = "read" /\ worker'["carrier"] = "commit"
  BY <1>b DEF CarrierReads, Step, TypeOK, Workers
<1>1. CASE Arms
  <2>1. LinkKept
    BY <1>1, <1>b, ArmsWrites DEF LinkKept, Arms, PublishReference, ArmUnknown,
                                  carrierVars
  <2>2. Current' = Current
    BY <1>1 DEF Current, Arms, PublishReference, ArmUnknown, carrierVars
  <2> QED BY <1>1, <2>1, <2>2
<1>2. CASE BaselineStep
  <2>1. /\ UNCHANGED <<now, reference, lastUp, dropped, ready>> /\ TakeBaseline
    BY <1>2 DEF BaselineStep, TakeBaseline, recordVars
  <2>2. reference = NoTime
    BY <1>b, <2>1 DEF TakeBaseline, PowerInv, PowerSection
  <2>3. timeline' = timeline => \A k : Kept(k)
    BY DEF Kept, Keeps
  <2> QED BY <1>2, <1>b, <2>1, <2>2, <2>3, BaselineWrites DEF LinkKept
<1>3. CASE SampleStep
  <2>1. worker["carrier"] = "read" /\ worker'["carrier"] = "commit"
        /\ UNCHANGED <<now, reference, baseline>>
    BY <1>3, <1>c DEF SampleStep, CarrierReads, WorkerUnchanged
  <2>2. Read(sample') /\ sample' \in {"down", "up"}
    BY <1>3, <1>b, <2>1, SampleWrites DEF Read, Current
  <2> QED BY <2>2
<1>4. CASE FinalSampleStep
  <2>1. /\ worker["carrier"] # "commit" /\ main = "final_sample"
        /\ UNCHANGED <<now, reference, baseline, worker, sample>>
    BY <1>4 DEF FinalSampleStep, FinalSample, EndInv, Last
  <2>2. ASSUME NEW v \in {"down", "up"}, FinalRead(v), Watched(v) PROVE Read(v)
    BY <2>1, <2>2 DEF Read, FinalRead, Current
  <2>3. CASE FinalReadFails /\ Kept("carrier_transition") /\ Kept("carrier_ready")
    <3>1. LinkKept /\ Current' = Current
      BY <2>1, <2>3 DEF LinkKept, Current, FinalReadFails
    <3> QED BY <2>1, <3>1
  <2> QED BY <1>4, <1>b, <2>2, <2>3, FinalSampleWrites
<1>5. CASE /\ ~Arms /\ ~BaselineStep /\ ~SampleStep /\ ~FinalSampleStep
  <2>1. LinkKept /\ reference' = reference
    <3>1. CASE SshStep
      <4>1. ready'["carrier"] = ready["carrier"]
        BY <1>b, <3>1 DEF SshStep, ProbeMarks, MarkReady, TypeOK, Workers
      <4>2. UNCHANGED <<lastUp, dropped, reference>>
        BY <3>1 DEF SshStep, ProbeMarks, ProbeUnchanged, WorkerUnchanged
      <4> QED BY <1>b, <3>1, <4>1, <4>2, SshWrites DEF LinkKept
    <3>2. CASE ChunkStep
      <4>1. ready'["carrier"] = ready["carrier"]
        BY <1>b, <3>2 DEF ChunkStep, SerialRecords, MarkReady, TypeOK, Workers
      <4>2. UNCHANGED <<lastUp, dropped, reference>>
        BY <3>2 DEF ChunkStep, SerialRecords, WorkerUnchanged
      <4> QED BY <1>b, <3>2, <4>1, <4>2, ChunkWrites DEF LinkKept
    <3>3. CASE FailureStep
      <4>1. UNCHANGED <<lastUp, dropped, reference, ready>>
        BY <3>3 DEF FailureStep, RecordFailure, Handle, WorkerUnchanged, carrierVars
      <4> QED BY <1>b, <3>3, <4>1, FailureWrites DEF LinkKept, ErrorWritten
    <3>4. CASE FinalSupplyStep
      <4>1. UNCHANGED <<lastUp, dropped, reference, ready>>
        BY <3>4 DEF FinalSupplyStep, FinalSupply, carrierVars
      <4> QED BY <1>b, <3>4, <4>1, FinalSupplyWrites DEF LinkKept, ErrorWritten
    <3>5. CASE ~SshStep /\ ~ChunkStep /\ ~FailureStep /\ ~FinalSupplyStep
      BY <1>5, <1>b, <3>5, SilentFrame DEF LinkKept
    <3> QED BY <3>1, <3>2, <3>3, <3>4, <3>5
  <2>2. TakeBaseline \/ Current' = Current
    BY <1>b, <1>5, CurrentFrame
  <2> QED BY <2>1, <2>2
<1> QED BY <1>1, <1>2, <1>3, <1>4, <1>5
\* The timeline with one more move in the window.
LEMMA OneMove ==
  ASSUME NEW v \in {"down", "up"}, reference # NoTime, reference' = reference, reference <= now,
         New([event |-> "carrier_transition", t |-> now, carrier |-> v])
  PROVE  \E n \in Nat :
            /\ Seen("carrier_transition")' = Seen("carrier_transition") \cup {n}
            /\ Moves' = Moves \cup {n}
            /\ \A i \in Seen("carrier_transition") : i < n /\ timeline'[i] = timeline[i]
            /\ timeline'[n].t = now /\ timeline'[n].carrier = v
<1> DEFINE e == [event |-> "carrier_transition", t |-> now, carrier |-> v]
<1>1. e.event = "carrier_transition" /\ e.t = now /\ e.carrier = v
  OBVIOUS
<1> HIDE DEF e
<1>2. PICK n \in Nat :
         /\ OfKind(timeline', e.event) = OfKind(timeline, e.event) \cup {n}
         /\ timeline'[n] = e
         /\ \A i \in OfKind(timeline, e.event) : i < n /\ timeline'[i] = timeline[i]
  BY DEF New, Gains, e
<1>3. Seen("carrier_transition")' = Seen("carrier_transition") \cup {n}
  BY <1>1, <1>2 DEF Seen
<1>4. \A i \in Seen("carrier_transition") : i < n /\ timeline'[i] = timeline[i]
  BY <1>1, <1>2 DEF Seen
<1>5. Moves' = Moves \cup {n}
  BY <1>1, <1>2, <1>3, <1>4 DEF Moves
<1> QED BY <1>1, <1>2, <1>3, <1>4, <1>5

LEMMA AlternateStep ==
  ASSUME MovesAlternate, NEW v \in {"down", "up"}, NEW n \in Nat, v # Current, Current' = v,
         reference # NoTime, Moves \subseteq Nat,
         Moves' = Moves \cup {n}, timeline'[n].carrier = v,
         \A i \in Moves : i < n /\ timeline'[i] = timeline[i]
  PROVE  MovesAlternate'
<1>1. ASSUME NEW i \in Moves', \A j \in Moves' : j <= i
      PROVE  timeline'[i].carrier = Current'
  BY <1>1
<1>2. ASSUME NEW i \in Moves', \A j \in Moves' : i <= j
      PROVE  timeline'[i].carrier = "up"
  <2>1. CASE Moves = {}
    BY <1>2, <2>1 DEF MovesAlternate
  <2>2. CASE Moves # {}
    <3>0. PICK m \in Moves : TRUE BY <2>2
    <3>1. i \in Moves BY <1>2, <3>0
    <3> QED BY <1>2, <3>1 DEF MovesAlternate
  <2> QED BY <2>1, <2>2
<1>3. ASSUME NEW i \in Moves', NEW j \in Moves', i < j,
             \A k \in Moves' : k <= i \/ j <= k
      PROVE  timeline'[i].carrier # timeline'[j].carrier
  <2>1. i \in Moves BY <1>3
  <2>2. CASE j \in Moves
    BY <1>3, <2>1, <2>2 DEF MovesAlternate
  <2>3. CASE j = n
    <3>1. \A k \in Moves : k <= i BY <1>3, <2>3
    <3> QED BY <2>1, <2>3, <3>1 DEF MovesAlternate
  <2> QED BY <2>2, <2>3
<1>4. Moves' # {} OBVIOUS
<1> QED BY <1>1, <1>2, <1>3, <1>4 DEF MovesAlternate


\* What the observer derives from a move, before and after.
LEMMA DerivedStep ==
  ASSUME TypeOK, LinkDerived, MovesAlternate, NEW v \in {"down", "up"}, NEW n \in Nat, NEW b,
         v # Current, Current = lastState, reference # NoTime, reference' = reference,
         reference <= now, RecordCarrier(v, b),
         Moves' = Moves \cup {n}, timeline'[n].carrier = v, timeline'[n].t = now,
         \A i \in Moves : /\ i < n /\ timeline'[i] = timeline[i]
                          /\ timeline[i].t \in Nat /\ timeline[i].t <= now
  PROVE  LinkDerived'
<1>a. /\ now \in Nat /\ reference \in Nat /\ Duration \in Nat /\ lastUp \in Times
      /\ ready["carrier"] \in Times /\ dropped \in BOOLEAN /\ "carrier" \in Workers
      /\ ready \in [Workers -> Times]
  BY OptionsAssumption DEF TypeOK, Times, Workers
<1>b. timeline'[n] = timeline'[n] /\ \A i \in Moves' : i \in Moves \/ i = n
  OBVIOUS
<1>1. CASE v = "up"
  <2>1. lastUp' = now /\ dropped' = dropped
    BY <1>1, <1>a DEF RecordCarrier
  <2>2. /\ lastUp' = NoTime => \A i \in Moves' : timeline'[i].carrier = "down"
        /\ lastUp' # NoTime =>
             /\ \E i \in Moves' : timeline'[i].carrier = "up" /\ timeline'[i].t = lastUp'
             /\ \A i \in Moves' : timeline'[i].carrier = "up" => timeline'[i].t <= lastUp'
    BY <1>1, <1>a, <2>1 DEF NoTime
  <2>3. CASE ready["carrier"] = NoTime /\ now <= reference + Duration
    <3>1. ready'["carrier"] = now
      BY <1>1, <1>a, <2>3 DEF RecordCarrier, MarkReady
    <3>2. Moves = {} /\ ~dropped
      BY <1>a, <2>3 DEF LinkDerived
    <3>3. now # NoTime BY <1>a DEF NoTime
    <3> QED BY <1>1, <1>a, <2>1, <2>2, <3>1, <3>2, <3>3 DEF LinkDerived
  <2>4. CASE ready["carrier"] # NoTime \/ now > reference + Duration
    <3>1. ready'["carrier"] = ready["carrier"]
      BY <1>a, <1>1, <2>4 DEF RecordCarrier, MarkReady
    <3>2. ready["carrier"] # NoTime => ready["carrier"] <= now
      BY DEF LinkDerived
    <3>3. ready'["carrier"] = NoTime =>
             ~dropped' /\ \A i \in Moves' : timeline'[i].t > reference' + Duration
      BY <2>1, <2>4, <3>1, <1>a DEF LinkDerived
    <3>4. ready'["carrier"] # NoTime =>
           /\ \A i \in Moves' : ready'["carrier"] <= timeline'[i].t
           /\ \E i \in Moves' : timeline'[i].carrier = "up" /\ timeline'[i].t = ready'["carrier"]
           /\ dropped' <=> \E i \in Moves' : timeline'[i].carrier = "down"
      BY <1>1, <2>1, <3>1, <3>2 DEF LinkDerived
    <3> QED BY <2>2, <3>3, <3>4 DEF LinkDerived
  <2> QED BY <1>a, <2>3, <2>4
<1>2. CASE v = "down"
  <2>1. lastUp' = lastUp /\ ready'["carrier"] = ready["carrier"]
        /\ dropped' = (dropped \/ ready["carrier"] # NoTime)
    BY <1>2, <1>a DEF RecordCarrier
  <2>2. /\ lastUp' = NoTime => \A i \in Moves' : timeline'[i].carrier = "down"
        /\ lastUp' # NoTime =>
             /\ \E i \in Moves' : timeline'[i].carrier = "up" /\ timeline'[i].t = lastUp'
             /\ \A i \in Moves' : timeline'[i].carrier = "up" => timeline'[i].t <= lastUp'
    BY <1>2, <1>a, <2>1 DEF LinkDerived
  <2>3. CASE ready["carrier"] = NoTime
    <3>1. PICK i \in Moves : TRUE
      BY <1>2 DEF MovesAlternate
    <3>2. timeline[i].t > reference + Duration /\ ~dropped
      BY <2>3 DEF LinkDerived
    <3>3. now > reference + Duration
      BY <1>a, <3>1, <3>2
    <3>4. \A k \in Moves' : timeline'[k].t > reference' + Duration
      BY <2>3, <3>3 DEF LinkDerived
    <3> QED BY <2>1, <2>2, <2>3, <3>2, <3>4 DEF LinkDerived
  <2>4. CASE ready["carrier"] # NoTime
    <3>1. ready["carrier"] <= now
      BY <2>4 DEF LinkDerived
    <3> QED BY <1>2, <2>1, <2>2, <2>4, <3>1 DEF LinkDerived
  <2> QED BY <2>3, <2>4
<1> QED BY <1>1, <1>2

LEMMA MovesKept ==
  ASSUME Kept("carrier_transition"), reference' = reference
  PROVE  /\ Seen("carrier_transition")' = Seen("carrier_transition")
         /\ \A i \in Seen("carrier_transition") : timeline'[i] = timeline[i]
         /\ Moves' = Moves
BY DEF Kept, Keeps, Seen, Moves

LEMMA TransitionTimes ==
  ASSUME MeasuredTypeOK
  PROVE  \A i \in Seen("carrier_transition") : i \in Nat /\ timeline[i].t \in Times
BY ChunksAre DEF Seen, OfKind

LEMMA OrderStep ==
  ASSUME IInv, EndInv, MeasuredTypeOK, MovesOrdered, [MeasuredNext]_measured
  PROVE  MovesOrdered'
<1>a. [Next]_vars BY MeasuredStep
<1>b. TypeOK /\ LockInv /\ PowerInv BY DEF IInv
<1>c. now \in Nat /\ now' \in Nat /\ now <= now' /\ baseline \in Times
  BY <1>a, <1>b, NowGrows DEF TypeOK
<1>1. main' \in {"write", "arm"} => baseline' < sentAt'
  BY <1>b, PowerFrame DEF MovesOrdered
<1>2. ASSUME Kept("carrier_transition"), Arms \/ reference' = reference
      PROVE  MovesOrdered'
  <2>1. /\ Seen("carrier_transition")' = Seen("carrier_transition")
        /\ \A i \in Seen("carrier_transition") : timeline'[i] = timeline[i]
    BY <1>2 DEF Kept, Keeps, Seen
  <2>2. reference' = NoTime => reference = NoTime
    BY <1>2, <1>b DEF Arms, PublishReference, ArmUnknown, PowerInv, PowerSection
  <2>3. baseline' = baseline \/ baseline' = now
    BY <1>b, PowerFrame DEF TakeBaseline
  <2> QED BY <1>1, <1>c, <2>1, <2>2, <2>3, TransitionTimes DEF MovesOrdered, Times,
                                                               NoTime
<1>3. ASSUME NEW v, New([event |-> "carrier_transition", t |-> now, carrier |-> v]),
             reference' = reference, now' = now, reference = NoTime => baseline' = now
      PROVE  MovesOrdered'
  <2>1. PICK n \in Nat :
            /\ Seen("carrier_transition")' = Seen("carrier_transition") \cup {n}
            /\ \A i \in Seen("carrier_transition") : i < n /\ timeline'[i] = timeline[i]
            /\ timeline'[n].t = now
    BY <1>3 DEF New, Gains, Seen
  <2>2. \A i \in Seen("carrier_transition") : timeline[i].t <= now /\ i \in Nat
    BY TransitionTimes DEF MovesOrdered
  <2> QED BY <1>1, <1>3, <1>c, <2>1, <2>2 DEF MovesOrdered
<1> QED BY <1>b, <1>2, <1>3, LinkWritten DEF LinkKept, Read, Watched


LEMMA LinkStep ==
  ASSUME IInv, EndInv, MeasuredTypeOK, LinkRecorded, [MeasuredNext]_measured
  PROVE  LinkRecorded'
<1> SUFFICES ASSUME "carrier" \in Enabled
             PROVE  MovesOrdered' /\ MovesAlternate' /\ LinkDerived'
  BY DEF LinkRecorded
<1>a. MovesOrdered /\ MovesAlternate /\ LinkDerived BY DEF LinkRecorded
<1>b. TypeOK /\ LockInv /\ PowerInv /\ ClockInv BY DEF IInv
<1>c. MovesOrdered' BY <1>a, OrderStep
<1>d. reference = NoTime => ready["carrier"] = NoTime /\ Moves = {}
  BY DEF IInv, RecordInv, EvidenceAfterReference, Workers, Moves
<1>1. CASE LinkKept /\ reference' = reference /\ (TakeBaseline \/ Current' = Current)
  <2>1. TakeBaseline => reference = NoTime
    BY <1>b DEF TakeBaseline, PowerInv, PowerSection
  <2>2. /\ Moves' = Moves
        /\ \A i \in Moves : timeline'[i] = timeline[i]
    BY <1>1, MovesKept DEF LinkKept, Moves
  <2>3. MovesAlternate'
    BY <1>1, <1>a, <1>d, <2>1, <2>2 DEF MovesAlternate
  <2>4. LinkDerived'
    BY <1>1, <1>a, <2>2 DEF LinkDerived, LinkKept
  <2> QED BY <1>c, <2>3, <2>4
<1>2. CASE LinkKept /\ Arms /\ (TakeBaseline \/ Current' = Current)
  <2>1. main = "arm" /\ PublishReference /\ reference = NoTime
    BY <1>2, <1>b, OptionsAssumption
    DEF Arms, PublishReference, ArmUnknown, PowerInv, PowerSection
  <2>2. reference' = sentAt /\ baseline < sentAt /\ sentAt \in Times /\ baseline \in Times
    BY <1>a, <1>b, <2>1 DEF PublishReference, Arm, MovesOrdered, TypeOK
  <2>3. /\ Seen("carrier_transition")' = Seen("carrier_transition")
        /\ \A i \in Seen("carrier_transition") : timeline'[i] = timeline[i]
    BY <1>2 DEF LinkKept, Kept, Keeps, Seen
  <2>4. Moves' = {}
    BY <1>a, <2>1, <2>2, <2>3, TransitionTimes DEF Moves, MovesOrdered, Times, NoTime
  <2>5. Current' = "down"
    <3>1. worker["carrier"] # "commit" /\ lastState = "down"
      BY <1>b, <2>1 DEF LockInv, PowerInv, PowerSection
    <3>2. ~TakeBaseline
      BY <2>1 DEF TakeBaseline
    <3> QED BY <1>2, <3>1, <3>2 DEF Current
  <2>6. MovesAlternate'
    BY <2>4, <2>5 DEF MovesAlternate
  <2>7. LinkDerived'
    <3>1. reference' # NoTime
      BY <2>2 DEF Times, NoTime
    <3> QED BY <1>2, <1>a, <1>d, <2>1, <2>4, <3>1 DEF LinkDerived, LinkKept
  <2> QED BY <1>c, <2>6, <2>7
<1>3. ASSUME NEW v \in {"down", "up"}, Read(v) PROVE MovesAlternate' /\ LinkDerived'
  <2>a. PICK b : RecordCarrier(v, b)
    BY <1>3 DEF Read
  <2>b. UNCHANGED <<now, reference>> /\ Current = lastState /\ Current' = v
    BY <1>3 DEF Read
  <2>1. CASE reference = NoTime \/ v = lastState
    <3>1. UNCHANGED <<lastUp, ready>> /\ dropped' = dropped
      BY <2>a, <2>1, <1>b DEF RecordCarrier, TypeOK
    <3>2. Kept("carrier_transition")
      BY <1>3, <2>1 DEF Read, Watched
    <3>3. /\ Moves' = Moves
          /\ \A i \in Moves : timeline'[i] = timeline[i]
      BY <2>b, <3>2, MovesKept DEF Moves
    <3>4. MovesAlternate'
      BY <1>a, <1>d, <2>b, <2>1, <3>3 DEF MovesAlternate
    <3>5. LinkDerived'
      BY <1>a, <2>b, <3>1, <3>3 DEF LinkDerived
    <3> QED BY <3>4, <3>5
  <2>2. CASE reference # NoTime /\ v # lastState
    <3>1. reference <= now BY <1>b DEF ClockInv
    <3>2. New([event |-> "carrier_transition", t |-> now, carrier |-> v])
      BY <1>3, <2>2 DEF Read, Watched
    <3>3. PICK n \in Nat :
            /\ Moves' = Moves \cup {n}
            /\ \A i \in Seen("carrier_transition") : i < n /\ timeline'[i] = timeline[i]
            /\ timeline'[n].t = now /\ timeline'[n].carrier = v
      BY <2>b, <2>2, <3>1, <3>2, OneMove
    <3>4. \A i \in Moves : /\ i < n /\ timeline'[i] = timeline[i] /\ i \in Nat
                           /\ timeline[i].t \in Nat /\ timeline[i].t <= now
      BY <1>a, <1>b, <2>2, <3>3, TransitionTimes DEF Moves, MovesOrdered, TypeOK,
                                                     Times, NoTime
    <3>5. v # Current BY <2>b, <2>2
    <3>6. MovesAlternate'
      BY <1>a, <2>b, <2>2, <3>3, <3>4, <3>5, AlternateStep
    <3>7. LinkDerived'
      BY <1>a, <1>b, <2>a, <2>b, <2>2, <3>1, <3>3, <3>4, <3>5, DerivedStep
    <3> QED BY <3>6, <3>7
  <2> QED BY <2>1, <2>2
<1>4. ASSUME TakeBaseline, reference = NoTime, UNCHANGED <<reference, lastUp, dropped>>,
             ready'["carrier"] = ready["carrier"]
      PROVE  MovesAlternate' /\ LinkDerived'
  <2>1. Moves' = {} BY <1>4 DEF Moves
  <2> QED BY <1>4, <1>a, <1>d, <2>1 DEF MovesAlternate, LinkDerived
<1> QED BY <1>1, <1>2, <1>3, <1>4, <1>c, LinkWritten

(***************************************************************************)
(* The markers in a text as it grows.                                      *)
(***************************************************************************)
\* The places of some chunks that were recorded in order.
InOrder(tl, C) ==
    /\ C \subseteq Nat
    /\ \A i \in C : tl[i].t \in Times /\ tl[i].text \in ChunkTexts
    /\ \A i, j \in C : i < j => tl[i].t <= tl[j].t

LEMMA TextsAre ==
  ASSUME NEW x \in ChunkTexts
  PROVE  /\ DOMAIN x = 1..Len(x) /\ Len(x) \in {1, 2}
         /\ \A k, l \in DOMAIN x : k < l => k = 1 /\ l = 2 /\ Len(x) = 2
         /\ \A k, l \in DOMAIN x : k < l /\ x[k] = "head" /\ x[l] = "tail" => x = <<"head", "tail">>
BY DEF ChunkTexts

LEMMA PieceIs ==
  ASSUME NEW tl, NEW C, InOrder(tl, C)
  PROVE  \A p : p \in Summary!Pieces(tl, C) <=>
                  \E k \in C : \E l \in 1..Len(tl[k].text) : p = <<k, l>>
<1>1. \A k \in C : DOMAIN tl[k].text = 1..Len(tl[k].text)
  BY TextsAre DEF InOrder
<1> HIDE DEF ChunkTexts
<1>2. ASSUME NEW p \in Summary!Pieces(tl, C)
      PROVE  \E k \in C : \E l \in 1..Len(tl[k].text) : p = <<k, l>>
  <2>1. PICK k \in C : p \in {k} \X DOMAIN tl[k].text
    BY <1>2 DEF Summary!Pieces
  <2>2. p = <<k, p[2]>> /\ p[2] \in DOMAIN tl[k].text
    BY <2>1
  <2> QED BY <1>1, <2>2
<1>3. ASSUME NEW k \in C, NEW l \in 1..Len(tl[k].text)
      PROVE  <<k, l>> \in Summary!Pieces(tl, C)
  <2>1. <<k, l>> \in {k} \X DOMAIN tl[k].text
    BY <1>1
  <2> QED BY <2>1 DEF Summary!Pieces
<1> QED BY <1>2, <1>3

LEMMA BeforeIs ==
  ASSUME NEW tl, NEW C, InOrder(tl, C), NEW p, NEW q, p[1] \in C, q[1] \in C
  PROVE  Summary!Before(tl, p, q) <=> p[1] < q[1] \/ (p[1] = q[1] /\ p[2] < q[2])
<1> DEFINE i == p[1]
           j == q[1]
<1>1. Summary!Precedes(tl, i, j) <=> i < j
  <2>1. i \in Nat /\ j \in Nat /\ tl[i].t \in Int /\ tl[j].t \in Int
    BY DEF InOrder, Times, NoTime
  <2>2. (i < j => tl[i].t <= tl[j].t) /\ (j < i => tl[j].t <= tl[i].t)
    BY DEF InOrder
  <2> HIDE DEF i, j
  <2> QED BY <2>1, <2>2 DEF Summary!Precedes
<1> QED BY <1>1 DEF Summary!Before

\* The chunks at C are there, and the one at n is added behind them.
Grows(s, u, C, n) ==
    /\ n \in Nat /\ InOrder(s, C) /\ InOrder(u, C \cup {n})
    /\ \A i \in C : i < n /\ u[i] = s[i]

Found(tl, C) == Summary!Markers(tl, Summary!Pieces(tl, C))

\* A chunk ends in the beginning of a marker.
EndsInHead(tl, k) == tl[k].text[Len(tl[k].text)] = "head"

LEMMA FoundIs ==
  ASSUME NEW tl, NEW C, InOrder(tl, C), NEW i \in C, NEW j \in C,
         NEW k \in 1..Len(tl[i].text), NEW l \in 1..Len(tl[j].text)
  PROVE  <<<<i, k>>, <<j, l>>>> \in Found(tl, C) <=>
           /\ tl[i].text[k] = "head" /\ tl[j].text[l] = "tail"
           /\ i < j \/ (i = j /\ k < l)
           /\ ~\E c \in C : \E d \in 1..Len(tl[c].text) :
                 /\ i < c \/ (i = c /\ k < d)
                 /\ c < j \/ (c = j /\ d < l)
<1> DEFINE p == <<i, k>>
           q == <<j, l>>
           text == Summary!Pieces(tl, C)
           Between(r) == Summary!Before(tl, p, r) /\ Summary!Before(tl, r, q)
<1>1. p \in text /\ q \in text
  BY PieceIs
<1>2. Summary!Before(tl, p, q) <=> i < j \/ (i = j /\ k < l)
  BY BeforeIs
<1>3. (\E r \in text : Between(r)) <=>
         \E c \in C : \E d \in 1..Len(tl[c].text) :
                 /\ i < c \/ (i = c /\ k < d)
                 /\ c < j \/ (c = j /\ d < l)
  <2>1. \A c \in C : \A d \in 1..Len(tl[c].text) :
           Between(<<c, d>>) <=> /\ i < c \/ (i = c /\ k < d)
                                 /\ c < j \/ (c = j /\ d < l)
    BY BeforeIs
  <2>2. \A r : r \in text <=> \E c \in C : \E d \in 1..Len(tl[c].text) : r = <<c, d>>
    BY PieceIs
  <2> HIDE DEF Between, text
  <2>3. ASSUME NEW r \in text, Between(r)
        PROVE  \E c \in C : \E d \in 1..Len(tl[c].text) :
                 /\ i < c \/ (i = c /\ k < d)
                 /\ c < j \/ (c = j /\ d < l)
    <3>1. PICK c \in C : \E d \in 1..Len(tl[c].text) : r = <<c, d>>
      BY <2>2
    <3>2. PICK d \in 1..Len(tl[c].text) : r = <<c, d>>
      BY <3>1
    <3>3. Between(<<c, d>>)
      BY <2>3, <3>2, Zenon
    <3> QED BY <2>1, <3>3
  <2>4. ASSUME NEW c \in C, NEW d \in 1..Len(tl[c].text),
               i < c \/ (i = c /\ k < d), c < j \/ (c = j /\ d < l)
        PROVE  \E r \in text : Between(r)
    <3>1. <<c, d>> \in text /\ Between(<<c, d>>)
      BY <2>1, <2>2, <2>4
    <3> QED BY <3>1, Zenon
  <2> QED BY <2>3, <2>4, Zenon
<1>4. Summary!Piece(tl, p) = tl[i].text[k] /\ Summary!Piece(tl, q) = tl[j].text[l]
  BY DEF Summary!Piece
<1>5. <<p, q>> \in Found(tl, C) <=>
        /\ <<p, q>> \in text \X text
        /\ Summary!Piece(tl, p) = "head" /\ Summary!Piece(tl, q) = "tail"
        /\ Summary!Before(tl, p, q)
        /\ ~\E r \in text : Between(r)
  BY DEF Found, Summary!Markers
<1> HIDE DEF p, q, text, Between
<1>6. <<p, q>> \in text \X text BY <1>1
<1>7. <<p, q>> \in Found(tl, C) <=>
           /\ tl[i].text[k] = "head" /\ tl[j].text[l] = "tail"
           /\ i < j \/ (i = j /\ k < l)
           /\ ~\E c \in C : \E d \in 1..Len(tl[c].text) :
                 /\ i < c \/ (i = c /\ k < d)
                 /\ c < j \/ (c = j /\ d < l)
  BY <1>2, <1>3, <1>4, <1>5, <1>6
<1> QED BY <1>7 DEF p, q

\* A marker consists of two pieces.
LEMMA FoundPieces ==
  ASSUME NEW tl, NEW C, InOrder(tl, C), NEW m \in Found(tl, C)
  PROVE  \E i, j \in C : \E k \in 1..Len(tl[i].text), l \in 1..Len(tl[j].text) :
            m = <<<<i, k>>, <<j, l>>>>
<1> DEFINE text == Summary!Pieces(tl, C)
<1>1. m \in text \X text
  BY DEF Found, Summary!Markers
<1>2. m = <<m[1], m[2]>> /\ m[1] \in text /\ m[2] \in text
  BY <1>1
<1>3. PICK i \in C : \E k \in 1..Len(tl[i].text) : m[1] = <<i, k>>
  BY <1>2, PieceIs
<1>4. PICK j \in C : \E l \in 1..Len(tl[j].text) : m[2] = <<j, l>>
  BY <1>2, PieceIs
<1> QED BY <1>2, <1>3, <1>4

LEMMA LengthsAre ==
  ASSUME NEW tl, NEW C, InOrder(tl, C)
  PROVE  \A i \in C : /\ i \in Nat
                      /\ Len(tl[i].text) \in {1, 2}
                      /\ tl[i].text \in ChunkTexts
BY TextsAre DEF InOrder

\* A new chunk leaves the markers before it as they are.
LEMMA FoundKept ==
  ASSUME NEW s, NEW u, NEW C, NEW n, Grows(s, u, C, n),
         NEW i \in C, NEW j \in C,
         NEW k \in 1..Len(s[i].text), NEW l \in 1..Len(s[j].text)
  PROVE  <<<<i, k>>, <<j, l>>>> \in Found(s, C)
            <=> <<<<i, k>>, <<j, l>>>> \in Found(u, C \cup {n})
<1> DEFINE D == C \cup {n}
           Mid(c, d) == /\ i < c \/ (i = c /\ k < d)
                        /\ c < j \/ (c = j /\ d < l)
<1>a. InOrder(s, C) /\ InOrder(u, D) /\ n \in Nat
      /\ \A c \in C : c < n /\ u[c] = s[c]
  BY DEF Grows
<1>b. i \in Nat /\ j \in Nat /\ j < n /\ u[i] = s[i] /\ u[j] = s[j]
  BY <1>a, LengthsAre
<1>1. <<<<i, k>>, <<j, l>>>> \in Found(s, C) <=>
           /\ s[i].text[k] = "head" /\ s[j].text[l] = "tail"
           /\ i < j \/ (i = j /\ k < l)
           /\ ~\E c \in C : \E d \in 1..Len(s[c].text) : Mid(c, d)
  BY <1>a, FoundIs
<1>2. <<<<i, k>>, <<j, l>>>> \in Found(u, D) <=>
           /\ u[i].text[k] = "head" /\ u[j].text[l] = "tail"
           /\ i < j \/ (i = j /\ k < l)
           /\ ~\E c \in D : \E d \in 1..Len(u[c].text) : Mid(c, d)
  <2>1. i \in D /\ j \in D /\ k \in 1..Len(u[i].text) /\ l \in 1..Len(u[j].text)
    BY <1>b
  <2> HIDE DEF D
  <2> QED BY <1>a, <2>1, FoundIs
<1>3. \A d : ~Mid(n, d)
  BY <1>a, <1>b
<1>4. (\E c \in D : \E d \in 1..Len(u[c].text) : Mid(c, d))
         <=> (\E c \in C : \E d \in 1..Len(s[c].text) : Mid(c, d))
  <2> HIDE DEF Mid
  <2> QED BY <1>a, <1>3
<1> HIDE DEF Mid, D
<1>5. <<<<i, k>>, <<j, l>>>> \in Found(s, C) <=> <<<<i, k>>, <<j, l>>>> \in Found(u, D)
  BY <1>1, <1>2, <1>4, <1>b
<1> QED BY <1>5 DEF D

\* A new marker ends in the new chunk, and is all there or begins right before.
LEMMA FoundNew ==
  ASSUME NEW s, NEW u, NEW C, NEW n, Grows(s, u, C, n),
         NEW i \in C \cup {n}, NEW k \in 1..Len(u[i].text), NEW l \in 1..Len(u[n].text),
         <<<<i, k>>, <<n, l>>>> \in Found(u, C \cup {n})
  PROVE  \/ u[n].text = <<"head", "tail">>
         \/ /\ u[n].text[1] = "tail"
            /\ \E e \in C : (\A c \in C : c <= e) /\ EndsInHead(s, e)
<1> DEFINE D == C \cup {n}
<1>a. InOrder(s, C) /\ InOrder(u, D) /\ n \in Nat
      /\ \A c \in C : c < n /\ u[c] = s[c]
  BY DEF Grows
<1>b. /\ u[i].text[k] = "head" /\ u[n].text[l] = "tail"
      /\ i < n \/ (i = n /\ k < l)
      /\ ~\E c \in D : \E d \in 1..Len(u[c].text) :
            /\ i < c \/ (i = c /\ k < d)
            /\ c < n \/ (c = n /\ d < l)
  BY <1>a, FoundIs
<1>d. \A c \in D : c \in Nat /\ Len(u[c].text) \in {1, 2}
  <2> HIDE DEF D
  <2> QED BY <1>a, LengthsAre
<1>e. \A x \in {1, 2} : 1 \in 1..x /\ x \in 1..x
  OBVIOUS
<1>c. \A c \in D : c \in Nat /\ Len(u[c].text) \in {1, 2} /\ 1 \in 1..Len(u[c].text)
                   /\ Len(u[c].text) \in 1..Len(u[c].text)
  BY <1>d, <1>e, Zenon
<1>1. CASE i = n
  <2>1. u[n].text \in ChunkTexts
    BY <1>a, LengthsAre
  <2>2. k \in DOMAIN u[n].text /\ l \in DOMAIN u[n].text /\ k < l
    BY <1>1, <1>b, <1>c, <2>1, TextsAre
  <2> HIDE DEF ChunkTexts
  <2> QED BY <1>1, <1>b, <2>1, <2>2, TextsAre
<1>2. CASE i \in C
  <2>a. i < n /\ u[i] = s[i] BY <1>2, <1>a
  <2>1. l = 1
    <3>1. ~(1 < l)
      <4>1. n \in D /\ 1 \in 1..Len(u[n].text) BY <1>c
      <4> QED BY <1>b, <2>a, <4>1
    <3> QED BY <3>1, <1>c
  <2>2. \A c \in C : c <= i
    <3>1. SUFFICES ASSUME NEW c \in C, i < c PROVE FALSE
      BY <1>2, <1>c
    <3>2. c \in D /\ c < n /\ 1 \in 1..Len(u[c].text)
      BY <1>a, <1>c
    <3> QED BY <1>b, <3>1, <3>2
  <2>3. k = Len(u[i].text)
    <3>1. ~(k < Len(u[i].text))
      <4>1. Len(u[i].text) \in 1..Len(u[i].text) BY <1>c
      <4> QED BY <1>b, <2>a, <4>1
    <3> QED BY <3>1, <1>c
  <2> QED BY <1>2, <1>b, <2>a, <2>1, <2>2, <2>3 DEF EndsInHead
<1> QED BY <1>1, <1>2

\* A marker that is whole in the new chunk, or that it completes, is found.
LEMMA FoundWhole ==
  ASSUME NEW s, NEW u, NEW C, NEW n, Grows(s, u, C, n), u[n].text = <<"head", "tail">>
  PROVE  <<<<n, 1>>, <<n, 2>>>> \in Found(u, C \cup {n})
<1>1. InOrder(u, C \cup {n}) /\ n \in Nat /\ \A c \in C : c < n /\ c \in Nat
  BY LengthsAre DEF Grows
<1>2. Len(u[n].text) = 2 /\ u[n].text[1] = "head" /\ u[n].text[2] = "tail"
  OBVIOUS
<1>3. ~\E c \in C \cup {n} : \E d \in 1..Len(u[c].text) :
            /\ n < c \/ (n = c /\ 1 < d)
            /\ c < n \/ (c = n /\ d < 2)
  BY <1>1
<1>4. n \in C \cup {n} /\ 1 \in 1..Len(u[n].text) /\ 2 \in 1..Len(u[n].text)
  BY <1>2
<1> QED BY <1>1, <1>2, <1>3, <1>4, FoundIs

LEMMA FoundComplete ==
  ASSUME NEW s, NEW u, NEW C, NEW n, Grows(s, u, C, n), u[n].text[1] = "tail",
         NEW e \in C, \A c \in C : c <= e, EndsInHead(s, e)
  PROVE  <<<<e, Len(s[e].text)>>, <<n, 1>>>> \in Found(u, C \cup {n})
<1> DEFINE D == C \cup {n}
           k == Len(u[e].text)
<1>1. InOrder(u, D) /\ n \in Nat /\ u[e] = s[e] /\ e < n
      /\ \A c \in C : c < n
  BY DEF Grows
<1>2. \A c \in D : c \in Nat /\ Len(u[c].text) \in {1, 2}
  <2> HIDE DEF D
  <2> QED BY <1>1, LengthsAre
<1>e. \A x \in {1, 2} : 1 \in 1..x /\ x \in 1..x
  OBVIOUS
<1>3. k \in 1..Len(u[e].text) /\ 1 \in 1..Len(u[n].text) /\ e \in D /\ n \in D
  <2>1. e \in D /\ n \in D OBVIOUS
  <2> HIDE DEF D
  <2> QED BY <1>2, <1>e, <2>1, Zenon DEF k
<1>4. ~\E c \in D : \E d \in 1..Len(u[c].text) :
            /\ e < c \/ (e = c /\ k < d)
            /\ c < n \/ (c = n /\ d < 1)
  BY <1>1, <1>2
<1>5. <<<<e, k>>, <<n, 1>>>> \in Found(u, D)
  <2>1. u[e].text[k] = "head" BY <1>1 DEF EndsInHead
  <2> HIDE DEF D, k
  <2> QED BY <1>1, <1>3, <1>4, <2>1, FoundIs
<1> QED BY <1>1, <1>5

(***************************************************************************)
(* The console in the timeline.                                            *)
(***************************************************************************)
\* The chunks in the window.
Heard == {i \in Seen("uart_received") : reference # NoTime /\ reference <= timeline[i].t}

\* Chunks are recorded in the order they were read in.
UartOrdered ==
    /\ reference = NoTime => Seen("uart_received") = {}
    /\ \A i, j \in Seen("uart_received") : i < j => timeline[i].t <= timeline[j].t
    /\ \A i \in Seen("uart_received") :
          /\ timeline[i].t <= now
          /\ worker["serial"] = "record" => timeline[i].t <= begun["serial"]

\* The buffer holds the beginning of a marker just if the text ends in one, and
\* the console is ready since its first complete marker.
MarkerDerived ==
    /\ ready["serial"] = NoTime =>
          /\ Found(timeline, Heard) = {}
          /\ Heard = {} => buffer = "clear"
          /\ \A i \in Heard : (\A j \in Heard : j <= i) =>
                (buffer = "head" <=> EndsInHead(timeline, i))
    /\ ready["serial"] # NoTime =>
          /\ \E m \in Found(timeline, Heard) : timeline[m[2][1]].t = ready["serial"]
          /\ \A m \in Found(timeline, Heard) : ready["serial"] <= timeline[m[2][1]].t

ConsoleRecorded == UartOrdered /\ (HasMarker => MarkerDerived)

\* A step that records no chunk.
ConsoleKept ==
    /\ Kept("uart_received")
    /\ (Arms /\ buffer' = "clear") \/ UNCHANGED <<reference, buffer>>
    /\ ready'["serial"] = ready["serial"]
    /\ worker'["serial"] = "record" =>
          \/ begun'["serial"] = now'
          \/ worker["serial"] = "record" /\ begun'["serial"] = begun["serial"]

\* serial_worker alone reads the console.
LEMMA SerialFrame ==
  ASSUME TypeOK, [MeasuredNext]_measured, ~ChunkStep
  PROVE  /\ Arms \/ buffer' = buffer
         /\ worker'["serial"] = "record" =>
               \/ begun'["serial"] = now'
               \/ worker["serial"] = "record" /\ begun'["serial"] = begun["serial"]
<1> USE DEF SetupUnchanged, VerdictUnchanged, uartVars, Step, WorkerUnchanged,
            ProbeUnchanged, TypeOK, Workers, Network, Failing, Observing, Observed
<1>1. CASE MainSetup
  <2>1. ASSUME NEW w \in Workers, StartWorker(w)
        PROVE  begun' = begun /\ buffer' = buffer
               /\ (worker'["serial"] = "record" => worker["serial"] = "record")
    BY <2>1 DEF StartWorker
  <2> QED BY <1>1, <2>1 DEF MainSetup, Resolve, Identify, InitialSupply, Started,
                            PowerOff,
                      VerifyOff, Dwell, ColdCheck, CheckStop, Requery
<1>2. CASE EnterPowerSection \/ WriteOn \/ VerifyOn \/ Decide \/ Arms \/ BaselineStep
  BY <1>2 DEF EnterPowerSection, WriteOn, VerifyOn, Decide, Arms, PublishReference,
              ArmUnknown, BaselineStep, TakeBaseline
<1>3. CASE WaitEnds \/ ReadMissing \/ ReadFinalUp \/ Verdict \/ Interrupt
           \/ Finally \/ Join \/ FinalUpCheck \/ Finish \/ FinalSupplyStep \/ FinalSampleStep
  BY <1>3 DEF WaitEnds, ReadMissing, ReadFinalUp, Verdict, Interrupt, Finally,
              Join, FinalUpCheck, Finish, FinalSupplyStep, FinalSupply,
              FinalSampleStep, FinalSample
<1>4. CASE CarrierEnters \/ CarrierReadFails \/ CarrierCommits \/ SampleStep
  BY <1>4 DEF CarrierEnters, CarrierReadFails, CarrierCommits, SampleStep,
              CarrierReads
<1>5. CASE SerialReads \/ SerialReadFails \/ CheckStopAgain
  BY <1>5 DEF SerialReads, SerialReadFails, CheckStopAgain
<1>6. CASE SshStep \/ \E w \in Network : ProbeBegins(w) \/ ProbeEnds(w) \/ ProbeMarks(w)
  BY <1>6 DEF SshStep, ProbeBegins, ProbeEnds, ProbeMarks
<1>7. CASE \/ \E w \in Workers : Leave(w)
           \/ \E w \in Failing : SetStop(w)
           \/ FailureStep
  BY <1>7 DEF Leave, SetStop, FailureStep, RecordFailure, Handle
<1>8. CASE Tick \/ OutputLost \/ Terminated \/ UNCHANGED measured
  BY <1>8 DEF Tick, OutputLost, Terminated, vars, measured
<1>9. ProbeMarks("http") => \E w \in Network : ProbeMarks(w)
  OBVIOUS
<1> QED BY <1>1, <1>2, <1>3, <1>4, <1>5, <1>6, <1>7, <1>8, <1>9, Zenon
        DEF MeasuredNext, Silent

LEMMA ConsoleWritten ==
  ASSUME TypeOK, MeasuredTypeOK, [MeasuredNext]_measured
  PROVE  ChunkStep \/ ConsoleKept
<1> SUFFICES ASSUME ~ChunkStep
             PROVE  /\ Kept("uart_received")
                    /\ Arms \/ reference' = reference
                    /\ Arms => buffer' = "clear"
                    /\ ready'["serial"] = ready["serial"]
  BY SerialFrame DEF ConsoleKept
<1>a. \A v, b : RecordCarrier(v, b) => ready'["serial"] = ready["serial"]
  BY DEF RecordCarrier, MarkReady, TypeOK, Workers
<1>1. CASE Arms
  BY <1>1, ArmsWrites DEF Arms, PublishReference, ArmUnknown, Arm
<1>2. CASE BaselineStep
  BY <1>2, BaselineWrites DEF BaselineStep, TakeBaseline, recordVars, Arms,
                              PublishReference, ArmUnknown
<1>3. CASE SampleStep /\ ~Arms
  BY <1>3, <1>a, SampleWrites DEF SampleStep, CarrierReads, WorkerUnchanged
<1>4. CASE FinalSampleStep /\ ~Arms
  BY <1>4, <1>a, FinalSampleWrites DEF FinalSampleStep, FinalSample, FinalRead,
                                       FinalReadFails
<1>5. CASE SshStep /\ ~Arms
  <2>1. ready'["serial"] = ready["serial"]
    BY <1>5 DEF SshStep, ProbeMarks, MarkReady, TypeOK, Workers
  <2> QED BY <1>5, <2>1, SshWrites DEF SshStep, ProbeMarks, ProbeUnchanged,
                                       WorkerUnchanged
<1>6. CASE FailureStep /\ ~Arms
  BY <1>6, FailureWrites DEF FailureStep, RecordFailure, Handle, WorkerUnchanged,
                             ErrorWritten
<1>7. CASE FinalSupplyStep /\ ~Arms
  BY <1>7, FinalSupplyWrites DEF FinalSupplyStep, FinalSupply, ErrorWritten
<1>8. CASE /\ ~Arms /\ ~BaselineStep /\ ~SampleStep /\ ~FinalSampleStep
           /\ ~SshStep /\ ~FailureStep /\ ~FinalSupplyStep
  BY <1>8, SilentFrame
<1> QED BY <1>1, <1>2, <1>3, <1>4, <1>5, <1>6, <1>7, <1>8

LEMMA ChunkTimes ==
  ASSUME MeasuredTypeOK
  PROVE  /\ \A i \in Seen("uart_received") :
               i \in 1..Len(timeline) /\ timeline[i].t \in Times
               /\ timeline[i].text \in ChunkTexts
         /\ Len(timeline) \in Nat
<1>1. Len(timeline) \in Nat
  <2> HIDE DEF Entries
  <2> QED BY DEF MeasuredTypeOK
<1> QED BY <1>1, ChunksAre DEF Seen, OfKind

\* A chunk that is recorded is the last one.
LEMMA ChunkAdded ==
  ASSUME TypeOK, MeasuredTypeOK, ChunkStep, reference # NoTime
  PROVE  \E n \in Nat :
            /\ Seen("uart_received")' = Seen("uart_received") \cup {n}
            /\ timeline'[n].t = begun["serial"] /\ timeline'[n].text \in Texts
            /\ timeline'[n].offset = UartBytes
            /\ \A i \in Seen("uart_received") : i < n /\ timeline'[i] = timeline[i]
<1>1. PICK text \in Texts : New([event |-> "uart_received", t |-> begun["serial"],
                                 offset |-> UartBytes, text |-> text])
  BY ChunkWrites
<1> DEFINE e == [event |-> "uart_received", t |-> begun["serial"],
                 offset |-> UartBytes, text |-> text]
<1>2. e.event = "uart_received" /\ e.t = begun["serial"] /\ e.text = text
      /\ e.offset = UartBytes
  OBVIOUS
<1>3. New(e) BY <1>1
<1> HIDE DEF e
<1>4. PICK n \in Nat :
         /\ OfKind(timeline', e.event) = OfKind(timeline, e.event) \cup {n}
         /\ timeline'[n] = e
         /\ \A i \in OfKind(timeline, e.event) : i < n /\ timeline'[i] = timeline[i]
  BY <1>3 DEF New, Gains
<1> QED BY <1>2, <1>4 DEF Seen

\* A chunk was read before now and after the chunks that are recorded.
LEMMA UartStep ==
  ASSUME IInv, MeasuredTypeOK, UartOrdered, [MeasuredNext]_measured
  PROVE  UartOrdered'
<1>a. [Next]_vars BY MeasuredStep
<1>b. TypeOK /\ LockInv /\ PowerInv /\ ClockInv BY DEF IInv
<1>c. now \in Nat /\ now' \in Nat /\ now <= now'
  BY <1>a, <1>b, NowGrows
<1>d. begun["serial"] \in Times /\ begun["serial"] <= now
  BY <1>b DEF TypeOK, ClockInv, Workers
<1> HIDE DEF Times, ChunkTexts
<1>1. CASE ConsoleKept
  <2>1. /\ Seen("uart_received")' = Seen("uart_received")
        /\ \A i \in Seen("uart_received") : timeline'[i] = timeline[i]
    BY <1>1 DEF ConsoleKept, Kept, Keeps, Seen
  <2>2. reference' = NoTime => reference = NoTime
    BY <1>1, <1>b DEF ConsoleKept, Arms, PublishReference, ArmUnknown, PowerInv,
                      PowerSection
  <2>3. \A i \in Seen("uart_received") : timeline[i].t <= now'
    BY <1>c, ChunkTimes DEF UartOrdered, Times, NoTime
  <2>4. worker'["serial"] = "record" =>
           \A i \in Seen("uart_received") : timeline[i].t <= begun'["serial"]
    BY <1>1, <2>3 DEF ConsoleKept, UartOrdered
  <2> QED BY <2>1, <2>2, <2>3, <2>4 DEF UartOrdered
<1>2. CASE ChunkStep
  <2>1. worker["serial"] = "record" /\ worker'["serial"] = "loop"
        /\ UNCHANGED <<now, reference>>
    BY <1>2, <1>b DEF ChunkStep, SerialRecords, Step, WorkerUnchanged, TypeOK, Workers
  <2>2. CASE reference = NoTime
    <3>1. Kept("uart_received")
      BY <1>2, <1>b, <2>2, ChunkWrites
    <3> QED BY <2>1, <2>2, <3>1 DEF UartOrdered, Kept, Keeps, Seen
  <2>3. CASE reference # NoTime
    <3>1. PICK n \in Nat :
             /\ Seen("uart_received")' = Seen("uart_received") \cup {n}
             /\ timeline'[n].t = begun["serial"]
             /\ \A i \in Seen("uart_received") : i < n /\ timeline'[i] = timeline[i]
      BY <1>2, <1>b, <2>3, ChunkAdded
    <3>2. \A i \in Seen("uart_received") : timeline[i].t <= begun["serial"] /\ i \in Nat
      BY <2>1, ChunkTimes DEF UartOrdered
    <3> QED BY <1>d, <2>1, <2>3, <3>1, <3>2 DEF UartOrdered, Times, NoTime
  <2> QED BY <2>2, <2>3
<1> QED BY <1>b, <1>1, <1>2, ConsoleWritten

LEMMA HeardInOrder ==
  ASSUME MeasuredTypeOK, UartOrdered
  PROVE  InOrder(timeline, Heard)
<1> HIDE DEF Times, ChunkTexts
<1> QED BY ChunkTimes DEF InOrder, UartOrdered, Heard

\* Chunks that stay as they are hold the markers that they held.
LEMMA FoundSame ==
  ASSUME NEW s, NEW u, NEW C, \A i \in C : u[i] = s[i]
  PROVE  Found(u, C) = Found(s, C)
<1> DEFINE text == Summary!Pieces(s, C)
<1>1. Summary!Pieces(u, C) = text
  BY DEF Summary!Pieces
<1>2. \A p \in text : p[1] \in C
  BY DEF Summary!Pieces
<1> HIDE DEF text
<1>3. \A p, q \in text : Summary!Before(u, p, q) <=> Summary!Before(s, p, q)
  BY <1>2 DEF Summary!Before, Summary!Precedes
<1>4. \A p \in text : Summary!Piece(u, p) = Summary!Piece(s, p)
  BY <1>2 DEF Summary!Piece
<1>5. \A m : m \in Summary!Markers(u, text) <=> m \in Summary!Markers(s, text)
  <2>1. \A m \in text \X text : m[1] \in text /\ m[2] \in text
    OBVIOUS
  <2> QED BY <1>3, <1>4, <2>1 DEF Summary!Markers
<1>6. Found(u, C) = Summary!Markers(u, text) /\ Found(s, C) = Summary!Markers(s, text)
  BY <1>1 DEF Found, text
<1> QED BY <1>5, <1>6

\* What chunk says of the text that was read.
LEMMA TextIs ==
  ASSUME TypeOK, NEW text \in Texts
  PROVE  /\ text = <<"head", "tail">> <=> chunk = "whole"
         /\ text[1] = "tail" <=> chunk = "tail"
         /\ text[Len(text)] = "head" <=> chunk = "head"
<1>1. CASE chunk = "noise"
  <2>1. text = <<"noise">> \/ text = <<"banner">> \/ text = <<"banner", "banner">>
    BY <1>1 DEF Texts
  <2>2. CASE text = <<"noise">> BY <1>1, <2>2
  <2>3. CASE text = <<"banner">> BY <1>1, <2>3
  <2>4. CASE text = <<"banner", "banner">> BY <1>1, <2>4
  <2> QED BY <2>1, <2>2, <2>3, <2>4, Zenon
<1>2. CASE chunk = "head" BY <1>2 DEF Texts
<1>3. CASE chunk = "tail" BY <1>3 DEF Texts
<1>4. CASE chunk = "whole"
  <2>1. text = <<"head", "tail">> BY <1>4 DEF Texts
  <2>2. Len(text) = 2 /\ text[1] = "head" /\ text[2] = "tail" BY <2>1
  <2>3. text[1] # "tail" /\ text[Len(text)] # "head" BY <2>2
  <2>4. chunk # "tail" /\ chunk # "head" BY <1>4
  <2> QED BY <1>4, <2>1, <2>3, <2>4, Zenon
<1> QED BY <1>1, <1>2, <1>3, <1>4 DEF TypeOK

\* Without a chunk there is no marker.
LEMMA NothingFound ==
  ASSUME NEW tl
  PROVE  Found(tl, {}) = {}
<1>1. InOrder(tl, {}) BY DEF InOrder
<1> QED BY <1>1, FoundPieces

\* A step that adds nothing to the window.
LEMMA MarkerKept ==
  ASSUME MeasuredTypeOK, UartOrdered, MarkerDerived, Heard' = Heard,
         \A i \in Heard : timeline'[i] = timeline[i],
         buffer' = buffer, ready'["serial"] = ready["serial"]
  PROVE  MarkerDerived'
<1>1. Found(timeline', Heard') = Found(timeline, Heard)
  BY FoundSame
<1>2. \A m \in Found(timeline, Heard) : m[2][1] \in Heard
  BY HeardInOrder, FoundPieces
<1>3. \A i \in Heard : EndsInHead(timeline', i) <=> EndsInHead(timeline, i)
  BY DEF EndsInHead
<1> QED BY <1>1, <1>2, <1>3 DEF MarkerDerived

\* The markers of a text that has grown: those from before, and those that the
\* new chunk completes.
LEMMA FoundGrows ==
  ASSUME NEW s, NEW u, NEW C, NEW n, Grows(s, u, C, n)
  PROVE  /\ Found(s, C) \subseteq Found(u, C \cup {n})
         /\ \A m \in Found(u, C \cup {n}) :
               \/ m \in Found(s, C)
               \/ /\ m[2][1] = n
                  /\ \/ u[n].text = <<"head", "tail">>
                     \/ /\ u[n].text[1] = "tail"
                        /\ \E e \in C : (\A c \in C : c <= e) /\ EndsInHead(s, e)
<1> DEFINE D == C \cup {n}
<1>a. InOrder(s, C) /\ InOrder(u, D) /\ n \in Nat /\ \A c \in C : c < n /\ u[c] = s[c]
  BY DEF Grows
<1>1. ASSUME NEW m \in Found(s, C) PROVE m \in Found(u, D)
  <2>1. PICK i \in C, j \in C :
           \E k \in 1..Len(s[i].text), l \in 1..Len(s[j].text) : m = <<<<i, k>>, <<j, l>>>>
    BY <1>a, <1>1, FoundPieces
  <2>2. PICK k \in 1..Len(s[i].text), l \in 1..Len(s[j].text) : m = <<<<i, k>>, <<j, l>>>>
    BY <2>1
  <2> QED BY <1>1, <2>2, FoundKept
<1>2. ASSUME NEW m \in Found(u, D)
      PROVE  \/ m \in Found(s, C)
             \/ /\ m[2][1] = n
                /\ \/ u[n].text = <<"head", "tail">>
                   \/ /\ u[n].text[1] = "tail"
                      /\ \E e \in C : (\A c \in C : c <= e) /\ EndsInHead(s, e)
  <2>1. PICK i \in D, j \in D :
           \E k \in 1..Len(u[i].text), l \in 1..Len(u[j].text) : m = <<<<i, k>>, <<j, l>>>>
    <3> HIDE DEF D
    <3> QED BY <1>a, <1>2, FoundPieces
  <2>2. PICK k \in 1..Len(u[i].text), l \in 1..Len(u[j].text) : m = <<<<i, k>>, <<j, l>>>>
    BY <2>1
  <2>3. i <= j
    <3>1. <<<<i, k>>, <<j, l>>>> \in Found(u, D) BY <1>2, <2>2
    <3>2. i < j \/ i = j
      <4> HIDE DEF D
      <4> QED BY <1>a, <3>1, FoundIs
    <3>3. i \in Nat /\ j \in Nat
      <4> HIDE DEF D
      <4> QED BY <1>a, LengthsAre
    <3> QED BY <3>2, <3>3
  <2>4. CASE j = n
    <3>1. m[2][1] = n BY <2>2, <2>4
    <3>2. <<<<i, k>>, <<n, l>>>> \in Found(u, D) /\ l \in 1..Len(u[n].text)
      BY <1>2, <2>2, <2>4
    <3> QED BY <3>1, <3>2, FoundNew
  <2>5. CASE j \in C
    <3>1. i \in C /\ i \in Nat /\ j \in Nat
      <4>1. i \in Nat /\ j \in Nat /\ j < n
        <5> HIDE DEF D
        <5> QED BY <1>a, <2>5, LengthsAre
      <4> QED BY <1>a, <2>3, <4>1
    <3>2. k \in 1..Len(s[i].text) /\ l \in 1..Len(s[j].text)
      BY <1>a, <2>5, <3>1
    <3> QED BY <1>2, <2>2, <2>5, <3>1, <3>2, FoundKept
  <2> QED BY <2>4, <2>5
<1> QED BY <1>1, <1>2

\* The chunk that a reading leaves in the window, and what the search makes of it.
LEMMA MarkerGrows ==
  ASSUME TypeOK, MeasuredTypeOK, UartOrdered, MarkerDerived, HasMarker, SerialRecords,
         reference # NoTime, reference <= begun["serial"], worker["serial"] = "record",
         NEW n \in Nat, Heard' = Heard \cup {n}, Grows(timeline, timeline', Heard, n),
         timeline'[n].t = begun["serial"], timeline'[n].text \in Texts
  PROVE  MarkerDerived'
<1> DEFINE stamp == begun["serial"]
           found == Found(timeline, Heard)
           now_  == Found(timeline', Heard')
<1> HIDE DEF Times, ChunkTexts, Texts
<1>a. stamp \in Nat /\ reference \in Nat /\ ready["serial"] \in Times
      /\ "serial" \in Workers /\ ready \in [Workers -> Times]
  BY DEF TypeOK, Workers, Times, NoTime
<1>b. InOrder(timeline, Heard) /\ InOrder(timeline', Heard')
      /\ \A c \in Heard : c < n /\ c \in Nat /\ timeline'[c] = timeline[c]
  BY LengthsAre DEF Grows
<1>c. \A c \in Heard : timeline[c].t <= stamp
  BY DEF Heard, UartOrdered
<1>d. /\ timeline'[n].text = <<"head", "tail">> <=> chunk = "whole"
      /\ timeline'[n].text[1] = "tail" <=> chunk = "tail"
      /\ EndsInHead(timeline', n) <=> chunk = "head"
  BY TextIs DEF EndsInHead
<1>e. /\ found \subseteq now_
      /\ \A m \in now_ :
            \/ m \in found
            \/ /\ m[2][1] = n
               /\ \/ chunk = "whole"
                  \/ /\ chunk = "tail"
                     /\ \E e \in Heard : (\A c \in Heard : c <= e) /\ EndsInHead(timeline, e)
  BY <1>d, FoundGrows
<1>f. \A m \in found : m[2][1] \in Heard
  BY <1>b, FoundPieces
<1> HIDE DEF found, now_
<1>1. CASE ready["serial"] # NoTime
  <2>1. ready'["serial"] = ready["serial"]
    BY <1>1 DEF SerialRecords, Searched
  <2>2. PICK m \in found : timeline[m[2][1]].t = ready["serial"]
    BY <1>1 DEF MarkerDerived, found
  <2>3. ready["serial"] <= stamp
    BY <1>c, <1>f, <2>2
  <2>4. m \in now_ /\ timeline'[m[2][1]].t = ready'["serial"]
    BY <1>b, <1>e, <1>f, <2>1, <2>2
  <2>5. ASSUME NEW q \in now_ PROVE ready'["serial"] <= timeline'[q[2][1]].t
    <3>1. CASE q \in found
      BY <1>1, <1>b, <1>f, <2>1, <3>1 DEF MarkerDerived, found
    <3>2. CASE q[2][1] = n
      BY <2>1, <2>3, <3>2
    <3> QED BY <1>e, <3>1, <3>2
  <2> QED BY <1>1, <2>1, <2>4, <2>5 DEF MarkerDerived, now_
<1>2. CASE ready["serial"] = NoTime
  <2>a. found = {} BY <1>2 DEF MarkerDerived, found
  <2>b. Searched(stamp) BY <1>2 DEF Searched
  <2>c. \A m \in now_ : m[2][1] = n BY <1>e, <2>a
  <2>1. CASE MarkerComplete
    <3>1. ready'["serial"] = stamp
      BY <1>2, <1>a, <2>1, <2>b DEF SerialRecords, MarkReady
    <3>2. now_ # {}
      <4>1. CASE chunk = "whole"
        BY <1>d, <4>1, FoundWhole DEF now_
      <4>2. CASE chunk = "tail" /\ buffer = "head"
        <5>1. Heard # {} BY <1>2, <4>2 DEF MarkerDerived
        <5>2. Heard \subseteq 0..n BY <1>b
        <5>3. PICK e \in Heard : \A c \in Heard : c <= e
          BY <5>1, <5>2, GreatestExists
        <5>4. EndsInHead(timeline, e)
          BY <1>2, <4>2, <5>3 DEF MarkerDerived
        <5>5. <<<<e, Len(timeline[e].text)>>, <<n, 1>>>> \in Found(timeline', Heard \cup {n})
          BY <1>d, <4>2, <5>3, <5>4, FoundComplete
        <5> QED BY <5>5 DEF now_
      <4> QED BY <2>1, <4>1, <4>2 DEF MarkerComplete
    <3>3. PICK m \in now_ : TRUE BY <3>2
    <3>4. timeline'[m[2][1]].t = ready'["serial"]
      BY <2>c, <3>1
    <3>5. \A q \in now_ : ready'["serial"] <= timeline'[q[2][1]].t
      BY <1>a, <2>c, <3>1
    <3>6. ready'["serial"] # NoTime BY <1>a, <3>1 DEF NoTime
    <3> QED BY <3>4, <3>5, <3>6 DEF MarkerDerived, now_
  <2>2. CASE ~MarkerComplete
    <3>1. ready' = ready /\ buffer' = (IF chunk = "head" THEN "head" ELSE "clear")
      BY <2>2, <2>b DEF SerialRecords
    <3>2. now_ = {}
      <4>1. SUFFICES ASSUME NEW m \in now_ PROVE FALSE
        OBVIOUS
      <4>2. chunk # "whole" BY <2>2 DEF MarkerComplete
      <4>3. /\ chunk = "tail"
            /\ \E e \in Heard : (\A c \in Heard : c <= e) /\ EndsInHead(timeline, e)
        BY <1>e, <2>a, <4>2
      <4>4. buffer = "head"
        BY <1>2, <4>3 DEF MarkerDerived
      <4> QED BY <2>2, <4>3, <4>4 DEF MarkerComplete
    <3>3. ASSUME NEW i \in Heard', \A j \in Heard' : j <= i
          PROVE  buffer' = "head" <=> EndsInHead(timeline', i)
      <4>1. i = n BY <1>b, <3>3
      <4> QED BY <1>d, <3>1, <4>1
    <3>4. Heard' # {} OBVIOUS
    <3> QED BY <1>2, <3>1, <3>2, <3>3, <3>4 DEF MarkerDerived, now_
  <2> QED BY <2>1, <2>2
<1> QED BY <1>1, <1>2

\* Readiness of the console is in step with the text in the timeline.
LEMMA ConsoleStep ==
  ASSUME IInv, MeasuredTypeOK, ConsoleRecorded, [MeasuredNext]_measured
  PROVE  ConsoleRecorded'
<1>a. TypeOK /\ PowerInv BY DEF IInv
<1>b. UartOrdered /\ UartOrdered' BY UartStep DEF ConsoleRecorded
<1> SUFFICES ASSUME HasMarker PROVE MarkerDerived'
  BY <1>b DEF ConsoleRecorded
<1>d. MarkerDerived BY DEF ConsoleRecorded
<1> HIDE DEF Times, ChunkTexts
<1>1. CASE Arms /\ buffer' = "clear" /\ Kept("uart_received")
           /\ ready'["serial"] = ready["serial"]
  <2>1. reference = NoTime
    BY <1>1, <1>a DEF Arms, PublishReference, ArmUnknown, PowerInv, PowerSection
  <2>2. Heard' = {}
    BY <1>1, <1>b, <2>1 DEF Heard, UartOrdered, Kept, Keeps, Seen
  <2>3. ready'["serial"] = NoTime
    BY <1>1, <2>1 DEF IInv, RecordInv, EvidenceAfterReference, Workers
  <2>4. Found(timeline', Heard') = {}
    BY <2>2, NothingFound
  <2> QED BY <1>1, <2>2, <2>3, <2>4 DEF MarkerDerived
<1>2. CASE Kept("uart_received") /\ UNCHANGED <<reference, buffer>>
           /\ ready'["serial"] = ready["serial"]
  <2>1. Heard' = Heard /\ \A i \in Heard : timeline'[i] = timeline[i]
    BY <1>2 DEF Heard, Kept, Keeps, Seen
  <2> QED BY <1>2, <1>b, <1>d, <2>1, MarkerKept
<1>3. CASE ChunkStep
  <2>1. worker["serial"] = "record" /\ SerialRecords /\ reference' = reference
    BY <1>3 DEF ChunkStep, SerialRecords, Step, WorkerUnchanged
  <2>a. begun["serial"] \in Times /\ reference \in Times
    BY <1>a DEF TypeOK, Workers
  <2>2. CASE reference = NoTime
    <3>1. Kept("uart_received") BY <1>3, <1>a, <2>2, ChunkWrites
    <3>2. buffer' = buffer /\ ready' = ready
      BY <2>1, <2>2 DEF SerialRecords, Searched
    <3> QED BY <1>2, <2>1, <3>1, <3>2
  <2>3. CASE reference # NoTime
    <3>1. PICK n \in Nat :
            /\ Seen("uart_received")' = Seen("uart_received") \cup {n}
            /\ timeline'[n].t = begun["serial"] /\ timeline'[n].text \in Texts
            /\ \A i \in Seen("uart_received") : i < n /\ timeline'[i] = timeline[i]
      BY <1>3, <1>a, <2>3, ChunkAdded
    <3>2. CASE begun["serial"] < reference
      <4>1. Heard' = Heard /\ \A i \in Heard : timeline'[i] = timeline[i]
        BY <2>1, <2>3, <2>a, <3>1, <3>2 DEF Heard, Times, NoTime
      <4>2. buffer' = buffer /\ ready' = ready
        BY <2>1, <2>a, <3>2 DEF SerialRecords, Searched, Times, NoTime
      <4> QED BY <1>b, <1>d, <4>1, <4>2, MarkerKept
    <3>3. CASE reference <= begun["serial"]
      <4>1. Heard' = Heard \cup {n}
        BY <2>1, <2>3, <3>1, <3>3 DEF Heard
      <4>2. InOrder(timeline, Heard) /\ InOrder(timeline', Heard')
        <5>1. InOrder(timeline, Heard) BY <1>b, HeardInOrder
        <5>2. Texts \subseteq ChunkTexts BY <1>a DEF Texts, ChunkTexts, TypeOK
        <5>3. \A i, j \in Heard' : i < j => timeline'[i].t <= timeline'[j].t
          BY <1>b DEF UartOrdered, Heard
        <5> HIDE DEF Texts
        <5>4. \A i \in Heard' : timeline'[i].t \in Times /\ timeline'[i].text \in ChunkTexts
          BY <2>a, <3>1, <4>1, <5>1, <5>2 DEF InOrder, Heard
        <5> QED BY <4>1, <5>1, <5>3, <5>4 DEF InOrder
      <4>3. Grows(timeline, timeline', Heard, n)
        BY <3>1, <4>1, <4>2 DEF Grows, Heard
      <4> QED BY <1>a, <1>b, <1>d, <2>1, <2>3, <3>1, <3>3, <4>1, <4>3, MarkerGrows
    <3> QED BY <2>a, <3>2, <3>3 DEF Times, NoTime
  <2> QED BY <2>2, <2>3
<1> QED BY <1>a, <1>1, <1>2, <1>3, ConsoleWritten DEF ConsoleKept

(***************************************************************************)
(* What the summary derives, the collector derived.                        *)
(***************************************************************************)
Derived == EndInv /\ LinkRecorded /\ ConsoleRecorded

LEMMA DerivedInit == MeasuredInit => LinkRecorded /\ ConsoleRecorded
<1> SUFFICES ASSUME MeasuredInit PROVE LinkRecorded /\ ConsoleRecorded
  OBVIOUS
<1> USE DEF MeasuredInit, Init
<1>1. Len(timeline) = 0 OBVIOUS
<1>2. \A k : Seen(k) = {} BY <1>1 DEF Seen, OfKind
<1>3. Moves = {} /\ Heard = {} BY <1>2 DEF Moves, Heard
<1>4. MovesOrdered /\ MovesAlternate /\ LinkDerived
  BY <1>2, <1>3 DEF MovesOrdered, MovesAlternate, LinkDerived, Workers
<1>5. UartOrdered BY <1>2 DEF UartOrdered
<1>6. Found(timeline, Heard) = {} BY <1>3, NothingFound
<1>7. MarkerDerived BY <1>3, <1>6 DEF MarkerDerived, Workers
<1> QED BY <1>4, <1>5, <1>7 DEF LinkRecorded, ConsoleRecorded

LEMMA DerivedInvariance == MeasuredSpec => [](IInv /\ Recorded /\ Derived)
<1>1. IInv /\ EndInv /\ Recorded /\ LinkRecorded /\ ConsoleRecorded /\ [MeasuredNext]_measured
        => LinkRecorded' /\ ConsoleRecorded'
  BY LinkStep, ConsoleStep DEF Recorded
<1> QED BY <1>1, DerivedInit, RecordedInvariance, MeasuredRefines, EndInvariance, PTL
        DEF MeasuredSpec, measured, Derived

\* The window of a published summary.
LEMMA PublishedWindow ==
  ASSUME IInv, Recorded, Published
  PROVE  /\ Window.start = reference /\ Window.end = NoTime /\ reference \in Nat
         /\ WindowEnd = NoTime
         /\ WindowChunks = Heard
         /\ Summary!FirstBoot(timeline, WindowText) = WindowText
         /\ ~SshSeen.clash
         /\ "carrier" \in Enabled => ~CarrierSeen.refused
         /\ Report.observations =
              [os |-> Summary!MarkerTime(timeline, WindowText), ssh |-> SshSeen.time,
               carrier |-> IF "carrier" \in Enabled THEN CarrierSeen.first ELSE NoTime]
         /\ Report.link = CarrierSeen
<1>a. TypeOK /\ MeasuredTypeOK /\ ReferenceRecorded
  BY DEF IInv, Recorded
<1>1. Summary!Eligible(Report) BY DEF Published
<1>2. Window.start = reference /\ Window.end = NoTime /\ reference \in Nat
  BY <1>1, <1>a, ReportIs, WindowIs DEF TypeOK, Times
<1>3. SecondBoot = NoTime BY <1>1, ReportIs
<1>4. WindowEnd = NoTime BY <1>2, <1>3 DEF WindowEnd
<1>5. WindowChunks = Heard
  BY <1>a, <1>2, PlacesAre DEF WindowChunks, Heard, NoTime
<1>6. Summary!Restarts(timeline, WindowText) = {}
  <2> DEFINE stamps == {Summary!Stamp(timeline, q) : q \in Summary!Restarts(timeline, WindowText)}
  <2>1. \A q \in Summary!Restarts(timeline, WindowText) : q \in WindowText
    BY DEF Summary!Restarts
  <2>2. stamps \subseteq Nat
    BY <1>a, <1>2, <2>1, PiecesAre DEF WindowText, WindowChunks, Times, NoTime
  <2>3. Summary!FirstOf(stamps) = NoTime
    BY <1>3 DEF SecondBoot
  <2>4. stamps = {}
    <3> HIDE DEF stamps
    <3>1. stamps # {} => Summary!FirstOf(stamps) \in stamps
      BY <2>2, FirstOfTimes
    <3>2. NoTime \notin Nat BY DEF NoTime
    <3> QED BY <2>2, <2>3, <3>1, <3>2, Zenon
  <2> QED BY <2>4
<1>7. Summary!FirstBoot(timeline, WindowText) = WindowText
  BY <1>6 DEF Summary!FirstBoot
<1> QED BY <1>1, <1>2, <1>4, <1>5, <1>7, ReportIs, Zenon

LEMMA BannerAgrees ==
  ASSUME IInv, Recorded, Published
  PROVE  SshSeen.time = ready["net"]
<1>a. TypeOK /\ MeasuredTypeOK /\ SshRecorded
  BY DEF IInv, Recorded
<1>b. Window.start = reference /\ WindowEnd = NoTime /\ reference \in Nat /\ ~SshSeen.clash
  BY PublishedWindow
<1> DEFINE stamps == Summary!Stamps(timeline,
                        Summary!Places(timeline, "ssh_banner_ready", reference, NoTime))
           seen  == Summary!FirstOf(stamps)
           noted == IF ready["net"] >= reference THEN ready["net"] ELSE NoTime
<1>1. stamps = {timeline[i].t : i \in {j \in Seen("ssh_banner_ready") : reference <= timeline[j].t}}
  BY <1>a, PlacesAre DEF Summary!Stamps
<1>2. ready["net"] \in Times
  BY <1>a DEF TypeOK, Workers
<1>3. \/ SshSeen.time = seen /\ seen # NoTime
      \/ seen = NoTime /\ SshSeen.time \in {noted, NoTime}
  BY <1>b DEF SshSeen, Summary!SshBanner, Metadata, Summary!None, NoTime
<1>4. CASE ready["net"] = NoTime
  <2>1. stamps = {} BY <1>a, <1>1, <1>4 DEF SshRecorded
  <2>2. seen = NoTime BY <2>1, FirstOfTimes
  <2>3. noted = NoTime BY <1>4
  <2> QED BY <1>3, <1>4, <2>2, <2>3
<1>5. CASE ready["net"] # NoTime
  <2>1. reference <= ready["net"]
    <3>1. reference <= evidence["net"] /\ evidence["net"] <= ready["net"]
      BY <1>5 DEF IInv, RecordInv, EvidenceAfterReference, Workers
    <3>2. reference \in Int /\ evidence["net"] \in Int /\ ready["net"] \in Int
      BY <1>a DEF TypeOK, Workers, Times, NoTime
    <3> QED BY <3>1, <3>2
  <2>2. stamps = {ready["net"]}
    BY <1>a, <1>1, <1>5, <2>1 DEF SshRecorded
  <2>3. ready["net"] \in Nat
    BY <1>2, <1>5 DEF Times
  <2> HIDE DEF stamps
  <2>4. seen = ready["net"]
    BY <2>2, <2>3, FirstOfTimes
  <2> QED BY <1>3, <1>5, <2>4
<1> QED BY <1>4, <1>5

LEMMA MarkerAgrees ==
  ASSUME IInv, Recorded, Derived, Published, HasMarker
  PROVE  Summary!MarkerTime(timeline, WindowText) = ready["serial"]
<1>a. TypeOK /\ MeasuredTypeOK /\ UartOrdered /\ MarkerDerived
  BY DEF IInv, Recorded, Derived, ConsoleRecorded
<1> DEFINE found  == Found(timeline, Heard)
           stamps == {Summary!Stamp(timeline, m[2]) : m \in found}
<1>1. Summary!MarkerTime(timeline, WindowText) = Summary!FirstOf(stamps)
  BY PublishedWindow DEF Summary!MarkerTime, WindowText, Found
<1>2. \A m \in found : Summary!Stamp(timeline, m[2]) = timeline[m[2][1]].t
  BY DEF Summary!Stamp
<1>3. stamps \subseteq Nat
  <2>1. \A m \in found : m[2][1] \in Heard
    BY <1>a, HeardInOrder, FoundPieces
  <2>2. \A i \in Heard : timeline[i].t \in Nat
    <3> HIDE DEF Times
    <3>1. \A i \in Heard : timeline[i].t \in Times /\ reference # NoTime /\ reference <= timeline[i].t
      BY <1>a, ChunkTimes DEF Heard
    <3> QED BY <3>1, <1>a DEF TypeOK, Times, NoTime
  <2> HIDE DEF found
  <2> QED BY <1>2, <2>1, <2>2
<1> HIDE DEF found
<1>4. CASE ready["serial"] = NoTime
  <2>1. found = {} BY <1>a, <1>4 DEF MarkerDerived, found
  <2>2. stamps = {} BY <2>1
  <2> QED BY <1>1, <1>4, <2>2, FirstOfTimes
<1>5. CASE ready["serial"] # NoTime
  <2>1. ready["serial"] \in stamps
    <3>1. PICK m \in found : timeline[m[2][1]].t = ready["serial"]
      BY <1>a, <1>5 DEF MarkerDerived, found
    <3> QED BY <1>2, <3>1
  <2>2. \A t \in stamps : ready["serial"] <= t
    BY <1>a, <1>5, <1>2 DEF MarkerDerived, found
  <2> HIDE DEF stamps
  <2>3. Summary!FirstOf(stamps) \in stamps /\ Summary!FirstOf(stamps) <= ready["serial"]
    BY <1>3, <2>1, FirstOfTimes
  <2>4. ready["serial"] <= Summary!FirstOf(stamps)
        /\ Summary!FirstOf(stamps) \in Nat /\ ready["serial"] \in Nat
    BY <1>3, <2>1, <2>2, <2>3, Zenon
  <2>5. Summary!FirstOf(stamps) = ready["serial"]
    BY <2>3, <2>4
  <2> QED BY <1>1, <2>5
<1> QED BY <1>4, <1>5

\* The link, as the summary of an accepted capture has it.
LEMMA LinkAgrees ==
  ASSUME IInv, Recorded, Derived, Published, "carrier" \in Enabled
  PROVE  /\ CarrierSeen.first = ready["carrier"]
         /\ CarrierSeen.dropped = dropped
         /\ CarrierSeen.lastUp = lastUp
         /\ CarrierSeen.stable = (ready["carrier"] # NoTime /\ lastState = "up" /\ ~dropped)
<1>a. /\ TypeOK /\ MeasuredTypeOK /\ MovesOrdered /\ LinkDerived
      /\ ready["carrier"] \in Times /\ lastUp \in Times /\ dropped \in BOOLEAN
      /\ now \in Nat
  BY DEF IInv, Recorded, Derived, LinkRecorded, TypeOK, Workers
<1>b. /\ Window.start = reference /\ WindowEnd = NoTime /\ reference \in Nat
      /\ ~CarrierSeen.refused
  BY PublishedWindow
<1> DEFINE moves == Summary!Places(timeline, "carrier_transition", reference, NoTime)
           first == ready["carrier"]
           ups   == Summary!Turns(timeline, moves, "up")
           downs == Summary!Turns(timeline, moves, "down")
           drops == {t \in downs : t >= first}
           state == Summary!LinkState(timeline, moves)
<1>1. /\ CarrierSeen.first = first
      /\ CarrierSeen.dropped = (first # NoTime /\ drops # {})
      /\ CarrierSeen.lastUp = Summary!LastOf(ups)
      /\ CarrierSeen.stable = (first # NoTime /\ state = "up" /\ drops = {})
      /\ lastState = state
  BY <1>b DEF CarrierSeen, Summary!CarrierObservations, Summary!EndAgrees, Metadata,
              Summary!None, NoTime
<1>2. moves = Moves
  BY <1>a, <1>b, PlacesAre DEF Moves, NoTime
<1>3. /\ ups = {timeline[i].t : i \in {j \in Moves : timeline[j].carrier = "up"}}
      /\ downs = {timeline[i].t : i \in {j \in Moves : timeline[j].carrier = "down"}}
  BY <1>2 DEF Summary!Turns, Summary!Stamps
<1>4. \A i \in Moves : timeline[i].t \in Nat /\ timeline[i].t <= now
  <2>1. \A i \in Moves : timeline[i].t \in Times /\ reference <= timeline[i].t
                         /\ timeline[i].t <= now
    BY <1>a, TransitionTimes DEF Moves, MovesOrdered
  <2> QED BY <1>b, <2>1 DEF Times, NoTime
<1> HIDE DEF moves, state, ups, downs
<1>5. Summary!LastOf(ups) = lastUp
  <2>1. CASE lastUp = NoTime
    <3>1. ups = {} BY <1>a, <1>3, <2>1 DEF LinkDerived
    <3> QED BY <2>1, <3>1 DEF Summary!LastOf, Summary!None, NoTime
  <2>2. CASE lastUp # NoTime
    <3>1. lastUp \in ups /\ \A t \in ups : t <= lastUp
      BY <1>a, <1>3, <2>2 DEF LinkDerived
    <3>2. ups \subseteq 0..now
      BY <1>a, <1>3, <1>4
    <3>3. Summary!Max(ups) \in ups /\ lastUp <= Summary!Max(ups)
      BY <1>a, <3>1, <3>2, Greatest
    <3>4. Summary!Max(ups) \in Nat /\ lastUp \in Nat
      <4>1. Summary!Max(ups) \in 0..now /\ lastUp \in 0..now
        BY <3>1, <3>2, <3>3, Zenon
      <4> QED BY <4>1, <1>a
    <3>5. Summary!Max(ups) = lastUp
      BY <3>1, <3>3, <3>4
    <3> QED BY <3>1, <3>5 DEF Summary!LastOf
  <2> QED BY <2>1, <2>2
<1>6. first = NoTime => ~dropped
  BY <1>a DEF LinkDerived
<1>7. first # NoTime => (dropped <=> drops # {})
  <2>1. SUFFICES ASSUME first # NoTime PROVE dropped <=> drops # {}
    OBVIOUS
  <2>2. \A i \in Moves : first <= timeline[i].t
    BY <1>a, <2>1 DEF LinkDerived
  <2>3. drops = downs
    BY <1>a, <1>3, <1>4, <2>2 DEF Times, NoTime
  <2>4. dropped <=> \E i \in Moves : timeline[i].carrier = "down"
    BY <1>a, <2>1 DEF LinkDerived
  <2> QED BY <1>3, <2>3, <2>4
<1> HIDE DEF first, drops
<1>8. CarrierSeen.dropped = dropped
  BY <1>1, <1>6, <1>7, <1>a
<1>9. CarrierSeen.stable = (first # NoTime /\ lastState = "up" /\ ~dropped)
  BY <1>1, <1>7, <1>a
<1> QED BY <1>1, <1>5, <1>8, <1>9, Zenon DEF first

\* What a published summary says of the network, the console and the link
\* (summarize_run and carrier_observations, lines 80-309) is what the collector
\* itself derived as the capture went on: mark_ready's times, and the drop and
\* the last rise that record_carrier counted.
THEOREM SummarySound == MeasuredSpec => []SummaryAgrees
<1>1. IInv /\ Recorded /\ Derived => SummaryAgrees
  <2> SUFFICES ASSUME IInv, Recorded, Derived, Published
               PROVE  /\ Report.observations.ssh = ready["net"]
                      /\ HasMarker => Report.observations.os = ready["serial"]
                      /\ "carrier" \in Enabled =>
                            /\ Report.observations.carrier = ready["carrier"]
                            /\ Report.link.dropped = dropped
                            /\ Report.link.lastUp = lastUp
                            /\ Report.link.stable =
                                  (ready["carrier"] # NoTime /\ lastState = "up" /\ ~dropped)
    BY DEF SummaryAgrees
  <2>1. /\ Report.observations =
              [os |-> Summary!MarkerTime(timeline, WindowText), ssh |-> SshSeen.time,
               carrier |-> IF "carrier" \in Enabled THEN CarrierSeen.first ELSE NoTime]
        /\ Report.link = CarrierSeen
    BY PublishedWindow
  <2> QED BY <2>1, BannerAgrees, MarkerAgrees, LinkAgrees
<1> QED BY <1>1, DerivedInvariance, PTL

(***************************************************************************)
(* The evidence that a summary checks: the baseline, the readiness, the    *)
(* end and the statistics of the carrier observer, and the offsets of the  *)
(* UART.                                                                   *)
(***************************************************************************)
Ended == {"final_up_check", "final_supply", "finish", "done"}

\* A reference follows the power command, if there is one, and comes when the
\* observer runs; a final supply that is at fault is an error.
SentRecorded ==
    /\ main \in {"write", "arm"} => attempted
    /\ reference # NoTime /\ HasSupply => sentAt # NoTime /\ attempted
    /\ reference # NoTime /\ "carrier" \in Enabled => worker["carrier"] # "unborn"
    /\ supplyFault => main \in {"finish", "done"} /\ (errors # {} \/ ~attempted)

BaselineRecorded ==
    /\ \A i \in Seen("carrier_down_baseline") :
          baseline # NoTime /\ timeline[i].t = baseline
    /\ \A i, j \in Seen("carrier_down_baseline") : i = j
    /\ baseline # NoTime => Seen("carrier_down_baseline") # {}
    /\ main \in BeforePower \cup {"baseline", "arm_unknown"} => baseline = NoTime

CarrierRecorded ==
    /\ \A i \in Seen("carrier_ready") :
          ready["carrier"] # NoTime /\ timeline[i].t = ready["carrier"]
    /\ \A i, j \in Seen("carrier_ready") : i = j
    /\ ready["carrier"] # NoTime => Seen("carrier_ready") # {}

\* The observer's last record holds what was last read, and when.
FinishedRecorded ==
    /\ main \in Ended \/ Seen("carrier_monitor_finished") = {}
    /\ main \in Ended /\ worker["carrier"] # "unborn" =>
           Seen("carrier_monitor_finished") # {}
    /\ \A i, j \in Seen("carrier_monitor_finished") : i = j
    /\ \A i \in Seen("carrier_monitor_finished") :
          /\ timeline[i].carrier = lastState /\ timeline[i].last = sampling.last
          /\ reference <= timeline[i].t

\* The samples since the reference, without a gap longer than the one that is
\* kept, and no transition but what one of them saw.
SamplingRecorded ==
    "carrier" \in Enabled /\ reference # NoTime =>
        /\ reference <= sampling.since /\ sampling.since <= now
        /\ sampling.gap <= sampling.since - reference
        /\ sampling.since - reference <= sampling.gap * sampling.count
        /\ sampling.read <= sampling.gap
        /\ Cardinality(Moves) <= sampling.count
        /\ sampling.count > 0 => sampling.last = sampling.since
        /\ \A i \in Moves : timeline[i].t <= sampling.since
        /\ worker["carrier"] = "read" => sampling.since <= begun["carrier"]
        /\ main \in Ended /\ worker["carrier"] # "unborn" /\ errors = {} =>
               sampling.count > 0

\* Each chunk begins where the one before it ends.
UartAdjoins ==
    \A i, j \in Seen("uart_received") :
        i < j /\ (\A k \in Seen("uart_received") : k <= i \/ j <= k) =>
            timeline[j].offset = timeline[i].offset + Len(timeline[i].text)

\* The end of run is reached through the final sample, if the observer ran, and
\* is not left.
LEMMA EndedFrame ==
  ASSUME TypeOK, EndInv, [Next]_vars
  PROVE  /\ main' \in Ended =>
               \/ main \in Ended
               \/ main = "final_sample" /\ FinalSample
               \/ worker["carrier"] = "unborn" /\ Join
         /\ main \in Ended => /\ main' \in Ended /\ UNCHANGED <<lastState, reference>>
                              /\ worker'["carrier"] = worker["carrier"]
<1> USE DEF Ended, SetupUnchanged, VerdictUnchanged, Goto, Raise, mainVars,
            recordVars,
            carrierVars, BeforePower, PowerSection, AfterPower, TryBlock
<1>1. CASE MainSetup
  BY <1>1, OptionsAssumption
  DEF MainSetup, Resolve, Identify, InitialSupply, StartWorker, Started, PowerOff,
      VerifyOff, Dwell, ColdCheck, CheckStop, Requery
<1>2. CASE MainPower
  BY <1>2 DEF MainPower, EnterPowerSection, TakeBaseline, Decide, WriteOn,
              PublishReference, VerifyOn, ArmUnknown
<1>3. CASE MainVerdict
  BY <1>3 DEF MainVerdict, WaitEnds, ReadMissing, ReadFinalUp, Verdict, Handle
<1>4. CASE Finally \/ Join \/ FinalUpCheck \/ FinalSupply \/ Finish
  BY <1>4 DEF Finally, Join, FinalUpCheck, FinalSupply, Finish
<1>5. CASE FinalSample BY <1>5 DEF FinalSample
<1>6. CASE Interrupt BY <1>6 DEF Interrupt
<1>7. CASE Others
  <2>1. UNCHANGED <<main, reference>>
    BY <1>7 DEF Others, Carrier, CarrierEnters, CarrierReads, CarrierReadFails,
                CarrierCommits, Serial, SerialReads, SerialReadFails, SerialRecords,
                Probe, ProbeBegins, ProbeEnds, ProbeMarks, CheckStopAgain, Leave,
                RecordFailure, SetStop, Tick, WorkerUnchanged, ProbeUnchanged
  <2>2. main \in Ended => worker["carrier"] \in {"unborn", "done"}
    BY DEF EndInv, Last
  <2> QED BY <1>7, <2>1, <2>2, EndOthers
<1>8. CASE OutputLost \/ UNCHANGED vars BY <1>8 DEF OutputLost, vars
<1> QED BY <1>1, <1>2, <1>3, <1>4, <1>5, <1>6, <1>7, <1>8
        DEF Next, Main, MainFinally, Others, Terminated

\* The power command is attempted once, and what run ends with it keeps.
LEMMA AttemptFrame ==
  ASSUME TypeOK, [Next]_vars
  PROVE  /\ attempted => attempted'
         /\ main' \in {"write", "arm"} => attempted' \/ main \in {"write", "arm"}
         /\ main \in {"finish", "done"} => main' \in {"finish", "done"} /\ attempted' = attempted
<1> USE DEF SetupUnchanged, VerdictUnchanged, Goto, Raise, mainVars,
            BeforePower, PowerSection, AfterPower, TryBlock, TypeOK
<1>1. CASE MainSetup
  BY <1>1, OptionsAssumption
  DEF MainSetup, Resolve, Identify, InitialSupply, StartWorker, Started, PowerOff,
      VerifyOff, Dwell, ColdCheck, CheckStop, Requery
<1>2. CASE MainPower
  BY <1>2 DEF MainPower, EnterPowerSection, TakeBaseline, Decide, WriteOn,
              PublishReference, VerifyOn, ArmUnknown
<1>3. CASE MainVerdict
  BY <1>3 DEF MainVerdict, WaitEnds, ReadMissing, ReadFinalUp, Verdict, Handle
<1>4. CASE MainFinally
  BY <1>4 DEF MainFinally, Finally, Join, FinalSample, FinalUpCheck, FinalSupply,
              Finish
<1>6. CASE Interrupt BY <1>6 DEF Interrupt
<1>7. CASE Others
  <2>1. UNCHANGED <<main, attempted>>
    BY <1>7 DEF Others, Carrier, CarrierEnters, CarrierReads, CarrierReadFails,
                CarrierCommits, Serial, SerialReads, SerialReadFails, SerialRecords,
                Probe, ProbeBegins, ProbeEnds, ProbeMarks, CheckStopAgain, Leave,
                RecordFailure, SetStop, Tick, WorkerUnchanged, ProbeUnchanged
  <2> QED BY <2>1
<1>8. CASE OutputLost \/ UNCHANGED vars BY <1>8 DEF OutputLost, vars
<1> QED BY <1>1, <1>2, <1>3, <1>4, <1>6, <1>7, <1>8 DEF Next, Main, Others, Terminated

\* An observer that runs is not unborn again.
LEMMA PresentFrame ==
  ASSUME TypeOK, [Next]_vars, worker["carrier"] # "unborn"
  PROVE  worker'["carrier"] # "unborn"
<1>1. CASE Main \/ Interrupt BY <1>1, MainFrame
<1>2. CASE Others BY <1>2, EndOthers
<1>3. CASE OutputLost \/ UNCHANGED vars BY <1>3 DEF OutputLost, vars
<1> QED BY <1>1, <1>2, <1>3 DEF Next, Others, Terminated

LEMMA SentStep ==
  ASSUME IInv, EndInv, MeasuredTypeOK, SentRecorded, [MeasuredNext]_measured
  PROVE  SentRecorded'
<1>a. [Next]_vars BY MeasuredStep
<1>b. TypeOK /\ PowerInv BY DEF IInv
<1>1. main' \in {"write", "arm"} => attempted'
  BY <1>a, <1>b, AttemptFrame DEF SentRecorded
<1>2. ASSUME reference' = reference
      PROVE  reference' # NoTime =>
                /\ HasSupply => sentAt' # NoTime /\ attempted'
                /\ "carrier" \in Enabled => worker'["carrier"] # "unborn"
  <2>1. reference # NoTime /\ HasSupply => sentAt' = sentAt
    BY <1>a, <1>b, SentFrame DEF PowerInv, PowerSection
  <2>2. reference # NoTime /\ HasSupply => sentAt' # NoTime /\ attempted'
    BY <1>a, <1>b, <2>1, AttemptFrame DEF SentRecorded
  <2>3. reference # NoTime /\ "carrier" \in Enabled => worker'["carrier"] # "unborn"
    BY <1>a, <1>b, PresentFrame DEF SentRecorded
  <2> QED BY <1>2, <2>2, <2>3
<1>3. ASSUME Arms
      PROVE  /\ HasSupply => sentAt' # NoTime /\ attempted'
             /\ "carrier" \in Enabled => worker'["carrier"] # "unborn"
  <2>1. HasSupply => PublishReference /\ main = "arm" /\ attempted /\ sentAt # NoTime
    BY <1>3, <1>b DEF Arms, PublishReference, ArmUnknown, PowerInv, HasSupply,
                      SentRecorded
  <2>2. HasSupply => attempted' /\ sentAt' # NoTime
    BY <1>a, <1>b, <2>1, AttemptFrame DEF PublishReference, mainVars
  <2>3. "carrier" \in Enabled => worker["carrier"] # "unborn"
    BY <1>3 DEF Arms, PublishReference, ArmUnknown, EndInv, Begun, PowerSection
  <2>4. "carrier" \in Enabled => worker'["carrier"] # "unborn"
    BY <1>a, <1>b, <2>3, PresentFrame
  <2> QED BY <2>2, <2>4
<1>4. reference' # NoTime =>
         /\ HasSupply => sentAt' # NoTime /\ attempted'
         /\ "carrier" \in Enabled => worker'["carrier"] # "unborn"
  BY <1>b, <1>2, <1>3, ReferenceWritten
<1>5. supplyFault' => main' \in {"finish", "done"} /\ (errors' # {} \/ ~attempted')
  <2>1. CASE supplyFault' = supplyFault
    <3>1. errors # {} => errors' # {}
      BY <1>b, ErrorsWritten
    <3> QED BY <1>a, <1>b, <2>1, <3>1, AttemptFrame DEF SentRecorded
  <2>2. CASE FinalSupplyStep
    <3>1. main = "final_supply" /\ main' = "finish" /\ attempted' = attempted
      BY <2>2 DEF FinalSupplyStep, FinalSupply, Goto
    <3>2. ~supplyFault BY <3>1 DEF SentRecorded
    <3>3. CASE FinalSupplyTaken /\ supplyFault' = (alarm \/ output = "off")
      BY <1>b, <3>1, <3>3 DEF FinalSupplyTaken, SupplyHealthy, Fail, TypeOK
    <3>4. CASE UNCHANGED supplyFault
      BY <3>2, <3>4
    <3> QED BY <2>2, <3>3, <3>4 DEF FinalSupplyStep
  <2>3. supplyFault' = supplyFault \/ FinalSupplyStep
    BY DEF MeasuredNext, Arms, BaselineStep, SampleStep, FinalSampleStep, SshStep,
           ChunkStep,
           FailureStep, Silent, measured, measuredVars
  <2> QED BY <2>1, <2>2, <2>3
<1> QED BY <1>1, <1>4, <1>5 DEF SentRecorded

\* The baseline's record and the first readiness are written once.
LEMMA BaselineStays ==
  ASSUME TypeOK, MeasuredTypeOK, [MeasuredNext]_measured
  PROVE  BaselineStep \/ Kept("carrier_down_baseline")
<1>1. CASE Arms BY <1>1, ArmsWrites
<1>2. CASE SampleStep BY <1>2, SampleWrites
<1>3. CASE FinalSampleStep BY <1>3, FinalSampleWrites
<1>4. CASE SshStep BY <1>4, SshWrites
<1>5. CASE ChunkStep BY <1>5, ChunkWrites
<1>6. CASE FailureStep BY <1>6, FailureWrites DEF ErrorWritten
<1>7. CASE FinalSupplyStep BY <1>7, FinalSupplyWrites DEF ErrorWritten
<1>8. CASE /\ ~Arms /\ ~BaselineStep /\ ~SampleStep /\ ~FinalSampleStep
           /\ ~SshStep /\ ~ChunkStep /\ ~FailureStep /\ ~FinalSupplyStep
  BY <1>8, SilentFrame
<1> QED BY <1>1, <1>2, <1>3, <1>4, <1>5, <1>6, <1>7, <1>8

LEMMA UnsentFrame ==
  ASSUME TypeOK, [Next]_vars, main' \in BeforePower \cup {"baseline", "arm_unknown"}
  PROVE  main \in BeforePower \cup {"baseline", "arm_unknown"} /\ baseline' = baseline
<1> USE DEF SetupUnchanged, VerdictUnchanged, Goto, Raise, mainVars, carrierVars,
            BeforePower, PowerSection, AfterPower, TryBlock
<1>1. CASE MainSetup
  BY <1>1, OptionsAssumption
  DEF MainSetup, Resolve, Identify, InitialSupply, StartWorker, Started, PowerOff,
      VerifyOff, Dwell, ColdCheck, CheckStop, Requery
<1>2. CASE MainPower
  BY <1>2 DEF MainPower, EnterPowerSection, TakeBaseline, Decide, WriteOn,
              PublishReference, VerifyOn, ArmUnknown
<1>3. CASE MainVerdict
  BY <1>3 DEF MainVerdict, WaitEnds, ReadMissing, ReadFinalUp, Verdict, Handle
<1>4. CASE MainFinally
  BY <1>4 DEF MainFinally, Finally, Join, FinalSample, FinalUpCheck, FinalSupply,
              Finish
<1>6. CASE Interrupt BY <1>6 DEF Interrupt
<1>7. CASE Others
  <2>1. UNCHANGED <<main, baseline>>
    BY <1>7 DEF Others, Carrier, CarrierEnters, CarrierReads, CarrierReadFails,
                CarrierCommits, Serial, SerialReads, SerialReadFails, SerialRecords,
                Probe, ProbeBegins, ProbeEnds, ProbeMarks, CheckStopAgain, Leave,
                RecordFailure, SetStop, Tick, WorkerUnchanged, ProbeUnchanged
  <2> QED BY <1>7, <2>1
<1>8. CASE OutputLost \/ UNCHANGED vars BY <1>8 DEF OutputLost, vars
<1> QED BY <1>1, <1>2, <1>3, <1>4, <1>6, <1>7, <1>8 DEF Next, Main, Others, Terminated

LEMMA BaselineRecordStep ==
  ASSUME IInv, MeasuredTypeOK, BaselineRecorded, [MeasuredNext]_measured
  PROVE  BaselineRecorded'
<1>a. [Next]_vars BY MeasuredStep
<1>b. TypeOK /\ LockInv BY DEF IInv
<1>1. main' \in BeforePower \cup {"baseline", "arm_unknown"} => baseline' = NoTime
  BY <1>a, <1>b, UnsentFrame DEF BaselineRecorded
<1>2. CASE Kept("carrier_down_baseline") /\ baseline' = baseline
  BY <1>1, <1>2 DEF BaselineRecorded, Kept, Keeps, Seen
<1>3. CASE BaselineStep /\ ~(Kept("carrier_down_baseline") /\ baseline' = baseline)
  <2>1. baseline = NoTime
    BY <1>3 DEF BaselineStep, TakeBaseline, BaselineRecorded
  <2>2. Seen("carrier_down_baseline") = {}
    BY <2>1 DEF BaselineRecorded
  <2>3. timeline' = timeline => \A k : Kept(k)
    BY DEF Kept, Keeps
  <2>4. baseline' = now /\ New(At("carrier_down_baseline", now))
    BY <1>3, <1>b, <2>3, BaselineWrites
  <2>5. PICK n \in Nat : Seen("carrier_down_baseline")' = {n}
                         /\ timeline'[n] = At("carrier_down_baseline", now)
    BY <2>2, <2>4 DEF New, Gains, Seen, At
  <2>6. timeline'[n].t = now BY <2>5 DEF At
  <2>7. now # NoTime BY <1>b DEF TypeOK, NoTime
  <2> QED BY <1>1, <2>4, <2>5, <2>6, <2>7 DEF BaselineRecorded
<1> QED BY <1>b, <1>2, <1>3, BaselineStays, PowerFrame

LEMMA CarrierRecordStep ==
  ASSUME IInv, EndInv, MeasuredTypeOK, CarrierRecorded, [MeasuredNext]_measured
  PROVE  CarrierRecorded'
<1>a. TypeOK BY DEF IInv
<1>1. CASE ready'["carrier"] = ready["carrier"] /\ Kept("carrier_ready")
  <2>1. Seen("carrier_ready")' = Seen("carrier_ready")
        /\ \A i \in Seen("carrier_ready") : timeline'[i] = timeline[i]
    BY <1>1 DEF Kept, Keeps, Seen
  <2> QED BY <1>1, <2>1 DEF CarrierRecorded
<1>2. CASE /\ ready["carrier"] = NoTime /\ ready'["carrier"] = now
           /\ New(At("carrier_ready", now))
  <2>1. Seen("carrier_ready") = {}
    BY <1>2 DEF CarrierRecorded
  <2>2. PICK n \in Nat : Seen("carrier_ready")' = {n}
                         /\ timeline'[n] = At("carrier_ready", now)
    BY <1>2, <2>1 DEF New, Gains, Seen, At
  <2>3. timeline'[n].t = now
    BY <2>2 DEF At
  <2>4. now # NoTime
    BY <1>a DEF TypeOK, NoTime
  <2> QED BY <1>2, <2>2, <2>3, <2>4 DEF CarrierRecorded
<1>3. ASSUME NEW v \in {"down", "up"}, Read(v)
      PROVE  \/ ready'["carrier"] = ready["carrier"] /\ Kept("carrier_ready")
             \/ /\ ready["carrier"] = NoTime /\ ready'["carrier"] = now
                /\ New(At("carrier_ready", now))
  <2>1. PICK b : RecordCarrier(v, b) BY <1>3 DEF Read
  <2>2. \/ ready'["carrier"] = ready["carrier"]
        \/ ready["carrier"] = NoTime /\ ready'["carrier"] = now
    BY <1>a, <2>1 DEF RecordCarrier, MarkReady, TypeOK, Workers
  <2> QED BY <1>3, <2>2 DEF Read, Watched
<1> QED BY <1>1, <1>2, <1>3, LinkWritten DEF LinkKept

\* A chunk's offset is the end of the one before it.
LEMMA UartBytesIs ==
  ASSUME MeasuredTypeOK, NEW e \in Seen("uart_received"),
         \A k \in Seen("uart_received") : k <= e
  PROVE  UartBytes = timeline[e].offset + Len(timeline[e].text)
<1>1. Chunks = Seen("uart_received")
  <2>1. \A i \in Seen("uart_received") : NoTime <= timeline[i].t
    BY ChunkTimes DEF Times, NoTime
  <2> QED BY <2>1, ChunksAre DEF Seen
<1>2. Chunks \subseteq 0..Len(timeline) /\ Len(timeline) \in Nat
  BY <1>1, ChunkTimes
<1>3. Summary!Max(Chunks) \in Chunks /\ e <= Summary!Max(Chunks)
  BY <1>1, <1>2, Greatest
<1>4. Summary!Max(Chunks) = e
  <2>1. Summary!Max(Chunks) <= e BY <1>1, <1>3
  <2>2. Summary!Max(Chunks) \in 0..Len(timeline) /\ e \in 0..Len(timeline)
    BY <1>1, <1>2, <1>3, Zenon
  <2> QED BY <1>2, <1>3, <2>1, <2>2
<1> QED BY <1>1, <1>4 DEF UartBytes

LEMMA AdjoinStep ==
  ASSUME IInv, MeasuredTypeOK, UartAdjoins, [MeasuredNext]_measured
  PROVE  UartAdjoins'
<1>b. TypeOK BY DEF IInv
<1>1. CASE Kept("uart_received")
  BY <1>1 DEF UartAdjoins, Kept, Keeps, Seen
<1>2. CASE ChunkStep /\ reference # NoTime
  <2>1. PICK n \in Nat :
            /\ Seen("uart_received")' = Seen("uart_received") \cup {n}
            /\ timeline'[n].offset = UartBytes
            /\ \A i \in Seen("uart_received") : i < n /\ timeline'[i] = timeline[i]
    BY <1>2, <1>b, ChunkAdded
  <2>2. SUFFICES ASSUME NEW i \in Seen("uart_received")', NEW j \in Seen("uart_received")',
                        i < j, \A k \in Seen("uart_received")' : k <= i \/ j <= k
                 PROVE  timeline'[j].offset = timeline'[i].offset + Len(timeline'[i].text)
    BY DEF UartAdjoins
  <2>3. \A k \in Seen("uart_received") : k \in Nat /\ k < n
    BY <2>1, ChunkTimes
  <2>4. i \in Seen("uart_received") /\ timeline'[i] = timeline[i]
    BY <2>1, <2>2, <2>3
  <2>5. CASE j \in Seen("uart_received")
    BY <2>1, <2>2, <2>4, <2>5 DEF UartAdjoins
  <2>6. CASE j = n
    <3>1. \A k \in Seen("uart_received") : k <= i
      BY <2>1, <2>2, <2>3, <2>6
    <3>2. UartBytes = timeline[i].offset + Len(timeline[i].text)
      BY <2>4, <3>1, UartBytesIs
    <3> QED BY <2>1, <2>4, <2>6, <3>2
  <2> QED BY <2>1, <2>5, <2>6
<1>3. ChunkStep /\ reference = NoTime => Kept("uart_received")
  BY <1>b, ChunkWrites
<1> QED BY <1>b, <1>1, <1>2, <1>3, ConsoleWritten DEF ConsoleKept

\* Only the final sample leads to the end that follows it.
LEMMA FinalFrame ==
  ASSUME TypeOK, [MeasuredNext]_measured, main = "final_sample"
  PROVE  FinalSampleStep \/ main' = main
<1> USE DEF WorkerUnchanged, ProbeUnchanged
<1>1. ~(\/ MainSetup \/ EnterPowerSection \/ WriteOn \/ VerifyOn \/ Decide \/ Arms
        \/ BaselineStep \/ WaitEnds \/ ReadMissing \/ ReadFinalUp \/ Verdict \/ Interrupt
        \/ Finally \/ Join \/ FinalUpCheck \/ Finish \/ FinalSupplyStep \/ Handle)
  BY OptionsAssumption
  DEF MainSetup, Resolve, Identify, InitialSupply, Started, PowerOff, StartWorker,
      VerifyOff, Dwell, ColdCheck, CheckStop, Requery, EnterPowerSection, WriteOn,
      VerifyOn,
      Decide, Arms, PublishReference, ArmUnknown, BaselineStep, TakeBaseline,
      WaitEnds,
      ReadMissing, ReadFinalUp, Verdict, Interrupt, Finally, Join, FinalUpCheck,
      Finish,
      FinalSupplyStep, FinalSupply, Handle, TryBlock, BeforePower, PowerSection,
      AfterPower
<1>2. CASE CarrierEnters \/ CarrierReadFails \/ CarrierCommits \/ SampleStep
           \/ SerialReads \/ SerialReadFails \/ CheckStopAgain \/ ChunkStep
  BY <1>2 DEF CarrierEnters, CarrierReadFails, CarrierCommits, SampleStep,
              CarrierReads,
              SerialReads, SerialReadFails, CheckStopAgain, ChunkStep, SerialRecords
<1>3. CASE SshStep \/ \E w \in Network : ProbeBegins(w) \/ ProbeEnds(w) \/ ProbeMarks(w)
  BY <1>3 DEF SshStep, ProbeBegins, ProbeEnds, ProbeMarks
<1>4. CASE \/ \E w \in Workers : Leave(w)
           \/ \E w \in Failing : SetStop(w) \/ RecordFailure(w)
  BY <1>4 DEF Leave, SetStop, RecordFailure
<1>5. CASE Tick \/ OutputLost \/ Terminated \/ UNCHANGED measured
  BY <1>5 DEF Tick, OutputLost, Terminated, vars, measured, mainVars
<1>6. ProbeMarks("http") => \E w \in Network : ProbeMarks(w)
  BY DEF Network
<1> QED BY <1>1, <1>2, <1>3, <1>4, <1>5, <1>6, Zenon DEF MeasuredNext, Silent,
                                                         FailureStep

LEMMA FinishedStays ==
  ASSUME TypeOK, MeasuredTypeOK, [MeasuredNext]_measured
  PROVE  FinalSampleStep \/ Kept("carrier_monitor_finished")
<1>1. CASE Arms BY <1>1, ArmsWrites
<1>2. CASE SampleStep BY <1>2, SampleWrites
<1>3. CASE BaselineStep BY <1>3, BaselineWrites
<1>4. CASE SshStep BY <1>4, SshWrites
<1>5. CASE ChunkStep BY <1>5, ChunkWrites
<1>6. CASE FailureStep BY <1>6, FailureWrites DEF ErrorWritten
<1>7. CASE FinalSupplyStep BY <1>7, FinalSupplyWrites DEF ErrorWritten
<1>8. CASE /\ ~Arms /\ ~BaselineStep /\ ~SampleStep /\ ~FinalSampleStep
           /\ ~SshStep /\ ~ChunkStep /\ ~FailureStep /\ ~FinalSupplyStep
  BY <1>8, SilentFrame
<1> QED BY <1>1, <1>2, <1>3, <1>4, <1>5, <1>6, <1>7, <1>8

LEMMA FinishedStep ==
  ASSUME IInv, EndInv, MeasuredTypeOK, FinishedRecorded, [MeasuredNext]_measured
  PROVE  FinishedRecorded'
<1>a. [Next]_vars BY MeasuredStep
<1>b. TypeOK /\ ClockInv BY DEF IInv
<1>1. CASE FinalSampleStep
  <2>1. main = "final_sample" /\ main' = "final_up_check" /\ reference' = reference
    BY <1>1 DEF FinalSampleStep, FinalSample, Goto
  <2>2. Seen("carrier_monitor_finished") = {}
    BY <2>1 DEF FinishedRecorded, Ended
  <2>3. \E e : /\ e.event = "carrier_monitor_finished" /\ New(e) /\ e.t = now
               /\ e.carrier = lastState' /\ e.last = sampling'.last
    <3>1. ASSUME NEW v \in {"down", "up"}, FinalRead(v), Sampled(now),
                 New([event |-> "carrier_monitor_finished", t |-> now,
                      carrier |-> v, last |-> now])
          PROVE  \E e : /\ e.event = "carrier_monitor_finished" /\ New(e) /\ e.t = now
                        /\ e.carrier = lastState' /\ e.last = sampling'.last
      <4> DEFINE e == [event |-> "carrier_monitor_finished", t |-> now,
                       carrier |-> v, last |-> now]
      <4>1. lastState' = v BY <3>1 DEF FinalRead
      <4>2. sampling'.last = now BY <3>1 DEF Sampled, MeasuredTypeOK
      <4>3. e.event = "carrier_monitor_finished" /\ e.t = now /\ e.carrier = v /\ e.last = now
        OBVIOUS
      <4>4. New(e) BY <3>1
      <4> HIDE DEF e
      <4> QED BY <4>1, <4>2, <4>3, <4>4
    <3>2. ASSUME FinalReadFails, UNCHANGED sampling,
                 New([event |-> "carrier_monitor_finished", t |-> now,
                      carrier |-> lastState, last |-> sampling.last])
          PROVE  \E e : /\ e.event = "carrier_monitor_finished" /\ New(e) /\ e.t = now
                        /\ e.carrier = lastState' /\ e.last = sampling'.last
      <4> DEFINE e == [event |-> "carrier_monitor_finished", t |-> now,
                       carrier |-> lastState, last |-> sampling.last]
      <4>1. lastState' = lastState BY <3>2 DEF FinalReadFails
      <4>3. e.event = "carrier_monitor_finished" /\ e.t = now /\ e.carrier = lastState
            /\ e.last = sampling.last
        OBVIOUS
      <4>4. New(e) BY <3>2
      <4> HIDE DEF e
      <4> QED BY <3>2, <4>1, <4>3, <4>4
    <3> QED BY <1>1, <1>b, <3>1, <3>2, FinalSampleWrites
  <2>4. PICK e : /\ e.event = "carrier_monitor_finished" /\ New(e) /\ e.t = now
                 /\ e.carrier = lastState' /\ e.last = sampling'.last
    BY <2>3
  <2>5. PICK n \in Nat : Seen("carrier_monitor_finished")' = {n} /\ timeline'[n] = e
    BY <2>2, <2>4 DEF New, Gains, Seen
  <2>6. reference' <= now BY <1>b, <2>1 DEF ClockInv
  <2> QED BY <2>1, <2>4, <2>5, <2>6 DEF FinishedRecorded, Ended
<1>2. CASE ~FinalSampleStep
  <2>1. Kept("carrier_monitor_finished")
    BY <1>2, <1>b, FinishedStays
  <2>2. /\ Seen("carrier_monitor_finished")' = Seen("carrier_monitor_finished")
        /\ \A i \in Seen("carrier_monitor_finished") : timeline'[i] = timeline[i]
    BY <2>1 DEF Kept, Keeps, Seen
  <2>3. CASE main \in Ended
    <3>1. /\ main' \in Ended /\ UNCHANGED <<lastState, reference>>
          /\ worker'["carrier"] = worker["carrier"]
      BY <1>a, <1>b, <2>3, EndedFrame
    <3>2. sampling' = sampling
      <4>1. ~Arms /\ ~BaselineStep
        BY <2>3 DEF Arms, PublishReference, ArmUnknown, BaselineStep, TakeBaseline,
                    Ended
      <4>2. ~SampleStep
        BY <2>3 DEF SampleStep, CarrierReads, Step, EndInv, Last, Ended
      <4> QED BY <1>2, <4>1, <4>2
              DEF MeasuredNext, SshStep, ChunkStep, FailureStep, FinalSupplyStep,
                  Silent,
                  measured, measuredVars
    <3> QED BY <2>2, <2>3, <3>1, <3>2 DEF FinishedRecorded
  <2>4. CASE main \notin Ended
    <3>1. Seen("carrier_monitor_finished")' = {}
      BY <2>2, <2>4 DEF FinishedRecorded
    <3>2. main' \in Ended => worker'["carrier"] = "unborn"
      <4>1. Join => worker' = worker BY DEF Join
      <4>2. main = "final_sample" => main' = main
        BY <1>2, <1>b, FinalFrame
      <4> QED BY <1>a, <1>b, <2>4, <4>1, <4>2, EndedFrame DEF Ended
    <3> QED BY <3>1, <3>2 DEF FinishedRecorded
  <2> QED BY <2>3, <2>4
<1> QED BY <1>1, <1>2

\* A new reading extends the time that the readings cover.
LEMMA CoverGrows ==
  ASSUME NEW r \in Nat, NEW s \in Nat, NEW n \in Nat, NEW g \in Nat, NEW h \in Nat,
         NEW c \in Nat, r <= s, s <= n, g <= s - r, s - r <= g * c,
         h = IF g > n - s THEN g ELSE n - s
  PROVE  h <= n - r /\ n - r <= h * (c + 1)
<1>1. h <= n - r
  OBVIOUS
<1>2. h * (c + 1) = h * c + h
  OBVIOUS
<1>3. g <= h /\ n - s <= h
  OBVIOUS
<1>4. g * c <= h * c
  <2>1. \A d \in Nat : d * c >= 0
    OBVIOUS
  <2>2. h - g \in Nat BY <1>3
  <2>3. (h - g) * c >= 0 BY <2>1, <2>2
  <2>4. (h - g) * c = h * c - g * c
    OBVIOUS
  <2> QED BY <2>3, <2>4
<1>5. g * c \in Nat /\ h * c \in Nat
  OBVIOUS
<1> QED BY <1>1, <1>2, <1>3, <1>4, <1>5

LEMMA MovesFinite ==
  ASSUME MeasuredTypeOK
  PROVE  IsFiniteSet(Moves) /\ Cardinality(Moves) \in Nat
<1>1. Len(timeline) \in Nat BY ChunkTimes
<1>2. Moves \in SUBSET (1..Len(timeline)) BY DEF Moves, Seen, OfKind
<1>3. IsFiniteSet(1..Len(timeline)) BY <1>1, FS_Interval
<1> QED BY <1>2, <1>3, FS_Subset, FS_CardinalityType

\* A reading that began after the last one, and the move that it saw, if any.
LEMMA SampledStep ==
  ASSUME TypeOK, MeasuredTypeOK, SamplingRecorded, "carrier" \in Enabled,
         reference # NoTime, reference' = reference, now' = now,
         NEW b \in Nat, sampling.since <= b, b <= now, Sampled(b),
         worker'["carrier"] # "read",
         \A i \in Moves : timeline'[i] = timeline[i],
         Moves' = Moves \/ \E n : Moves' = Moves \cup {n} /\ timeline'[n].t = now
  PROVE  SamplingRecorded'
<1> DEFINE Larger(x, y) == IF x > y THEN x ELSE y
           h == Larger(sampling.gap, now - sampling.since)
           d == Larger(sampling.read, now - b)
<1>1. /\ sampling.since \in Nat /\ reference \in Nat /\ now \in Nat
      /\ sampling.count \in Nat /\ sampling.gap \in Nat /\ sampling.read \in Nat
      /\ reference <= sampling.since /\ sampling.since <= now
      /\ sampling.gap <= sampling.since - reference
      /\ sampling.since - reference <= sampling.gap * sampling.count
      /\ sampling.read <= sampling.gap
      /\ Cardinality(Moves) <= sampling.count
      /\ \A i \in Moves : timeline[i].t <= sampling.since
  <2>1. sampling.since \in Times /\ reference \in Times /\ now \in Nat
        /\ sampling.count \in Nat /\ sampling.gap \in Nat /\ sampling.read \in Nat
    BY DEF TypeOK, MeasuredTypeOK
  <2>2. reference \in Nat BY <2>1 DEF Times
  <2>3. reference <= sampling.since BY DEF SamplingRecorded
  <2>4. sampling.since \in Nat BY <2>1, <2>2, <2>3 DEF Times, NoTime
  <2> QED BY <2>1, <2>2, <2>4 DEF SamplingRecorded
<1>2. h \in Nat /\ d \in Nat /\ d <= h
  BY <1>1
<1>3. h <= now - reference /\ now - reference <= h * (sampling.count + 1)
  <2>1. h = IF sampling.gap > now - sampling.since THEN sampling.gap ELSE now - sampling.since
    OBVIOUS
  <2> HIDE DEF h
  <2> QED BY <1>1, <1>2, <2>1, CoverGrows
<1>4. sampling' = [count |-> sampling.count + 1, gap |-> h, read |-> d,
                   since |-> now, last |-> now]
  BY DEF Sampled
<1> HIDE DEF h, d
<1>5. Cardinality(Moves') <= sampling.count + 1
  <2>1. IsFiniteSet(Moves) /\ Cardinality(Moves) \in Nat
    BY MovesFinite
  <2>2. CASE Moves' = Moves
    BY <1>1, <2>1, <2>2
  <2>3. ASSUME NEW n, Moves' = Moves \cup {n} PROVE Cardinality(Moves') <= sampling.count + 1
    <3>1. \/ Cardinality(Moves \cup {n}) = Cardinality(Moves)
          \/ Cardinality(Moves \cup {n}) = Cardinality(Moves) + 1
      BY <2>1, FS_AddElement
    <3> QED BY <1>1, <2>1, <2>3, <3>1
  <2> QED BY <2>2, <2>3
<1>6. \A i \in Moves' : timeline'[i].t <= now
  <2>1. \A i \in Moves : timeline[i].t <= now
    <3>1. \A i \in Moves : timeline[i].t \in Times
      BY TransitionTimes DEF Moves
    <3> QED BY <1>1, <3>1 DEF Times, NoTime
  <2> QED BY <1>1, <2>1
<1>7. /\ sampling'.since = now /\ sampling'.last = now /\ sampling'.gap = h
      /\ sampling'.read = d /\ sampling'.count = sampling.count + 1
  BY <1>4
<1> QED BY <1>1, <1>2, <1>3, <1>5, <1>6, <1>7 DEF SamplingRecorded

\* A read of the carrier is under way since it was stamped.
LEMMA ReadFrame ==
  ASSUME TypeOK, [MeasuredNext]_measured, worker'["carrier"] = "read"
  PROVE  \/ begun'["carrier"] = now'
         \/ worker["carrier"] = "read" /\ begun'["carrier"] = begun["carrier"]
<1> USE DEF SetupUnchanged, VerdictUnchanged, Step, WorkerUnchanged,
            ProbeUnchanged, TypeOK, Workers, Network, Failing, Observing, Observed
<1>1. CASE MainSetup
  <2>1. ASSUME NEW w \in Workers, StartWorker(w)
        PROVE  begun' = begun /\ worker["carrier"] = "read"
    BY <2>1 DEF StartWorker
  <2> QED BY <1>1, <2>1 DEF MainSetup, Resolve, Identify, InitialSupply, Started,
                            PowerOff,
                      VerifyOff, Dwell, ColdCheck, CheckStop, Requery
<1>2. CASE EnterPowerSection \/ WriteOn \/ VerifyOn \/ Decide \/ Arms \/ BaselineStep
  BY <1>2 DEF EnterPowerSection, WriteOn, VerifyOn, Decide, Arms, PublishReference,
              ArmUnknown, BaselineStep, TakeBaseline
<1>3. CASE WaitEnds \/ ReadMissing \/ ReadFinalUp \/ Verdict \/ Interrupt
           \/ Finally \/ Join \/ FinalUpCheck \/ Finish \/ FinalSupplyStep \/ FinalSampleStep
  BY <1>3 DEF WaitEnds, ReadMissing, ReadFinalUp, Verdict, Interrupt, Finally,
              Join, FinalUpCheck, Finish, FinalSupplyStep, FinalSupply,
              FinalSampleStep, FinalSample
<1>4. CASE CarrierEnters \/ CarrierReadFails \/ CarrierCommits \/ SampleStep
  BY <1>4 DEF CarrierEnters, CarrierReadFails, CarrierCommits, SampleStep,
              CarrierReads
<1>5. CASE SerialReads \/ SerialReadFails \/ CheckStopAgain \/ ChunkStep
  BY <1>5 DEF SerialReads, SerialReadFails, CheckStopAgain, ChunkStep, SerialRecords
<1>6. CASE SshStep \/ \E w \in Network : ProbeBegins(w) \/ ProbeEnds(w) \/ ProbeMarks(w)
  BY <1>6 DEF SshStep, ProbeBegins, ProbeEnds, ProbeMarks
<1>7. CASE \/ \E w \in Workers : Leave(w)
           \/ \E w \in Failing : SetStop(w)
           \/ FailureStep
  BY <1>7 DEF Leave, SetStop, FailureStep, RecordFailure, Handle
<1>8. CASE Tick \/ OutputLost \/ Terminated \/ UNCHANGED measured
  BY <1>8 DEF Tick, OutputLost, Terminated, vars, measured
<1>9. ProbeMarks("http") => \E w \in Network : ProbeMarks(w)
  OBVIOUS
<1> QED BY <1>1, <1>2, <1>3, <1>4, <1>5, <1>6, <1>7, <1>8, <1>9, Zenon
        DEF MeasuredNext, Silent

\* A step without a reading, that does not come to the end of run.
LEMMA UnsampledStep ==
  ASSUME IInv, EndInv, MeasuredTypeOK, SamplingRecorded, [MeasuredNext]_measured,
         reference' = reference, Kept("carrier_transition"), sampling' = sampling,
         main' \in Ended /\ worker'["carrier"] # "unborn" /\ errors' = {} => main \in Ended
  PROVE  SamplingRecorded'
<1>a. [Next]_vars BY MeasuredStep
<1>b. TypeOK /\ LockInv BY DEF IInv
<1>1. now \in Nat /\ now' \in Nat /\ now <= now'
  BY <1>a, <1>b, NowGrows
<1>2. /\ Moves' = Moves
      /\ \A i \in Moves : timeline'[i] = timeline[i]
  BY MovesKept DEF Moves
<1>3. worker'["carrier"] = "read" =>
         \/ begun'["carrier"] = now'
         \/ worker["carrier"] = "read" /\ begun'["carrier"] = begun["carrier"]
  BY <1>b, ReadFrame
<1>4. main \in Ended => worker'["carrier"] = worker["carrier"]
  BY <1>a, <1>b, EndedFrame
<1>5. errors' = {} => errors = {}
  BY <1>b, ErrorsWritten
<1>6. SUFFICES ASSUME "carrier" \in Enabled, reference # NoTime
               PROVE  SamplingRecorded'
  BY DEF SamplingRecorded
<1>7. sampling.since \in Nat
  <2>1. reference <= sampling.since BY <1>6 DEF SamplingRecorded
  <2>2. sampling.since \in Times /\ reference \in Times BY <1>b DEF MeasuredTypeOK,
                                                                    TypeOK
  <2> QED BY <1>6, <2>1, <2>2 DEF Times, NoTime
<1>8. sampling.since <= now' /\ (worker'["carrier"] = "read" => sampling.since <= begun'["carrier"])
  BY <1>1, <1>3, <1>6, <1>7 DEF SamplingRecorded
<1> QED BY <1>2, <1>4, <1>5, <1>6, <1>8 DEF SamplingRecorded

\* The reference is published before anything is sampled after it.
LEMMA ArmedStep ==
  ASSUME IInv, EndInv, MeasuredTypeOK, LinkRecorded, Arms
  PROVE  SamplingRecorded'
<1>a. TypeOK /\ LockInv /\ PowerInv /\ ClockInv BY DEF IInv
<1> SUFFICES ASSUME "carrier" \in Enabled PROVE SamplingRecorded'
  BY DEF SamplingRecorded
<1>b. MovesOrdered BY DEF LinkRecorded
<1>1. main = "arm" /\ PublishReference /\ reference = NoTime
  BY <1>a, OptionsAssumption
  DEF Arms, PublishReference, ArmUnknown, PowerInv, PowerSection
<1>2. /\ reference' = sentAt /\ baseline < sentAt /\ sentAt \in Nat /\ baseline \in Times
      /\ sentAt <= now /\ now' = now /\ now \in Nat
  BY <1>a, <1>b, <1>1 DEF PublishReference, Arm, MovesOrdered, TypeOK, PowerInv,
                          Times, ClockInv
<1>3. /\ Seen("carrier_transition")' = Seen("carrier_transition")
      /\ \A i \in Seen("carrier_transition") : timeline'[i] = timeline[i]
  BY <1>a, ArmsWrites DEF Kept, Keeps, Seen
<1>4. Moves' = {}
  BY <1>b, <1>1, <1>2, <1>3, TransitionTimes DEF Moves, MovesOrdered, Times, NoTime
<1>5. Cardinality({}) = 0 BY FS_EmptySet
<1>6. worker'["carrier"] # "read" /\ main' \notin Ended
  BY <1>a, <1>1 DEF LockInv, PowerSection, PublishReference, Goto, Ended
<1>7. /\ sampling'.count = 0 /\ sampling'.gap = 0 /\ sampling'.read = 0
      /\ sampling'.since = sentAt
  BY <1>2 DEF Arms, MeasuredTypeOK
<1> QED BY <1>2, <1>4, <1>5, <1>6, <1>7 DEF SamplingRecorded

LEMMA SamplingStep ==
  ASSUME IInv, EndInv, MeasuredTypeOK, LinkRecorded, SamplingRecorded, [MeasuredNext]_measured
  PROVE  SamplingRecorded'
<1>a. [Next]_vars BY MeasuredStep
<1>b. TypeOK /\ LockInv /\ PowerInv /\ ClockInv BY DEF IInv
<1> SUFFICES ASSUME "carrier" \in Enabled PROVE SamplingRecorded'
  BY DEF SamplingRecorded
<1>1. CASE Arms
  BY <1>1, ArmedStep
<1>2. CASE BaselineStep
  <2>1. reference = NoTime /\ reference' = reference
    BY <1>2, <1>b DEF BaselineStep, TakeBaseline, recordVars, PowerInv, PowerSection
  <2> QED BY <2>1 DEF SamplingRecorded
<1>3. ASSUME NEW v \in {"down", "up"}, Watched(v), NEW b \in Times, Sampled(b), b <= now,
             sampling.since <= b \/ reference = NoTime, now' = now, reference' = reference,
             worker'["carrier"] # "read"
      PROVE  SamplingRecorded'
  <2>1. CASE reference = NoTime
    BY <1>3, <2>1 DEF SamplingRecorded
  <2>2. CASE reference # NoTime
    <3>1. b \in Nat
      <4>1. reference <= sampling.since BY <2>2 DEF SamplingRecorded
      <4>2. reference \in Nat /\ sampling.since \in Int
        BY <2>2, <1>b DEF TypeOK, MeasuredTypeOK, Times, NoTime
      <4> QED BY <1>3, <2>2, <4>1, <4>2 DEF Times, NoTime
    <3>2. /\ \A i \in Moves : timeline'[i] = timeline[i]
          /\ Moves' = Moves \/ \E n : Moves' = Moves \cup {n} /\ timeline'[n].t = now
      <4>1. CASE v = lastState
        BY <1>3, <4>1, MovesKept DEF Watched, Moves
      <4>2. CASE v # lastState
        <5>1. PICK n \in Nat :
                /\ Moves' = Moves \cup {n}
                /\ \A i \in Seen("carrier_transition") : i < n /\ timeline'[i] = timeline[i]
                /\ timeline'[n].t = now
          BY <1>3, <1>b, <2>2, <4>2, OneMove DEF Watched, ClockInv
        <5> QED BY <5>1 DEF Moves
      <4> QED BY <4>1, <4>2
    <3> QED BY <1>3, <1>b, <2>2, <3>1, <3>2, SampledStep
  <2> QED BY <2>1, <2>2
<1>4. CASE SampleStep
  <2>1. /\ worker["carrier"] = "read" /\ worker'["carrier"] = "commit"
        /\ now' = now /\ reference' = reference
    BY <1>4, <1>b DEF SampleStep, CarrierReads, Step, WorkerUnchanged, TypeOK, Workers
  <2>2. begun["carrier"] \in Times /\ begun["carrier"] <= now
    BY <1>b DEF TypeOK, Workers, ClockInv
  <2>3. sampling.since <= begun["carrier"] \/ reference = NoTime
    BY <2>1 DEF SamplingRecorded
  <2>4. Watched(sample') /\ sample' \in {"down", "up"}
    BY <1>4, <1>b, SampleWrites
  <2>5. Sampled(begun["carrier"]) BY <1>4 DEF SampleStep
  <2> QED BY <1>3, <2>1, <2>2, <2>3, <2>4, <2>5
<1>5. CASE FinalSampleStep
  <2>1. /\ worker'["carrier"] # "read" /\ now' = now /\ reference' = reference
        /\ now \in Times /\ now <= now
    BY <1>5, <1>b DEF FinalSampleStep, FinalSample, EndInv, Last, TypeOK, Times
  <2>2. sampling.since <= now \/ reference = NoTime
    BY DEF SamplingRecorded
  <2>3. ASSUME NEW v \in {"down", "up"}, Watched(v), Sampled(now) PROVE SamplingRecorded'
    BY <1>3, <2>1, <2>2, <2>3
  <2>4. CASE FinalReadFails /\ UNCHANGED sampling /\ Kept("carrier_transition")
    <3>1. errors' # {} BY <2>4 DEF FinalReadFails, Fail
    <3> QED BY <2>1, <2>4, <3>1, UnsampledStep
  <2> QED BY <1>5, <1>b, <2>3, <2>4, FinalSampleWrites
<1>6. CASE ~Arms /\ ~BaselineStep /\ ~SampleStep /\ ~FinalSampleStep
  <2>1. sampling' = sampling
    BY <1>6 DEF MeasuredNext, SshStep, ChunkStep, FailureStep, FinalSupplyStep,
                Silent,
                measured, measuredVars
  <2>2. Kept("carrier_transition")
    <3>1. CASE SshStep BY <1>b, <3>1, SshWrites
    <3>2. CASE ChunkStep BY <1>b, <3>2, ChunkWrites
    <3>3. CASE FailureStep BY <1>b, <3>3, FailureWrites DEF ErrorWritten
    <3>4. CASE FinalSupplyStep BY <1>b, <3>4, FinalSupplyWrites DEF ErrorWritten
    <3> QED BY <1>6, <1>b, <3>1, <3>2, <3>3, <3>4, SilentFrame
  <2>3. reference' = reference BY <1>6, <1>b, ReferenceWritten
  <2>4. main' \in Ended /\ worker'["carrier"] # "unborn" => main \in Ended
    <3>1. Join => worker' = worker BY DEF Join
    <3>2. main = "final_sample" => main' = main
      BY <1>6, <1>b, FinalFrame
    <3> QED BY <1>a, <1>b, <3>1, <3>2, EndedFrame DEF Ended
  <2> QED BY <2>1, <2>2, <2>3, <2>4, UnsampledStep
<1> QED BY <1>1, <1>2, <1>4, <1>5, <1>6

Evidence ==
    /\ SentRecorded /\ BaselineRecorded /\ CarrierRecorded
    /\ FinishedRecorded /\ SamplingRecorded /\ UartAdjoins

LEMMA EvidenceInit == MeasuredInit => Evidence
<1> SUFFICES ASSUME MeasuredInit PROVE Evidence
  OBVIOUS
<1> USE DEF MeasuredInit, Init
<1>1. Len(timeline) = 0 OBVIOUS
<1>2. \A k : Seen(k) = {} BY <1>1 DEF Seen, OfKind
<1>3. SentRecorded /\ SamplingRecorded BY DEF SentRecorded, SamplingRecorded
<1>4. BaselineRecorded /\ CarrierRecorded BY <1>2 DEF BaselineRecorded,
                                                      CarrierRecorded, Workers
<1>5. FinishedRecorded /\ UartAdjoins BY <1>2 DEF FinishedRecorded, UartAdjoins, Ended
<1> QED BY <1>3, <1>4, <1>5 DEF Evidence

LEMMA EvidenceInvariance == MeasuredSpec => [](IInv /\ Recorded /\ Derived /\ Evidence)
<1>1. IInv /\ Recorded /\ Derived /\ Evidence /\ [MeasuredNext]_measured => Evidence'
  <2> SUFFICES ASSUME IInv, Recorded, Derived, Evidence, [MeasuredNext]_measured
               PROVE  Evidence'
    OBVIOUS
  <2>1. EndInv /\ MeasuredTypeOK /\ LinkRecorded BY DEF Recorded, Derived
  <2> QED BY <2>1, SentStep, BaselineRecordStep, CarrierRecordStep, FinishedStep,
             SamplingStep, AdjoinStep DEF Evidence
<1> QED BY <1>1, EvidenceInit, DerivedInvariance, PTL DEF MeasuredSpec, measured

(***************************************************************************)
(* What a summary finds in a capture that ended cleanly.                   *)
(***************************************************************************)
CleanEnd ==
    /\ main = "done" /\ HasSupply
    /\ status \in Summary!GoodStatuses /\ errors = {} /\ RebootSeen = {}

LEMMA OneOf ==
  ASSUME NEW x
  PROVE  Summary!Cardinality({x}) = 1
<1>1. Summary!Cardinality({x}) = Cardinality({x})
  BY Zenon DEF Summary!Cardinality, Cardinality
<1> QED BY <1>1, FS_Singleton

\* No bound leaves out a record.
LEMMA AllPlaces ==
  ASSUME MeasuredTypeOK, NEW k
  PROVE  Summary!Places(timeline, k, NoTime, NoTime) = Seen(k)
<1>1. \A i \in Seen(k) : NoTime <= timeline[i].t
  <2>1. \A i \in Seen(k) : timeline[i].t \in Times
    BY ChunksAre DEF Seen, OfKind
  <2> QED BY <2>1 DEF Times, NoTime
<1> QED BY <1>1, PlacesAre

\* The one reference is that of the power command.
LEMMA CleanWindow ==
  ASSUME IInv, Recorded, Evidence, CleanEnd
  PROVE  /\ ~Window.refused /\ Window.start = reference /\ Window.end = NoTime
         /\ reference \in Nat
         /\ SecondBoot = NoTime /\ WindowEnd = NoTime
         /\ WindowChunks = Heard
<1>a. TypeOK /\ MeasuredTypeOK /\ ReferenceRecorded /\ ErrorsRecorded /\ SentRecorded
  BY DEF IInv, Recorded, Evidence
<1>1. reference \in Nat /\ sentAt # NoTime
  BY <1>a DEF CleanEnd, ErrorsRecorded, SentRecorded, TypeOK, Times
<1>b. PICK x : x \in Seen("reference_started")
  BY <1>a, <1>1 DEF ReferenceRecorded, NoTime
<1>2. Seen("reference_started") = {x}
  BY <1>a, <1>b DEF ReferenceRecorded
<1>3. timeline[x].t = reference /\ timeline[x].label = Summary!Power
  BY <1>a, <1>1, <1>2 DEF ReferenceRecorded
<1> DEFINE references == Summary!Places(timeline, "reference_started", NoTime, NoTime)
           matches == {i \in references :
                         /\ timeline[i].label = Summary!Power
                         /\ Metadata.reference \in {NoTime, timeline[i].t}}
           start == timeline[CHOOSE i \in matches : TRUE].t
           later == {t \in Summary!Stamps(timeline, references) : t > start}
           refused == \/ Summary!Cardinality(matches) # 1
                      \/ (Metadata.reference # NoTime /\ Metadata.label # Summary!Power)
<1>4. Window = IF refused
               THEN [refused |-> TRUE, start |-> NoTime, end |-> NoTime]
               ELSE [refused |-> FALSE, start |-> start, end |-> Summary!FirstOf(later)]
  BY DEF Window, Summary!ReferenceWindow, Summary!None, NoTime
<1>5. Metadata.reference = reference /\ Metadata.label = Summary!Power
  BY <1>1 DEF Metadata
<1>6. matches = {x}
  BY <1>a, <1>2, <1>3, <1>5, AllPlaces
<1>7. ~refused
  BY <1>5, <1>6, OneOf
<1> HIDE DEF start, later, refused
<1>8. ~Window.refused
  BY <1>4, <1>7
<1>9. Window.start = reference /\ Window.end = NoTime
  BY <1>a, <1>8, WindowIs
<1>10. SecondBoot = NoTime
  <2>1. RebootSeen = {Summary!Stamp(timeline, q) :
                        q \in Summary!Restarts(timeline, WindowText)}
    BY <1>9 DEF RebootSeen, WindowText, WindowChunks
  <2> QED BY <2>1 DEF SecondBoot, CleanEnd, Summary!FirstOf, Summary!None, NoTime
<1>11. WindowChunks = Heard
  BY <1>a, <1>1, <1>9, PlacesAre DEF WindowChunks, Heard, NoTime
<1> QED BY <1>1, <1>8, <1>9, <1>10, <1>11 DEF WindowEnd

\* Every byte of the console in the window was recorded.
LEMMA NoGap ==
  ASSUME MeasuredTypeOK, UartOrdered, UartAdjoins, reference \in Nat
  PROVE  ~Summary!UartGap(timeline, Heard)
<1> SUFFICES ASSUME NEW j \in Heard, NEW k \in Heard, Summary!Precedes(timeline, j, k),
                    ~\E i \in Heard : /\ Summary!Precedes(timeline, j, i)
                                     /\ Summary!Precedes(timeline, i, k)
             PROVE  timeline[k].offset = timeline[j].offset + Len(timeline[j].text)
  BY DEF Summary!UartGap
<1>1. \A i \in Seen("uart_received") : i \in Nat /\ timeline[i].t \in Int
  <2> HIDE DEF ChunkTexts
  <2> QED BY ChunkTimes DEF Times, NoTime
<1>2. \A i \in Heard : i \in Seen("uart_received") BY DEF Heard
<1>3. \A i, m \in Heard : i < m <=> Summary!Precedes(timeline, i, m)
  BY <1>1, <1>2 DEF Summary!Precedes, UartOrdered
<1>4. j < k BY <1>3
<1>5. ASSUME NEW m \in Seen("uart_received"), ~(m <= j \/ k <= m) PROVE FALSE
  <2>1. j < m /\ m < k BY <1>1, <1>2, <1>5
  <2>2. timeline[j].t <= timeline[m].t BY <1>2, <2>1 DEF UartOrdered
  <2>3. m \in Heard BY <1>1, <1>2, <2>2 DEF Heard
  <2> QED BY <1>3, <2>1, <2>3
<1> QED BY <1>2, <1>4, <1>5 DEF UartAdjoins

\* The banner in the timeline is the one in the metadata.
LEMMA NoClash ==
  ASSUME TypeOK, SshRecorded, MeasuredTypeOK, NEW start \in Nat
  PROVE  ~Summary!SshBanner(Metadata, timeline, start, NoTime).clash
<1> DEFINE stamps == Summary!Stamps(timeline,
                        Summary!Places(timeline, "ssh_banner_ready", start, NoTime))
           seen  == Summary!FirstOf(stamps)
           noted == IF ready["net"] >= start THEN ready["net"] ELSE NoTime
<1>1. stamps = {timeline[i].t : i \in {j \in Seen("ssh_banner_ready") : start <= timeline[j].t}}
  BY PlacesAre DEF Summary!Stamps
<1>2. stamps = {} \/ (stamps = {ready["net"]} /\ ready["net"] \in Nat /\ start <= ready["net"])
  BY <1>1 DEF SshRecorded, TypeOK, Workers, Times
<1> HIDE DEF stamps
<1>3. seen = NoTime \/ (seen = ready["net"] /\ start <= ready["net"])
  BY <1>2, FirstOfTimes
<1>4. seen # NoTime => noted \in {NoTime, seen}
  BY <1>3
<1>5. Metadata.network \in {"none", "ssh_banner"} BY DEF Metadata
<1>6. Metadata.readiness.ssh_banner = ready["net"] BY DEF Metadata
<1> QED BY <1>4, <1>5, <1>6 DEF Summary!SshBanner, Summary!None, NoTime, stamps

\* The last of some moves, by time and by place.
LEMMA LatestIs ==
  ASSUME MeasuredTypeOK, MovesOrdered, NEW P, P \subseteq Moves, P # {}
  PROVE  /\ Summary!Latest(timeline, P) \in P
         /\ \A j \in P : j <= Summary!Latest(timeline, P)
<1>1. \A i \in Moves : i \in Nat /\ timeline[i].t \in Int
  BY TransitionTimes DEF Moves, Times, NoTime
<1>2. \A i, m \in Moves : i < m <=> Summary!Precedes(timeline, i, m)
  BY <1>1 DEF Summary!Precedes, MovesOrdered, Moves
<1>3. Len(timeline) \in Nat /\ P \subseteq 0..Len(timeline)
  BY ChunkTimes DEF Moves, Seen, OfKind
<1>4. PICK m \in P : \A j \in P : j <= m
  BY <1>3, GreatestExists
<1>5. \A j \in P \ {m} : Summary!Precedes(timeline, j, m)
  BY <1>1, <1>2, <1>4
<1>6. /\ Summary!Latest(timeline, P) \in P
      /\ \A j \in P \ {Summary!Latest(timeline, P)} :
            Summary!Precedes(timeline, j, Summary!Latest(timeline, P))
  BY <1>5 DEF Summary!Latest
<1> DEFINE l == Summary!Latest(timeline, P)
<1> HIDE DEF l
<1>7. l \in P /\ \A j \in P \ {l} : Summary!Precedes(timeline, j, l)
  BY <1>6 DEF l
<1>8. \A j \in P : j <= l
  BY <1>1, <1>2, <1>7
<1> QED BY <1>7, <1>8 DEF l

LEMMA CleanAlternates ==
  ASSUME MeasuredTypeOK, MovesOrdered, MovesAlternate
  PROVE  Summary!Alternates(timeline, Moves)
<1>1. \A i \in Moves : i \in Nat /\ timeline[i].t \in Int
  BY TransitionTimes DEF Moves, Times, NoTime
<1>2. \A i, m \in Moves : i < m <=> Summary!Precedes(timeline, i, m)
  BY <1>1 DEF Summary!Precedes, MovesOrdered, Moves
<1> SUFFICES ASSUME NEW k \in Moves
             PROVE  timeline[k].carrier
                      # Summary!LinkState(timeline, {j \in Moves : Summary!Precedes(timeline, j, k)})
  BY DEF Summary!Alternates
<1> DEFINE P == {j \in Moves : Summary!Precedes(timeline, j, k)}
           l == Summary!Latest(timeline, P)
<1>3. CASE P = {}
  <2>1. \A j \in Moves : k <= j BY <1>1, <1>2, <1>3
  <2> QED BY <1>3, <2>1 DEF MovesAlternate, Summary!LinkState
<1>4. CASE P # {}
  <2>1. P \subseteq Moves OBVIOUS
  <2>2. l \in P /\ \A j \in P : j <= l
    <3> HIDE DEF P
    <3> QED BY <1>4, <2>1, LatestIs
  <2>3. Summary!LinkState(timeline, P) = timeline[l].carrier
    BY <1>4 DEF Summary!LinkState
  <2> HIDE DEF l
  <2>4. l \in Moves /\ l < k /\ \A m \in Moves : m <= l \/ k <= m
    BY <1>1, <1>2, <2>2
  <2>5. timeline[l].carrier # timeline[k].carrier
    BY <2>4 DEF MovesAlternate
  <2> QED BY <2>3, <2>5
<1> QED BY <1>3, <1>4

LEMMA CleanLinkState ==
  ASSUME MeasuredTypeOK, MovesOrdered, MovesAlternate, reference # NoTime,
         worker["carrier"] # "commit"
  PROVE  Summary!LinkState(timeline, Moves) = lastState
<1>1. Current = lastState BY DEF Current
<1>2. CASE Moves = {}
  BY <1>1, <1>2 DEF MovesAlternate, Summary!LinkState
<1>3. CASE Moves # {}
  <2> DEFINE l == Summary!Latest(timeline, Moves)
  <2>1. l \in Moves /\ \A j \in Moves : j <= l
    BY <1>3, LatestIs
  <2>2. Summary!LinkState(timeline, Moves) = timeline[l].carrier
    BY <1>3 DEF Summary!LinkState
  <2> HIDE DEF l
  <2> QED BY <1>1, <2>1, <2>2 DEF MovesAlternate
<1> QED BY <1>2, <1>3

LEMMA CleanBaseline ==
  ASSUME IInv, Recorded, BaselineRecorded, reference # NoTime, "carrier" \in Enabled
  PROVE  Summary!BaselineIsValid(Metadata.carrier, timeline, reference)
<1>a. TypeOK /\ MeasuredTypeOK /\ ReferenceRecorded BY DEF IInv, Recorded
<1>1. Metadata.carrier.baseline = baseline BY DEF Metadata
<1>2. baseline # NoTime /\ baseline <= reference
  BY DEF IInv, BaselineBeforeReference
<1>3. PICK x : x \in Seen("carrier_down_baseline")
  BY <1>2 DEF BaselineRecorded
<1>4. {i \in Seen("carrier_down_baseline") : timeline[i].t = baseline} = {x}
  BY <1>3 DEF BaselineRecorded
<1>5. Summary!Places(timeline, "carrier_down_baseline", NoTime, NoTime)
         = Seen("carrier_down_baseline")
  BY <1>a, AllPlaces
<1>6. \A t \in Summary!Stamps(timeline,
                  Summary!Places(timeline, "reference_started", NoTime, NoTime)) : t = reference
  BY <1>a, AllPlaces DEF Summary!Stamps, ReferenceRecorded
<1>7. ~(reference < reference) BY <1>a DEF TypeOK, Times, NoTime
<1> QED BY <1>1, <1>2, <1>4, <1>5, <1>6, <1>7, OneOf
        DEF Summary!BaselineIsValid, Summary!None, NoTime

LEMMA CleanReadiness ==
  ASSUME IInv, Recorded, CarrierRecorded, LinkDerived, reference \in Nat
  PROVE  Summary!ReadinessAgrees(timeline,
             Summary!Places(timeline, "carrier_ready", reference, NoTime), Moves,
             ready["carrier"])
<1>a. TypeOK /\ MeasuredTypeOK BY DEF IInv, Recorded
<1> DEFINE marks == Summary!Places(timeline, "carrier_ready", reference, NoTime)
           first == ready["carrier"]
           ups   == Summary!Turns(timeline, Moves, "up")
<1>1. marks = {i \in Seen("carrier_ready") : reference <= timeline[i].t}
  BY <1>a, PlacesAre
<1>2. CASE first = NoTime
  BY <1>1, <1>2 DEF CarrierRecorded, Summary!ReadinessAgrees, Summary!None, NoTime
<1>3. CASE first # NoTime
  <2>1. reference <= first
    <3>1. reference <= evidence["carrier"] /\ evidence["carrier"] <= first
      BY <1>3 DEF IInv, RecordInv, EvidenceAfterReference, Workers
    <3>2. evidence["carrier"] \in Int /\ first \in Int
      BY <1>a DEF TypeOK, Workers, Times, NoTime
    <3> QED BY <3>1, <3>2
  <2>2. PICK x : x \in Seen("carrier_ready")
    BY <1>3 DEF CarrierRecorded
  <2>3. marks = {x} /\ timeline[x].t = first
    BY <1>1, <2>1, <2>2 DEF CarrierRecorded
  <2>4. ups = {timeline[i].t : i \in {j \in Moves : timeline[j].carrier = "up"}}
    BY DEF Summary!Turns, Summary!Stamps
  <2>5. ups \subseteq Nat
    <3>1. \A i \in Moves : timeline[i].t \in Times /\ reference <= timeline[i].t
      BY <1>a, TransitionTimes DEF Moves
    <3> QED BY <2>4, <3>1 DEF Times, NoTime
  <2>6. first \in ups /\ \A t \in ups : first <= t
    BY <1>3, <2>4 DEF LinkDerived
  <2>7. Summary!FirstOf(ups) = first
    <3> HIDE DEF ups
    <3> DEFINE z == Summary!FirstOf(ups)
    <3>1. z \in ups /\ \A t \in ups : z <= t
      BY <2>5, <2>6, FirstOfTimes
    <3> HIDE DEF z, first
    <3>2. z <= first /\ first <= z
      BY <2>6, <3>1
    <3>3. z \in Nat /\ first \in Nat
      BY <2>5, <2>6, <3>1, Zenon
    <3> QED BY <3>2, <3>3 DEF z
  <2>8. Summary!Stamps(timeline, marks) = {first}
    BY <2>3 DEF Summary!Stamps
  <2> HIDE DEF marks, ups
  <2> QED BY <2>3, <2>7, <2>8, OneOf DEF Summary!ReadinessAgrees, marks, ups
<1> QED BY <1>2, <1>3

LEMMA CleanFinish ==
  ASSUME IInv, Recorded, Derived, Evidence, CleanEnd, "carrier" \in Enabled, reference \in Nat
  PROVE  /\ Summary!EndAgrees(Metadata.carrier, timeline,
                Summary!Places(timeline, "carrier_monitor_finished", reference, NoTime),
                Moves, reference, NoTime)
         /\ Summary!StatisticsAgree(Metadata.carrier, Moves, reference)
<1>a. /\ TypeOK /\ MeasuredTypeOK /\ EndInv /\ MovesOrdered /\ MovesAlternate
      /\ SentRecorded /\ FinishedRecorded /\ SamplingRecorded
  BY DEF IInv, Recorded, Derived, LinkRecorded, Evidence
<1>b. reference # NoTime BY DEF NoTime
<1>c. worker["carrier"] = "done"
  BY <1>a, <1>b DEF SentRecorded, EndInv, Last, CleanEnd
<1>1. main \in Ended /\ errors = {} BY DEF CleanEnd, Ended
<1>2. /\ sampling.count > 0 /\ sampling.last = sampling.since
      /\ reference <= sampling.since
      /\ sampling.gap <= sampling.since - reference
      /\ sampling.since - reference <= sampling.gap * sampling.count
      /\ sampling.read <= sampling.gap
      /\ Cardinality(Moves) <= sampling.count
      /\ \A i \in Moves : timeline[i].t <= sampling.since
  BY <1>a, <1>b, <1>c, <1>1 DEF SamplingRecorded
<1>3. /\ Metadata.carrier.last = sampling.last /\ Metadata.carrier.state = lastState
      /\ Metadata.carrier.count = sampling.count /\ Metadata.carrier.gap = sampling.gap
      /\ Metadata.carrier.read = sampling.read
  BY DEF Metadata
<1>4. PICK x : x \in Seen("carrier_monitor_finished")
  BY <1>a, <1>c, <1>1 DEF FinishedRecorded
<1>5. Summary!Places(timeline, "carrier_monitor_finished", reference, NoTime) = {x}
  BY <1>a, <1>4, PlacesAre DEF FinishedRecorded
<1>6. timeline[x].carrier = lastState /\ timeline[x].last = sampling.last
  BY <1>a, <1>4 DEF FinishedRecorded
<1>7. Summary!LinkState(timeline, Moves) = lastState
  BY <1>a, <1>b, <1>c, CleanLinkState
<1>8. \A t \in Summary!Stamps(timeline, Moves) : t <= sampling.last
  BY <1>2 DEF Summary!Stamps
<1>9. Summary!EndAgrees(Metadata.carrier, timeline, {x}, Moves, reference, NoTime)
  BY <1>2, <1>3, <1>6, <1>7, <1>8, OneOf DEF Summary!EndAgrees, Summary!None, NoTime
<1>10. Summary!Cardinality(Moves) = Cardinality(Moves)
  BY Zenon DEF Summary!Cardinality, Cardinality
<1>11. sampling.count >= 1 /\ sampling.count >= Cardinality(Moves)
  <2>1. sampling.count \in Nat /\ Cardinality(Moves) \in Nat
    BY <1>a, MovesFinite DEF MeasuredTypeOK
  <2> QED BY <1>2, <2>1
<1>12. /\ sampling.gap <= sampling.last - reference
       /\ sampling.gap * sampling.count >= sampling.last - reference
       /\ sampling.read <= sampling.gap
  <2>1. /\ sampling.gap \in Nat /\ sampling.count \in Nat /\ sampling.since \in Int
    BY <1>a DEF MeasuredTypeOK, Times, NoTime
  <2>2. sampling.gap * sampling.count \in Int BY <2>1
  <2> QED BY <1>2, <2>1, <2>2
<1>13. Summary!StatisticsAgree(Metadata.carrier, Moves, reference)
  BY <1>3, <1>10, <1>11, <1>12 DEF Summary!StatisticsAgree
<1> QED BY <1>5, <1>9, <1>13

LEMMA CleanCarrier ==
  ASSUME IInv, Recorded, Derived, Evidence, CleanEnd, "carrier" \in Enabled, reference \in Nat
  PROVE  ~Summary!CarrierObservations(Metadata, timeline, reference, NoTime).refused
<1>a. /\ TypeOK /\ MeasuredTypeOK /\ MovesOrdered /\ MovesAlternate /\ LinkDerived
      /\ SentRecorded /\ BaselineRecorded /\ CarrierRecorded
  BY DEF IInv, Recorded, Derived, LinkRecorded, Evidence
<1>b. reference # NoTime BY DEF NoTime
<1>1. Metadata.carrier.present
  BY <1>a, <1>b DEF SentRecorded, Metadata
<1>2. Metadata.readiness.carrier = ready["carrier"] BY DEF Metadata
<1>3. Summary!Places(timeline, "carrier_transition", reference, NoTime) = Moves
  BY <1>a, <1>b, PlacesAre DEF Moves
<1>4. /\ Summary!BaselineIsValid(Metadata.carrier, timeline, reference)
      /\ Summary!Alternates(timeline, Moves)
      /\ Summary!ReadinessAgrees(timeline,
             Summary!Places(timeline, "carrier_ready", reference, NoTime), Moves,
             ready["carrier"])
  BY <1>a, <1>b, CleanBaseline, CleanAlternates, CleanReadiness
<1>5. /\ Summary!EndAgrees(Metadata.carrier, timeline,
                Summary!Places(timeline, "carrier_monitor_finished", reference, NoTime),
                Moves, reference, NoTime)
      /\ Summary!StatisticsAgree(Metadata.carrier, Moves, reference)
  BY CleanFinish
<1> QED BY <1>1, <1>2, <1>3, <1>4, <1>5, Zenon DEF Summary!CarrierObservations

\* A powered capture that ends with a verdict, without an error and without a
\* second boot's text is never refused by its summary (reference_window,
\* uart_text, carrier_observations and summarize_run, lines 80-309): the
\* observer's locked readings, the recorder's records and the counters they
\* keep satisfy every cross-check, whatever the interleaving.
THEOREM CleanCaptureSound == MeasuredSpec => []CleanCaptureIsEligible
<1>1. IInv /\ Recorded /\ Derived /\ Evidence => CleanCaptureIsEligible
  <2> SUFFICES ASSUME IInv, Recorded, Derived, Evidence, CleanEnd
               PROVE  Summary!Eligible(Report)
    BY DEF CleanCaptureIsEligible, CleanEnd
  <2>a. /\ TypeOK /\ MeasuredTypeOK /\ ErrorsRecorded /\ SshRecorded /\ UartOrdered
        /\ SentRecorded /\ UartAdjoins
    BY DEF IInv, Recorded, Derived, ConsoleRecorded, Evidence
  <2>1. /\ ~Window.refused /\ Window.start = reference /\ Window.end = NoTime
        /\ reference \in Nat
        /\ SecondBoot = NoTime /\ WindowEnd = NoTime
        /\ WindowChunks = Heard
    BY CleanWindow
  <2>2. ~Summary!UartGap(timeline, WindowChunks)
    BY <2>a, <2>1, NoGap
  <2>3. ~Summary!ErrorEvents(timeline, Window.start, Window.end)
    BY <2>a, <2>1, PlacesAre DEF Summary!ErrorEvents, ErrorsRecorded, CleanEnd
  <2>4. ~supplyFault
    BY <2>a, <2>1 DEF SentRecorded, CleanEnd, NoTime
  <2>5. ~SshSeen.clash
    BY <2>a, <2>1, NoClash DEF SshSeen
  <2>6. "carrier" \in Enabled => ~CarrierSeen.refused
    BY <2>1, CleanCarrier DEF CarrierSeen
  <2>7. status \in Summary!GoodStatuses
    BY DEF CleanEnd
  <2> QED BY <2>1, <2>2, <2>3, <2>4, <2>5, <2>6, <2>7, ReportIs
<1> QED BY <1>1, EvidenceInvariance, PTL
=============================================================================
