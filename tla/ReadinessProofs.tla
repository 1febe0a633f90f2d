-------------------------- MODULE ReadinessProofs ---------------------------
(***************************************************************************)
(* Theorems about Readiness, for any number of boots and restarts: the     *)
(* types, what cuda-ready.json vouches for, what systemd's "active" means, *)
(* and the order of the markers.                                           *)
(***************************************************************************)
EXTENDS Readiness, TLAPS

USE DEF Units

(***************************************************************************)
(* What every boot of the target starts with has its types.                *)
(***************************************************************************)
LEMMA FreshBoot ==
  /\ [u \in Units |-> "waiting"] \in [Units -> {"waiting", "running", "done"}]
  /\ [u \in Units |-> "inactive"]
       \in [Units -> {"inactive", "activating", "active", "failed"}]
  /\ [u \in Units |-> "off"] \in [Units -> Labels]
  /\ [u \in Units |-> FALSE] \in [Units -> BOOLEAN]
  /\ [u \in Units |-> "absent"] \in [Units -> {"absent", "empty", "whole"}]
  /\ NoSmoke \in [run : Nat, passed : BOOLEAN]
  /\ << >> \in Seq([unit : Units, ready : BOOLEAN])
<1>1. [u \in Units |-> "waiting"] \in [Units -> {"waiting", "running", "done"}]
  OBVIOUS
<1>2. [u \in Units |-> "inactive"]
        \in [Units -> {"inactive", "activating", "active", "failed"}]
  OBVIOUS
<1>3. [u \in Units |-> "off"] \in [Units -> Labels] BY DEF Labels
<1>4. [u \in Units |-> FALSE] \in [Units -> BOOLEAN] OBVIOUS
<1>5. [u \in Units |-> "absent"] \in [Units -> {"absent", "empty", "whole"}]
  OBVIOUS
<1>6. NoSmoke \in [run : Nat, passed : BOOLEAN] BY DEF NoSmoke
<1>7. << >> \in Seq([unit : Units, ready : BOOLEAN]) OBVIOUS
<1> QED BY <1>1, <1>2, <1>3, <1>4, <1>5, <1>6, <1>7

(***************************************************************************)
(* The target's first boot has the types.                                  *)
(***************************************************************************)
LEMMA InitTypes == Init => ReadinessTypeOK
<1> SUFFICES ASSUME Init PROVE ReadinessTypeOK
  OBVIOUS
<1>1. job \in [Units -> {"waiting", "running", "done"}] BY FreshBoot DEF Init
<1>2. unit \in [Units -> {"inactive", "activating", "active", "failed"}]
  BY FreshBoot DEF Init
<1>3. pc \in [Units -> Labels] BY FreshBoot DEF Init
<1>4. termed \in [Units -> BOOLEAN] BY FreshBoot DEF Init
<1>5. ready \in [Units -> {"absent", "empty", "whole"}] BY FreshBoot DEF Init
<1>6. smoke \in [run : Nat, passed : BOOLEAN] BY FreshBoot DEF Init
<1>7. journal \in Seq([unit : Units, ready : BOOLEAN]) BY FreshBoot DEF Init
<1>8. /\ boot \in Nat /\ provided \in Provisions /\ passed \in BOOLEAN
      /\ temporary \in BOOLEAN /\ activation \in Nat /\ restarts \in Nat
  BY DEF Init
<1> QED BY <1>1, <1>2, <1>3, <1>4, <1>5, <1>6, <1>7, <1>8 DEF ReadinessTypeOK

(***************************************************************************)
(* Every step keeps the types.                                             *)
(***************************************************************************)
LEMMA TypeStep == ReadinessTypeOK /\ [Next]_vars => ReadinessTypeOK'
<1> SUFFICES ASSUME ReadinessTypeOK, [Next]_vars PROVE ReadinessTypeOK'
  OBVIOUS
<1> USE DEF ReadinessTypeOK, Labels
<1>1. ASSUME NEW u \in Units, UnitStep(u) PROVE ReadinessTypeOK'
  <2>1. CASE Start(u) BY <2>1 DEF Start, FirstStep
  <2>2. CASE DependencyFailed(u) BY <2>2 DEF DependencyFailed, scriptVars
  <2>3. CASE ReadUptime(u) BY <2>3 DEF ReadUptime, At
  <2>4. CASE UptimeInvalid(u) BY <2>4 DEF UptimeInvalid, At, Ended
  <2>5. CASE OpenRecord(u) BY <2>5 DEF OpenRecord, At
  <2>6. CASE FillRecord(u) BY <2>6 DEF FillRecord, At
  <2>7. CASE EmitMarker(u)
    <3>1. [unit |-> u, ready |-> Succeeded(u)] \in [unit : Units, ready : BOOLEAN]
      BY DEF Succeeded
    <3> QED BY <2>7, <3>1 DEF EmitMarker, At, Ended
  <2>8. CASE TimeoutWithoutTrap(u) BY <2>8 DEF TimeoutWithoutTrap, Ended
  <2>9. CASE TimeoutWithTrap(u) BY <2>9 DEF TimeoutWithTrap
  <2>10. CASE Kill(u) BY <2>10 DEF Kill, Ended
  <2> QED BY <1>1, <2>1, <2>2, <2>3, <2>4, <2>5, <2>6, <2>7, <2>8, <2>9, <2>10
           DEF UnitStep
<1>2. CASE CudaStep
  <2>1. CASE ClearReady BY <2>1 DEF ClearReady, At
  <2>2. CASE MakeTemporary BY <2>2 DEF MakeTemporary, At
  <2>3. CASE SetTrap BY <2>3 DEF SetTrap, At
  <2>4. ASSUME NEW ok \in BOOLEAN, ProbeEnds(ok) PROVE ReadinessTypeOK'
    BY <2>4 DEF ProbeEnds, At
  <2>5. CASE Publish BY <2>5 DEF Publish, At
  <2>6. CASE PublishFails BY <2>6 DEF PublishFails, At, Ended
  <2> QED BY <1>2, <2>1, <2>2, <2>3, <2>4, <2>5, <2>6 DEF CudaStep
<1>3. ASSUME NEW u \in Restarted, Restart(u) PROVE ReadinessTypeOK'
  BY <1>3 DEF Restart, scriptVars
<1>4. CASE Reboot
  <2>1. boot' \in Nat BY <1>4 DEF Reboot
  <2> QED BY <1>4, <2>1, FreshBoot DEF Reboot
<1>5. CASE UNCHANGED vars BY <1>5 DEF vars, scriptVars
<1> QED BY <1>1, <1>2, <1>3, <1>4, <1>5 DEF Next

(***************************************************************************)
(* The units, scripts and files always have their types.                   *)
(***************************************************************************)
THEOREM ReadinessTypes == Spec => []ReadinessTypeOK
<1> QED BY InitTypes, TypeStep, PTL DEF Spec

-----------------------------------------------------------------------------
(***************************************************************************)
(* What the cuda script knows at each of its lines: the old record is gone *)
(* until the smoke of this activation is published, and only a smoke that  *)
(* passed leads to the lines that write a new one.                         *)
(***************************************************************************)
Withdrawn == pc["cuda"] \in {"mktemp", "trap", "probing", "publish"}
               => ready["cuda"] = "absent"

Published == pc["cuda"] \in {"uptime", "open", "fill", "mark"}
               => smoke = [run |-> activation, passed |-> passed]

OnlyIfPassed == pc["cuda"] \in {"open", "fill"} => passed

ScriptInv == Withdrawn /\ Published /\ OnlyIfPassed /\ ReadyMeansSmokePassed

(***************************************************************************)
(* Every step keeps what the script knows.                                 *)
(***************************************************************************)
LEMMA ScriptStep == ReadinessTypeOK /\ ScriptInv /\ [Next]_vars => ScriptInv'
<1> SUFFICES ASSUME ReadinessTypeOK, ScriptInv, [Next]_vars PROVE ScriptInv'
  OBVIOUS
<1> USE DEF ReadinessTypeOK, Labels, ScriptInv, Withdrawn, Published, OnlyIfPassed,
            ReadyMeansSmokePassed
<1>1. ASSUME NEW u \in Units, UnitStep(u) PROVE ScriptInv'
  <2>1. CASE Start(u) BY <2>1 DEF Start, FirstStep
  <2>2. CASE DependencyFailed(u) BY <2>2 DEF DependencyFailed, scriptVars
  <2>3. CASE ReadUptime(u) BY <2>3 DEF ReadUptime, At
  <2>4. CASE UptimeInvalid(u) BY <2>4 DEF UptimeInvalid, At, Ended
  <2>5. CASE OpenRecord(u) BY <2>5 DEF OpenRecord, At
  <2>6. CASE FillRecord(u) BY <2>6 DEF FillRecord, At
  <2>7. CASE EmitMarker(u) BY <2>7 DEF EmitMarker, At, Ended
  <2>8. CASE TimeoutWithoutTrap(u) BY <2>8 DEF TimeoutWithoutTrap, Ended
  <2>9. CASE TimeoutWithTrap(u) BY <2>9 DEF TimeoutWithTrap, Trapping
  <2>10. CASE Kill(u) BY <2>10 DEF Kill, Ended
  <2> QED BY <1>1, <2>1, <2>2, <2>3, <2>4, <2>5, <2>6, <2>7, <2>8, <2>9, <2>10
           DEF UnitStep
<1>2. CASE CudaStep
  <2>1. CASE ClearReady BY <2>1 DEF ClearReady, At
  <2>2. CASE MakeTemporary BY <2>2 DEF MakeTemporary, At
  <2>3. CASE SetTrap BY <2>3 DEF SetTrap, At
  <2>4. ASSUME NEW ok \in BOOLEAN, ProbeEnds(ok) PROVE ScriptInv'
    BY <2>4 DEF ProbeEnds, At
  <2>5. CASE Publish BY <2>5 DEF Publish, At
  <2>6. CASE PublishFails BY <2>6 DEF PublishFails, At, Ended
  <2> QED BY <1>2, <2>1, <2>2, <2>3, <2>4, <2>5, <2>6 DEF CudaStep
<1>3. ASSUME NEW u \in Restarted, Restart(u) PROVE ScriptInv'
  BY <1>3 DEF Restart, scriptVars
<1>4. CASE Reboot BY <1>4 DEF Reboot
<1>5. CASE UNCHANGED vars BY <1>5 DEF vars, scriptVars
<1> QED BY <1>1, <1>2, <1>3, <1>4, <1>5 DEF Next

(***************************************************************************)
(* A cuda-ready.json on /run vouches for a smoke of its own activation     *)
(* that passed.                                                            *)
(***************************************************************************)
THEOREM ReadyVouches == Spec => []ReadyMeansSmokePassed
<1>1. Init => ReadinessTypeOK /\ ScriptInv
  BY InitTypes
     DEF Init, ScriptInv, Withdrawn, Published, OnlyIfPassed, ReadyMeansSmokePassed
<1>2. ReadinessTypeOK /\ ScriptInv /\ [Next]_vars => (ReadinessTypeOK /\ ScriptInv)'
  BY TypeStep, ScriptStep
<1>3. ScriptInv => ReadyMeansSmokePassed
  BY DEF ScriptInv
<1> QED BY <1>1, <1>2, <1>3, PTL DEF Spec

-----------------------------------------------------------------------------
(***************************************************************************)
(* READY is the last thing unit u printed, in two parts: that it was       *)
(* printed at i, and that nothing of u follows.                            *)
(***************************************************************************)
LastAt(u, i) ==
  /\ i \in DOMAIN journal
  /\ journal[i] = [unit |-> u, ready |-> TRUE]
  /\ \A j \in i+1 .. Len(journal) : journal[j].unit # u

ActiveIsDone == \A u \in Units : unit[u] = "active" => job[u] = "done"
ActiveIsWhole == \A u \in Units : unit[u] = "active" => ready[u] = "whole"
ActiveIsTold == \A u \in Units : unit[u] = "active" => \E i \in Nat : LastAt(u, i)
MarkIsWhole == \A u \in Units : pc[u] = "mark" /\ Succeeded(u) => ready[u] = "whole"

UnitInv == ActiveIsDone /\ ActiveIsWhole /\ ActiveIsTold /\ MarkIsWhole

(***************************************************************************)
(* A marker of u leaves what every other unit has told, and a READY marker *)
(* is what u has told last.                                                *)
(***************************************************************************)
LEMMA Telling ==
  ASSUME ReadinessTypeOK, NEW u \in Units, EmitMarker(u)
  PROVE  /\ \A v \in Units \ {u}, i \in Nat : LastAt(v, i) => LastAt(v, i)'
         /\ \A k \in Nat : Succeeded(u) /\ k = Len(journal) + 1 => LastAt(u, k)'
<1> DEFINE m == [unit |-> u, ready |-> Succeeded(u)]
<1>1. journal \in Seq([unit : Units, ready : BOOLEAN])
  BY DEF ReadinessTypeOK
<1>2. journal' = Append(journal, m)
  BY DEF EmitMarker
<1>3. m \in [unit : Units, ready : BOOLEAN]
  BY DEF Succeeded, ReadinessTypeOK
<1>4. /\ Len(journal') = Len(journal) + 1 /\ Len(journal) \in Nat
      /\ DOMAIN journal = 1 .. Len(journal) /\ DOMAIN journal' = 1 .. Len(journal')
      /\ journal'[Len(journal) + 1] = m
      /\ \A i \in 1 .. Len(journal) : journal'[i] = journal[i]
  BY <1>1, <1>2, <1>3
<1>5. m.unit = u
  OBVIOUS
<1>6. ASSUME NEW v \in Units \ {u}, NEW i \in Nat, LastAt(v, i) PROVE LastAt(v, i)'
  <2>1. i \in 1 .. Len(journal) /\ journal[i] = [unit |-> v, ready |-> TRUE]
    BY <1>4, <1>6 DEF LastAt
  <2>2. i \in 1 .. Len(journal') BY <1>4, <2>1
  <2>3. i \in DOMAIN journal' BY <1>4, <2>2, Zenon
  <2>4. journal'[i] = [unit |-> v, ready |-> TRUE] BY <1>4, <2>1
  <2>5. ASSUME NEW j \in i+1 .. Len(journal') PROVE journal'[j].unit # v
    <3>1. CASE j = Len(journal) + 1 BY <1>4, <1>5, <3>1
    <3>2. CASE j # Len(journal) + 1
      <4>1. j \in i+1 .. Len(journal) /\ j \in 1 .. Len(journal)
        BY <1>4, <3>2
      <4> QED BY <4>1, <1>4, <1>6 DEF LastAt
    <3> QED BY <3>1, <3>2
  <2> QED BY <2>3, <2>4, <2>5 DEF LastAt
<1>7. ASSUME Succeeded(u), NEW k \in Nat, k = Len(journal) + 1 PROVE LastAt(u, k)'
  <2>1. m = [unit |-> u, ready |-> TRUE]
    BY <1>7 DEF Succeeded, ReadinessTypeOK
  <2>2. k \in DOMAIN journal' /\ journal'[k] = [unit |-> u, ready |-> TRUE]
    BY <1>4, <1>7, <2>1
  <2>3. \A j \in k+1 .. Len(journal') : FALSE
    BY <1>4, <1>7
  <2> QED BY <2>2, <2>3 DEF LastAt
<1> HIDE DEF m
<1> QED BY <1>6, <1>7

(***************************************************************************)
(* A step that prints nothing and makes no unit active keeps what the      *)
(* active units have told.                                                 *)
(***************************************************************************)
LEMMA Silence ==
  ASSUME ActiveIsTold, UNCHANGED journal,
         \A u \in Units : unit'[u] = "active" => unit[u] = "active"
  PROVE  ActiveIsTold'
<1>1. \A u \in Units, i \in Nat : LastAt(u, i) => LastAt(u, i)'
  BY DEF LastAt
<1> QED BY <1>1 DEF ActiveIsTold

(***************************************************************************)
(* The marker step, the only one that makes a unit active.                 *)
(***************************************************************************)
LEMMA MarkerStep ==
  ASSUME ReadinessTypeOK, UnitInv, NEW u \in Units, EmitMarker(u)
  PROVE  UnitInv'
<1>1. /\ unit' = [unit EXCEPT ![u] = IF Succeeded(u) /\ ~termed[u] THEN "active" ELSE "failed"]
      /\ job' = [job EXCEPT ![u] = "done"]
      /\ pc' = [pc EXCEPT ![u] = "off"]
      /\ passed' = (passed /\ u # "cuda")
      /\ ready' = ready
      /\ pc[u] = "mark"
  BY DEF EmitMarker, Ended, At
<1>2. ActiveIsDone' BY <1>1 DEF UnitInv, ActiveIsDone, ReadinessTypeOK
<1>3. ActiveIsWhole'
  BY <1>1 DEF UnitInv, ActiveIsWhole, MarkIsWhole, ReadinessTypeOK
<1>4. ActiveIsTold'
  <2> SUFFICES ASSUME NEW v \in Units, unit'[v] = "active"
               PROVE  \E i \in Nat : LastAt(v, i)'
    BY DEF ActiveIsTold
  <2>1. CASE v = u
    <3>1. Succeeded(u) BY <1>1, <2>1 DEF ReadinessTypeOK
    <3>2. Len(journal) + 1 \in Nat BY DEF ReadinessTypeOK
    <3>3. PICK k \in Nat : k = Len(journal) + 1 BY <3>2
    <3> QED BY <2>1, <3>1, <3>3, Telling
  <2>2. CASE v # u
    <3>1. unit[v] = "active" BY <1>1, <2>2 DEF ReadinessTypeOK
    <3>2. PICK i \in Nat : LastAt(v, i) BY <3>1 DEF UnitInv, ActiveIsTold
    <3> QED BY <2>2, <3>2, Telling
  <2> QED BY <2>1, <2>2
<1>5. MarkIsWhole'
  BY <1>1 DEF UnitInv, MarkIsWhole, Succeeded, ReadinessTypeOK, Labels
<1> QED BY <1>2, <1>3, <1>4, <1>5 DEF UnitInv

(***************************************************************************)
(* Every step keeps what an active unit stands for.                        *)
(***************************************************************************)
LEMMA UnitInvStep ==
  ASSUME ReadinessTypeOK, ScriptInv, UnitInv, [Next]_vars
  PROVE  UnitInv'
<1> USE DEF ReadinessTypeOK, Labels
<1> DEFINE Rest == ActiveIsDone /\ ActiveIsWhole /\ MarkIsWhole
           Quiet == /\ UNCHANGED journal
                    /\ \A u \in Units : unit'[u] = "active" => unit[u] = "active"
<1>0. ASSUME Quiet, Rest' PROVE UnitInv'
  BY <1>0, Silence DEF UnitInv
<1> HIDE DEF Rest, Quiet
<1> USE DEF ActiveIsDone, ActiveIsWhole, MarkIsWhole, Succeeded, UnitInv
<1>1. ASSUME NEW u \in Units, UnitStep(u), ~EmitMarker(u) PROVE Quiet /\ Rest'
  <2>1. CASE Start(u) BY <2>1 DEF Start, FirstStep, Quiet, Rest
  <2>2. CASE DependencyFailed(u) BY <2>2 DEF DependencyFailed, scriptVars, Quiet, Rest
  <2>3. CASE ReadUptime(u) BY <2>3 DEF ReadUptime, At, Quiet, Rest
  <2>4. CASE UptimeInvalid(u) BY <2>4 DEF UptimeInvalid, At, Ended, Quiet, Rest
  <2>5. CASE OpenRecord(u) BY <2>5 DEF OpenRecord, At, Quiet, Rest
  <2>6. CASE FillRecord(u) BY <2>6 DEF FillRecord, At, Quiet, Rest
  <2>7. CASE TimeoutWithoutTrap(u) BY <2>7 DEF TimeoutWithoutTrap, Ended, Quiet, Rest
  <2>8. CASE TimeoutWithTrap(u) BY <2>8 DEF TimeoutWithTrap, Quiet, Rest
  <2>9. CASE Kill(u) BY <2>9 DEF Kill, Ended, Quiet, Rest
  <2> QED BY <1>1, <2>1, <2>2, <2>3, <2>4, <2>5, <2>6, <2>7, <2>8, <2>9 DEF UnitStep
<1>2. ASSUME CudaStep PROVE Quiet /\ Rest'
  <2>1. CASE ClearReady BY <2>1 DEF ClearReady, At, Quiet, Rest
  <2>2. CASE MakeTemporary BY <2>2 DEF MakeTemporary, At, Quiet, Rest
  <2>3. CASE SetTrap BY <2>3 DEF SetTrap, At, Quiet, Rest
  <2>4. ASSUME NEW ok \in BOOLEAN, ProbeEnds(ok) PROVE Quiet /\ Rest'
    BY <2>4 DEF ProbeEnds, At, Quiet, Rest
  <2>5. CASE Publish BY <2>5 DEF Publish, At, Quiet, Rest
  <2>6. CASE PublishFails BY <2>6 DEF PublishFails, At, Ended, Quiet, Rest
  <2> QED BY <1>2, <2>1, <2>2, <2>3, <2>4, <2>5, <2>6 DEF CudaStep
<1>3. ASSUME NEW u \in Restarted, Restart(u) PROVE Quiet /\ Rest'
  BY <1>3 DEF Restart, scriptVars, Quiet, Rest
<1>4. CASE Reboot
  <2>1. \A u \in Units : unit'[u] = "inactive" /\ pc'[u] = "off" BY <1>4 DEF Reboot
  <2> QED BY <2>1 DEF ActiveIsTold
<1>5. ASSUME UNCHANGED vars PROVE Quiet /\ Rest'
  BY <1>5 DEF vars, scriptVars, Quiet, Rest
<1> QED BY <1>0, <1>1, <1>2, <1>3, <1>4, <1>5, MarkerStep DEF Next

(***************************************************************************)
(* A unit that systemd shows as active has published its whole record and  *)
(* printed READY last.                                                     *)
(***************************************************************************)
THEOREM ActiveIsPublished == Spec => []ActiveMeansPublished
<1>1. Init => UnitInv
  <2> SUFFICES ASSUME Init PROVE UnitInv
    OBVIOUS
  <2>1. \A u \in Units : unit[u] = "inactive" /\ pc[u] = "off" BY DEF Init
  <2> QED BY <2>1 DEF UnitInv, ActiveIsDone, ActiveIsWhole, ActiveIsTold, MarkIsWhole
<1>2. UnitInv => ActiveMeansPublished
  BY DEF UnitInv, ActiveIsWhole, ActiveIsTold, LastAt, ActiveMeansPublished
<1>3. Init => ScriptInv
  BY DEF Init, ScriptInv, Withdrawn, Published, OnlyIfPassed, ReadyMeansSmokePassed
<1> QED BY <1>1, <1>2, <1>3, InitTypes, TypeStep, ScriptStep, UnitInvStep, PTL DEF Spec

-----------------------------------------------------------------------------
(***************************************************************************)
(* Before a restart the os job ends once in a boot.  Until it has ended    *)
(* cuda does not run and has printed nothing; afterwards os prints no more.*)
(***************************************************************************)
CudaSilent == \A i \in DOMAIN journal : journal[i].unit # "cuda"

OrderInv ==
  /\ OsMarkerComesFirst
  /\ restarts = 0 /\ job["os"] # "done" => job["cuda"] # "running" /\ CudaSilent

(***************************************************************************)
(* A marker appended in its turn keeps the order.                          *)
(***************************************************************************)
LEMMA OrderMarker ==
  ASSUME ReadinessTypeOK, OrderInv, NEW u \in Units, EmitMarker(u)
  PROVE  OrderInv'
<1> DEFINE m == [unit |-> u, ready |-> Succeeded(u)]
           last == Len(journal) + 1
<1>1. journal \in Seq([unit : Units, ready : BOOLEAN]) /\ journal' = Append(journal, m)
  BY DEF ReadinessTypeOK, EmitMarker
<1>2. m \in [unit : Units, ready : BOOLEAN] /\ m.unit = u
  BY DEF Succeeded, ReadinessTypeOK
<1>3. /\ Len(journal) \in Nat
      /\ DOMAIN journal = 1 .. Len(journal) /\ DOMAIN journal' = 1 .. last
      /\ journal'[last] = m
      /\ \A i \in 1 .. Len(journal) : journal'[i] = journal[i]
  BY <1>1, <1>2
<1>4. job[u] = "running" /\ job' = [job EXCEPT ![u] = "done"] /\ restarts' = restarts
  BY DEF EmitMarker, At, Ended
<1> HIDE DEF m
<1>5. CASE restarts # 0
  BY <1>4, <1>5 DEF OrderInv, OsMarkerComesFirst
<1>6. CASE restarts = 0 /\ u = "os"
  <2>1. CudaSilent
    BY <1>4, <1>6 DEF OrderInv
  <2>2. CudaSilent'
    BY <1>2, <1>3, <1>6, <2>1 DEF CudaSilent
  <2> QED BY <1>4, <1>6, <2>2 DEF OrderInv, OsMarkerComesFirst, CudaSilent, ReadinessTypeOK
<1>7. CASE restarts = 0 /\ u = "cuda"
  <2>1. job["os"] = "done"
    BY <1>4, <1>7 DEF OrderInv
  <2>2. ASSUME NEW i \in DOMAIN journal', NEW j \in DOMAIN journal',
               journal'[i].unit = "cuda", journal'[j].unit = "os"
        PROVE  j < i
    <3>1. j \in 1 .. Len(journal) /\ journal[j].unit = "os"
      BY <1>2, <1>3, <1>7, <2>2
    <3>2. CASE i = last BY <1>3, <3>1, <3>2
    <3>3. CASE i # last
      <4>1. i \in DOMAIN journal /\ j \in DOMAIN journal /\ journal[i].unit = "cuda"
        BY <1>3, <2>2, <3>1, <3>3
      <4> QED BY <1>7, <3>1, <4>1 DEF OrderInv, OsMarkerComesFirst
    <3> QED BY <3>2, <3>3
  <2>3. OsMarkerComesFirst'
    BY <2>2 DEF OsMarkerComesFirst
  <2> QED BY <1>4, <1>7, <2>1, <2>3 DEF OrderInv, ReadinessTypeOK
<1> QED BY <1>5, <1>6, <1>7

(***************************************************************************)
(* No other step prints, starts cuda before os is done, or starts a done   *)
(* os again without a restart or a reboot.                                 *)
(***************************************************************************)
LEMMA OrderStep == ReadinessTypeOK /\ OrderInv /\ [Next]_vars => OrderInv'
<1> SUFFICES ASSUME ReadinessTypeOK, OrderInv, [Next]_vars PROVE OrderInv'
  OBVIOUS
<1> DEFINE Held == /\ UNCHANGED <<journal, restarts>>
                   /\ job["os"] = "done" => job'["os"] = "done"
                   /\ job'["cuda"] = "running" =>
                          job["cuda"] = "running" \/ job["os"] = "done"
<1>0. ASSUME Held PROVE OrderInv'
  BY <1>0 DEF OrderInv, OsMarkerComesFirst, CudaSilent
<1> HIDE DEF Held
<1> USE DEF ReadinessTypeOK, Held
<1>1. ASSUME NEW u \in Units, UnitStep(u), ~EmitMarker(u) PROVE Held
  BY <1>1 DEF UnitStep, Start, DependencyFailed, ReadUptime, UptimeInvalid, OpenRecord,
              FillRecord, TimeoutWithoutTrap, TimeoutWithTrap, Kill, At, Ended, scriptVars
<1>2. CASE CudaStep
  <2>1. Held
    BY <1>2 DEF CudaStep, ClearReady, MakeTemporary, SetTrap, ProbeEnds, Publish,
                PublishFails, At, Ended
  <2> QED BY <1>0, <2>1
<1>3. ASSUME NEW u \in Restarted, Restart(u) PROVE OrderInv'
  <2>1. restarts' # 0 BY <1>3 DEF Restart
  <2> QED BY <2>1 DEF OrderInv, OsMarkerComesFirst
<1>4. CASE Reboot
  <2>1. journal' = << >> /\ job'["cuda"] = "waiting" BY <1>4 DEF Reboot
  <2>2. DOMAIN journal' = {} BY <2>1
  <2> QED BY <2>1, <2>2 DEF OrderInv, OsMarkerComesFirst, CudaSilent
<1>5. CASE UNCHANGED vars BY <1>0, <1>5 DEF vars, scriptVars
<1> QED BY <1>0, <1>1, <1>2, <1>3, <1>4, <1>5, OrderMarker DEF Next

(***************************************************************************)
(* Without a restart no boot shows a CUDA marker before its OS marker.     *)
(***************************************************************************)
THEOREM MarkersInOrder == Spec => []OsMarkerComesFirst
<1>1. Init => OrderInv
  <2> SUFFICES ASSUME Init PROVE OrderInv
    OBVIOUS
  <2>1. DOMAIN journal = {} /\ job["cuda"] = "waiting" BY DEF Init
  <2> QED BY <2>1 DEF OrderInv, OsMarkerComesFirst, CudaSilent
<1>2. OrderInv => OsMarkerComesFirst BY DEF OrderInv
<1> QED BY <1>1, <1>2, InitTypes, TypeStep, OrderStep, PTL DEF Spec
=============================================================================
