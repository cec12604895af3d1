--------------------------- MODULE PlatformProofs ---------------------------
(***************************************************************************)
(* Proofs about Platform, for any incidents, workers and bounds: the part  *)
(* of the workers in the composition is Consumer, a published event is     *)
(* pursued, and an event is processed once and only after its incident was *)
(* accepted.                                                               *)
(***************************************************************************)
EXTENDS Platform, ConsumerProofs

-----------------------------------------------------------------------------
(* The inductive invariant, part by part *)

DeliveryTypeOK ==
    /\ status \in [Incidents -> {"absent", "pending", "published"}]
    /\ copies \in [Incidents -> Nat]

(* Nothing that stems from an incident is in the topic, or has a marker,   *)
(* before the incident is accepted.                                        *)
AcceptedFirst ==
    /\ \A o \in 1..Len(log) : log[o] \in Incidents => status[log[o]] # "absent"
    /\ \A e \in Incidents : e \in processed => status[e] # "absent"

(* What the outbox calls published is in the topic. *)
CopiesAreMessages ==
    \A e \in Incidents :
        /\ status[e] = "published" => copies[e] > 0
        /\ copies[e] > 0 => \E o \in 1..Len(log) : log[o] = e

PlatformInv ==
    /\ SkipInv
    /\ DeliveryTypeOK
    /\ AcceptedFirst
    /\ CopiesAreMessages

-----------------------------------------------------------------------------
(* Every step of the composition is a step of the workers and the broker,  *)
(* or leaves them alone.                                                   *)
LEMMA ConsumerStep == [PlatformNext]_allVars => [Next]_vars
<1> SUFFICES ASSUME [PlatformNext]_allVars PROVE [Next]_vars
    OBVIOUS
<1>1. ASSUME NEW e \in Incidents, Accept(e) \/ Transfer(e) \/ Confirm(e)
      PROVE  [Next]_vars
    BY <1>1 DEF Accept, Transfer, Confirm, Next, Incidents
<1>2. ASSUME NEW m \in Malformed, Disturb(m) PROVE [Next]_vars
    BY <1>2, ConsumerAssumption DEF Disturb, Next
<1>3. CASE WorkerStep
    BY <1>3 DEF WorkerStep, Next
<1>4. CASE UNCHANGED allVars
    BY <1>4 DEF allVars
<1> QED
    BY <1>1, <1>2, <1>3, <1>4 DEF PlatformNext

(* The workers of the platform are those of Consumer. *)
THEOREM PlatformImplementsConsumer == PlatformSpec => Spec
<1>1. PlatformInit => Init
    BY DEF PlatformInit
<1> QED
    BY <1>1, ConsumerStep, PTL DEF PlatformSpec, Spec

(* Nothing is accepted, in the topic or processed at first. *)
LEMMA InitPlatformInv == PlatformInit => PlatformInv
<1> SUFFICES ASSUME PlatformInit PROVE PlatformInv
    OBVIOUS
<1>1. SkipInv
    BY InitSkipInv DEF PlatformInit
<1>2. DeliveryTypeOK /\ AcceptedFirst /\ CopiesAreMessages
    BY DEF PlatformInit, Init, AtLeastOnce!Init, DeliveryTypeOK, AcceptedFirst,
           CopiesAreMessages
<1> QED
    BY <1>1, <1>2 DEF PlatformInv

(* What one step may do to the outbox, the log and the markers together    *)
(* keeps the three in agreement.                                           *)
LEMMA StepPlatformInv == PlatformInv /\ [PlatformNext]_allVars => PlatformInv'
<1> SUFFICES ASSUME PlatformInv, [PlatformNext]_allVars PROVE PlatformInv'
    OBVIOUS
<1>1. SkipInv /\ SkipInv'
    BY ConsumerStep, StepSkipInv DEF PlatformInv
<1>2. TypeOK /\ Len(log) \in Nat
    <2>1. TypeOK
        BY <1>1 DEF SkipInv, TypeInv
    <2> QED
        BY <2>1 DEF TypeOK
<1> USE DEF DeliveryTypeOK, AcceptedFirst, CopiesAreMessages
<1>3. ASSUME NEW e \in Incidents, Accept(e)
      PROVE  DeliveryTypeOK' /\ AcceptedFirst' /\ CopiesAreMessages'
    BY <1>3 DEF Accept, AtLeastOnce!Accept, PlatformInv, vars
<1>4. ASSUME NEW e \in Incidents, Confirm(e)
      PROVE  DeliveryTypeOK' /\ AcceptedFirst' /\ CopiesAreMessages'
    BY <1>4 DEF Confirm, AtLeastOnce!Confirm, PlatformInv, vars
<1>5. ASSUME NEW e \in Events, Publish(e)
      PROVE  /\ Len(log') = Len(log) + 1
             /\ log'[Len(log) + 1] = e
             /\ \A o \in 1..Len(log) : log'[o] = log[o]
    BY <1>2, <1>5 DEF Publish, TypeOK
<1>6. ASSUME NEW e \in Incidents, Transfer(e)
      PROVE  DeliveryTypeOK' /\ AcceptedFirst' /\ CopiesAreMessages'
    <2>1. /\ e \in Events /\ Publish(e)
          /\ status[e] # "absent" /\ status' = status
          /\ copies' = [copies EXCEPT ![e] = @ + 1]
          /\ processed' = processed
        BY <1>6 DEF Transfer, AtLeastOnce!Append, Publish, Incidents
    <2>2. /\ Len(log') = Len(log) + 1
          /\ log'[Len(log) + 1] = e
          /\ \A o \in 1..Len(log) : log'[o] = log[o]
        BY <1>5, <2>1
    <2>3. DeliveryTypeOK' /\ AcceptedFirst'
        <3>1. DeliveryTypeOK'
            BY <2>1 DEF PlatformInv
        <3>2. ASSUME NEW o \in 1..Len(log'), log'[o] \in Incidents
              PROVE  status'[log'[o]] # "absent"
            <4>1. CASE o = Len(log) + 1
                BY <2>1, <2>2, <4>1
            <4>2. CASE o \in 1..Len(log)
                BY <2>1, <2>2, <3>2, <4>2 DEF PlatformInv
            <4> QED
                BY <1>2, <2>2, <4>1, <4>2
        <3>3. \A d \in Incidents : d \in processed' => status'[d] # "absent"
            BY <2>1 DEF PlatformInv
        <3> QED
            BY <3>1, <3>2, <3>3
    <2>4. ASSUME NEW d \in Incidents, copies'[d] > 0
          PROVE  \E o \in 1..Len(log') : log'[o] = d
        <3>1. CASE d = e
            BY <1>2, <2>2, <3>1
        <3>2. CASE d # e
            BY <1>2, <2>1, <2>2, <2>4, <3>2 DEF PlatformInv
        <3> QED
            BY <3>1, <3>2
    <2>5. \A d \in Incidents : status'[d] = "published" => copies'[d] > 0
        BY <2>1 DEF PlatformInv
    <2> QED
        BY <2>3, <2>4, <2>5
<1>7. ASSUME NEW m \in Malformed, Disturb(m)
      PROVE  DeliveryTypeOK' /\ AcceptedFirst' /\ CopiesAreMessages'
    <2>1. /\ m \in Events /\ m \notin Incidents /\ Publish(m)
          /\ status' = status /\ copies' = copies /\ processed' = processed
        BY <1>7, ConsumerAssumption DEF Disturb, Publish, outboxVars, Incidents
    <2>2. /\ Len(log') = Len(log) + 1
          /\ log'[Len(log) + 1] = m
          /\ \A o \in 1..Len(log) : log'[o] = log[o]
        BY <1>5, <2>1
    <2>3. DeliveryTypeOK' /\ AcceptedFirst'
        BY <1>2, <2>1, <2>2 DEF PlatformInv
    <2>4. CopiesAreMessages'
        BY <1>2, <2>1, <2>2 DEF PlatformInv
    <2> QED
        BY <2>3, <2>4
<1>8. ASSUME WorkerStep \/ UNCHANGED allVars
      PROVE  DeliveryTypeOK' /\ AcceptedFirst' /\ CopiesAreMessages'
    <2>1. status' = status /\ copies' = copies /\ log' = log
        BY <1>8
           DEF WorkerStep, Work, Assign, Poll, Skip, Process, Defer, Commit,
               LoseCommit, Seek, Crash, allVars, vars, outboxVars
    <2>2. CASE processed' = processed
        BY <2>1, <2>2 DEF PlatformInv
    <2>3. ASSUME NEW w \in Workers, Process(w)
          PROVE  DeliveryTypeOK' /\ AcceptedFirst' /\ CopiesAreMessages'
        <3>1. held[w] \in 1..Len(log)
            BY <1>1, <1>2, <2>3 DEF Process, SkipInv, TypeInv, TypeOK, BusyHolds
        <3>2. processed' = processed \cup {log[held[w]]}
            BY <2>3 DEF Process
        <3> QED
            BY <2>1, <3>1, <3>2 DEF PlatformInv
    <2> QED
        BY <1>8, <2>2, <2>3
           DEF WorkerStep, Work, Assign, Poll, Skip, Defer, Commit, LoseCommit,
               Seek, Crash, allVars, vars
<1> QED
    BY <1>1, <1>3, <1>4, <1>6, <1>7, <1>8 DEF PlatformNext, PlatformInv

-----------------------------------------------------------------------------
(* An event that is called published is processed, or a copy of it is      *)
(* still before the consumer group (dispatcher.py:114-139,                 *)
(* runner.py:221-260).                                                     *)
THEOREM PublishedIsPursuedHolds == PlatformSpec => []PublishedIsPursued
<1>1. PlatformInv => PublishedIsPursued
    <2> SUFFICES ASSUME PlatformInv, NEW e \in Incidents,
                        status[e] = "published", e \notin processed
                 PROVE  \E o \in (committed + 1)..Len(log) : log[o] = e
        BY DEF PublishedIsPursued
    <2>1. PICK o \in 1..Len(log) : log[o] = e
        BY DEF PlatformInv, CopiesAreMessages
    <2>2. ~ Handled(o)
        BY <2>1 DEF Handled, Incidents
    <2>3. committed \in Nat /\ Len(log) \in Nat /\ o > committed
        BY <2>2 DEF PlatformInv, SkipInv, NoMessageSkipped, TypeInv, TypeOK
    <2> QED
        BY <2>1, <2>3
<1> QED
    BY <1>1, InitPlatformInv, StepPlatformInv, PTL DEF PlatformSpec

(* An event is processed once, and only after its incident was accepted    *)
(* (incidents.py:22-55, processor.py:52-148).                              *)
THEOREM PlatformImplementsEndToEnd == PlatformSpec => ImplementsEndToEnd
<1>1. PlatformInit => Promise!Init
    BY DEF PlatformInit, Init, AtLeastOnce!Init, Promise!Init, stage
<1>2. PlatformInv /\ PlatformInv' /\ [PlatformNext]_allVars => [Promise!Next]_stage
    <2> SUFFICES ASSUME PlatformInv, PlatformInv', [PlatformNext]_allVars
                 PROVE  Promise!Next \/ stage' = stage
        OBVIOUS
    <2>1. /\ stage \in [Incidents -> {"absent", "accepted", "processed"}]
          /\ stage' \in [Incidents -> {"absent", "accepted", "processed"}]
        BY DEF stage
    <2>2. ASSUME NEW e \in Incidents, Accept(e) PROVE Promise!Next
        <3>1. stage[e] = "absent" /\ stage' = [stage EXCEPT ![e] = "accepted"]
            BY <2>1, <2>2
               DEF Accept, AtLeastOnce!Accept, vars, stage, PlatformInv,
                   AcceptedFirst, DeliveryTypeOK
        <3> QED
            BY <3>1 DEF Promise!Next, Promise!Accept
    <2>3. ASSUME NEW e \in Incidents, Confirm(e) PROVE stage' = stage
        BY <2>3
           DEF Confirm, AtLeastOnce!Confirm, vars, stage, PlatformInv,
               DeliveryTypeOK
    <2>4. CASE status' = status /\ processed' = processed
        BY <2>4 DEF stage
    <2>5. ASSUME NEW w \in Workers, Process(w), status' = status
          PROVE  Promise!Next \/ stage' = stage
        <3>1. held[w] \in 1..Len(log) /\ ~ Handled(held[w])
            BY <2>5 DEF Process, PlatformInv, SkipInv, TypeInv, TypeOK, BusyHolds
        <3> DEFINE e == log[held[w]]
        <3>2. /\ e \in Incidents /\ e \notin processed
              /\ status[e] # "absent" /\ processed' = processed \cup {e}
            BY <2>5, <3>1
               DEF Process, Handled, Incidents, PlatformInv, AcceptedFirst,
                   SkipInv, TypeInv, TypeOK
        <3> HIDE DEF e
        <3>3. stage[e] = "accepted" /\ stage' = [stage EXCEPT ![e] = "processed"]
            BY <2>1, <2>5, <3>2 DEF stage
        <3> QED
            BY <3>2, <3>3 DEF Promise!Next, Promise!Process
    <2> QED
        BY <2>2, <2>3, <2>4, <2>5
           DEF PlatformNext, Transfer, AtLeastOnce!Append, Disturb, Publish,
               WorkerStep, Work, Assign, Poll, Skip, Defer, Commit, LoseCommit,
               Seek, Crash, allVars, vars, outboxVars
<1> QED
    BY <1>1, <1>2, InitPlatformInv, StepPlatformInv, PTL
       DEF PlatformSpec, ImplementsEndToEnd, Promise!Spec
=============================================================================
