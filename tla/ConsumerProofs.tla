--------------------------- MODULE ConsumerProofs ---------------------------
(***************************************************************************)
(* Proofs about Consumer, for any workers, events, and number of messages, *)
(* hand-overs and crashes: the type invariant, and that the committed      *)
(* offset neither passes a message that was not handled nor goes back.     *)
(***************************************************************************)
EXTENDS Consumer, SequenceTheorems, TLAPS

-----------------------------------------------------------------------------
(* The inductive invariant, part by part *)

(* A worker holds a message exactly while it is busy. *)
BusyHolds == \A w \in Workers : pc[w] = "poll" <=> held[w] = 0

(* Whoever holds a message, owner or not, has only handled ones before it, *)
(* and asks for a commit only when this one is handled too.                *)
HeldInOrder ==
    \A w \in Workers :
        /\ \A o \in 1..(held[w] - 1) : Handled(o)
        /\ pc[w] = "commit" => Handled(held[w])

(* The owner has fetched only messages that are handled, and the one it    *)
(* holds.                                                                  *)
FetchedInOrder ==
    \A w \in Workers : owner = w =>
        \A o \in 1..(position[w] - 1) : o = held[w] \/ Handled(o)

TypeInv == TypeOK /\ BusyHolds

SkipInv ==
    /\ TypeInv
    /\ HeldInOrder
    /\ FetchedInOrder
    /\ NoMessageSkipped

(* Without a hand-over the owner alone is busy, and never behind the       *)
(* committed offset.                                                       *)
OwnerAlone ==
    rebalances = 0 =>
        \A w \in Workers :
            /\ pc[w] # "poll" => owner = w /\ held[w] >= committed
            /\ owner = w => position[w] >= committed /\ position[w] >= held[w]

StayInv == TypeInv /\ OwnerAlone

-----------------------------------------------------------------------------
(* Type correctness *)

(* The initial state is well typed. *)
LEMMA InitTypeInv == Init => TypeInv
<1> SUFFICES ASSUME Init PROVE TypeInv
    OBVIOUS
<1>1. log \in Seq(Events) /\ Len(log) = 0
    BY DEF Init
<1> QED
    BY <1>1, ConsumerAssumption DEF Init, TypeInv, TypeOK, BusyHolds

(* Every step of run(), of the handler and of the broker keeps every       *)
(* variable in its domain: the processed events are those of messages that *)
(* a worker held.                                                          *)
LEMMA StepTypeInv == TypeInv /\ [Next]_vars => TypeInv'
<1> SUFFICES ASSUME TypeInv, [Next]_vars PROVE TypeInv'
    OBVIOUS
<1> USE ConsumerAssumption DEF TypeInv, BusyHolds
<1>0. Len(log) \in Nat
    BY DEF TypeOK
<1>1. ASSUME NEW e \in Events, Publish(e) PROVE TypeInv'
    <2>1. log' \in Seq(Events) /\ Len(log') = Len(log) + 1
        BY <1>1 DEF Publish, TypeOK
    <2> QED
        BY <1>0, <1>1, <2>1 DEF Publish, TypeOK, workVars, boundVars
<1>2. ASSUME NEW w \in Workers, Assign(w) PROVE TypeInv'
    BY <1>0, <1>2 DEF Assign, TypeOK
<1>3. ASSUME NEW w \in Workers, Poll(w) PROVE TypeInv'
    BY <1>0, <1>3 DEF Poll, TypeOK, boundVars
<1>4. ASSUME NEW w \in Workers, Skip(w) PROVE TypeInv'
    BY <1>4 DEF Skip, TypeOK, boundVars
<1>5. ASSUME NEW w \in Workers, Process(w) PROVE TypeInv'
    <2>1. log[held[w]] \in Events
        BY <1>0, <1>5 DEF Process, TypeOK
    <2>2. processed' \subseteq Events
        BY <1>5, <2>1 DEF Process, TypeOK
    <2> QED
        BY <1>5, <2>2 DEF Process, TypeOK, boundVars
<1>6. ASSUME NEW w \in Workers, Defer(w) PROVE TypeInv'
    BY <1>6 DEF Defer, TypeOK, boundVars
<1>7. ASSUME NEW w \in Workers, Commit(w) PROVE TypeInv'
    BY <1>0, <1>7 DEF Commit, TypeOK, boundVars
<1>8. ASSUME NEW w \in Workers, LoseCommit(w) PROVE TypeInv'
    BY <1>0, <1>8 DEF LoseCommit, TypeOK, boundVars
<1>9. ASSUME NEW w \in Workers, Seek(w) PROVE TypeInv'
    BY <1>0, <1>9 DEF Seek, TypeOK, boundVars
<1>10. ASSUME NEW w \in Workers, Crash(w) PROVE TypeInv'
    BY <1>0, <1>10 DEF Crash, TypeOK
<1>11. CASE UNCHANGED vars
    BY <1>11 DEF vars, TypeOK, workVars, boundVars
<1> QED
    BY <1>1, <1>2, <1>3, <1>4, <1>5, <1>6, <1>7, <1>8, <1>9, <1>10, <1>11
       DEF Next, Work

(* Every reachable state is well typed, for any number of workers,         *)
(* messages, hand-overs and crashes (runner.py:162-283).                   *)
THEOREM TypeCorrect == Spec => []TypeOK
<1>1. TypeInv => TypeOK
    BY DEF TypeInv
<1> QED
    BY <1>1, InitTypeInv, StepTypeInv, PTL DEF Spec

-----------------------------------------------------------------------------
(* No message is skipped *)

(* A message that is handled stays handled. *)
LEMMA HandledStays ==
    ASSUME TypeInv, [Next]_vars, NEW o \in 1..Len(log), Handled(o)
    PROVE  o \in 1..Len(log') /\ Handled(o)'
<1>1. ASSUME NEW e \in Events, Publish(e) PROVE o \in 1..Len(log') /\ Handled(o)'
    <2>1. Len(log') = Len(log) + 1 /\ log'[o] = log[o]
        BY <1>1 DEF Publish, TypeInv, TypeOK
    <2> QED
        BY <1>1, <2>1 DEF Publish, Handled, TypeInv, TypeOK
<1>2. ASSUME NEW w \in Workers, Process(w) PROVE o \in 1..Len(log') /\ Handled(o)'
    BY <1>2 DEF Process, Handled
<1>3. ASSUME log' = log, processed' = processed PROVE o \in 1..Len(log') /\ Handled(o)'
    BY <1>3 DEF Handled
<1> QED
    BY <1>1, <1>2, <1>3
       DEF Next, Work, Assign, Poll, Skip, Defer, Commit, LoseCommit, Seek,
           Crash, vars

(* Nothing is held, fetched or committed at first. *)
LEMMA InitSkipInv == Init => SkipInv
<1> SUFFICES ASSUME Init PROVE SkipInv
    OBVIOUS
<1>1. TypeInv
    BY InitTypeInv
<1>2. HeldInOrder /\ FetchedInOrder /\ NoMessageSkipped
    BY ConsumerAssumption DEF Init, HeldInOrder, FetchedInOrder, NoMessageSkipped
<1> QED
    BY <1>1, <1>2 DEF SkipInv

(* Each step of the loop leaves only handled messages before the message a *)
(* worker holds, the position of the owner, and the committed offset.      *)
LEMMA StepSkipInv == SkipInv /\ [Next]_vars => SkipInv'
<1> SUFFICES ASSUME SkipInv, [Next]_vars PROVE SkipInv'
    OBVIOUS
<1>1. TypeInv /\ TypeInv'
    BY StepTypeInv DEF SkipInv
<1>2. \A o \in 1..Len(log) : Handled(o) => Handled(o)'
    BY <1>1, HandledStays
<1>3. HeldInOrder'
    <2> SUFFICES ASSUME NEW v \in Workers
                 PROVE  /\ \A o \in 1..(held'[v] - 1) : Handled(o)'
                        /\ pc'[v] = "commit" => Handled(held[v])'
        BY DEF HeldInOrder, Handled
    <2>1. CASE held'[v] = 0
        <3>1. pc'[v] = "poll"
            BY <1>1, <2>1 DEF TypeInv, BusyHolds
        <3> QED
            BY <2>1, <3>1
    <2>2. CASE held'[v] = held[v] /\ pc'[v] = "commit" /\ pc[v] # "commit"
        <3>1. Skip(v) \/ Process(v)
            BY <1>1, <2>2
               DEF Next, Work, Publish, Assign, Poll, Skip, Process, Defer,
                   Commit, LoseCommit, Seek, Crash, vars, workVars, TypeInv,
                   TypeOK
        <3>2. Handled(held[v])'
            BY <1>1, <3>1 DEF Skip, Process, Handled, TypeInv, TypeOK
        <3> QED
            BY <1>1, <1>2, <2>2, <3>2, SMTT(30)
               DEF SkipInv, HeldInOrder, TypeInv, TypeOK
    <2>3. CASE held'[v] = held[v] /\ ~ (pc'[v] = "commit" /\ pc[v] # "commit")
        <3>1. held[v] = 0 \/ held[v] \in 1..Len(log)
            BY <1>1 DEF TypeInv, TypeOK
        <3>2. pc'[v] = "commit" => Handled(held[v])'
            <4>1. pc'[v] = "commit" => held[v] # 0
                BY <1>1, <2>3 DEF TypeInv, BusyHolds
            <4> QED
                BY <1>2, <2>3, <3>1, <4>1 DEF SkipInv, HeldInOrder, Handled
        <3>3. \A o \in 1..(held'[v] - 1) : Handled(o)'
            BY <1>1, <1>2, <2>3, <3>1, SMTT(30) DEF SkipInv, HeldInOrder, TypeInv, TypeOK
        <3> QED
            BY <3>2, <3>3
    <2>4. CASE held'[v] # 0 /\ held'[v] # held[v]
        <3>1. Poll(v)
            BY <1>1, <2>4
               DEF Next, Work, Publish, Assign, Poll, Skip, Process, Defer,
                   Commit, LoseCommit, Seek, Crash, vars, workVars, TypeInv,
                   TypeOK
        <3>2. \A o \in 1..(position[v] - 1) : Handled(o)
            BY <1>1, <3>1 DEF Poll, SkipInv, FetchedInOrder, TypeInv, TypeOK, BusyHolds
        <3> QED
            BY <1>1, <1>2, <3>1, <3>2 DEF Poll, TypeInv, TypeOK
    <2> QED
        BY <2>1, <2>2, <2>3, <2>4
<1>4. NoMessageSkipped'
    <2>1. CASE committed' = committed
        <3>1. \A o \in 1..committed : Handled(o)'
            BY <1>1, <1>2 DEF SkipInv, NoMessageSkipped, TypeInv, TypeOK
        <3> QED
            BY <2>1, <3>1 DEF NoMessageSkipped, Handled
    <2>2. ASSUME NEW w \in Workers, Commit(w) \/ LoseCommit(w),
                 committed' = held[w]
          PROVE  NoMessageSkipped'
        <3>1. \A o \in 1..held[w] : Handled(o)
            BY <1>1, <2>2
               DEF Commit, LoseCommit, SkipInv, HeldInOrder, TypeInv, TypeOK
        <3> QED
            BY <1>1, <1>2, <2>2, <3>1 DEF NoMessageSkipped, Handled, TypeInv, TypeOK
    <2> QED
        BY <2>1, <2>2
           DEF Next, Work, Publish, Assign, Poll, Skip, Process, Defer, Commit,
               LoseCommit, Seek, Crash, vars
<1>5. FetchedInOrder'
    <2> SUFFICES ASSUME NEW v \in Workers, owner' = v,
                        NEW o \in 1..(position'[v] - 1), o # held'[v]
                 PROVE  Handled(o)'
        BY DEF FetchedInOrder
    <2>1. ASSUME Assign(v) PROVE Handled(o)'
        BY <1>1, <1>2, <2>1
           DEF Assign, SkipInv, NoMessageSkipped, TypeInv, TypeOK
    <2>2. ASSUME Poll(v) PROVE Handled(o)'
        <3>1. o \in 1..(position[v] - 1) /\ held[v] = 0 /\ owner = v
            BY <1>1, <2>2 DEF Poll, TypeInv, TypeOK, BusyHolds
        <3>2. o \in 1..Len(log) /\ Handled(o)
            BY <1>1, <3>1, SMTT(30) DEF SkipInv, FetchedInOrder, TypeInv, TypeOK
        <3> QED
            BY <1>2, <3>2
    <2>3. ASSUME Commit(v) PROVE Handled(o)'
        <3>1. Handled(held[v]) /\ held[v] \in 1..Len(log)
            BY <1>1, <2>3 DEF Commit, SkipInv, HeldInOrder, TypeInv, TypeOK, BusyHolds
        <3> QED
            BY <1>1, <1>2, <2>3, <3>1
               DEF Commit, SkipInv, FetchedInOrder, TypeInv, TypeOK
    <2>4. ASSUME Seek(v) PROVE Handled(o)'
        BY <1>1, <1>2, <2>4
           DEF Seek, SkipInv, HeldInOrder, TypeInv, TypeOK
    <2>5. ASSUME owner = v, position'[v] = position[v], held'[v] = held[v]
          PROVE  Handled(o)'
        BY <1>1, <1>2, <2>5 DEF SkipInv, FetchedInOrder, TypeInv, TypeOK
    <2> QED
        BY <1>1, <2>1, <2>2, <2>3, <2>4, <2>5, ConsumerAssumption
           DEF Next, Work, Publish, Assign, Poll, Skip, Process, Defer, Commit,
               LoseCommit, Seek, Crash, vars, workVars, TypeInv, TypeOK
<1> QED
    BY <1>1, <1>3, <1>4, <1>5 DEF SkipInv

(* The committed offset never passes a message that was not handled,       *)
(* whatever is retried, handed over or lost (runner.py:221-260).           *)
THEOREM NoMessageSkippedHolds == Spec => []NoMessageSkipped
<1>1. SkipInv => NoMessageSkipped
    BY DEF SkipInv
<1> QED
    BY <1>1, InitSkipInv, StepSkipInv, PTL DEF Spec

-----------------------------------------------------------------------------
(* The offset does not go back *)

(* Nobody is busy at first. *)
LEMMA InitStayInv == Init => StayInv
<1> SUFFICES ASSUME Init PROVE StayInv
    OBVIOUS
<1>1. TypeInv
    BY InitTypeInv
<1>2. OwnerAlone
    BY ConsumerAssumption DEF Init, OwnerAlone
<1> QED
    BY <1>1, <1>2 DEF StayInv

(* Until the first hand-over, what the owner fetches and commits is never  *)
(* behind the committed offset.                                            *)
LEMMA StepStayInv == StayInv /\ [Next]_vars => StayInv'
<1> SUFFICES ASSUME StayInv, [Next]_vars PROVE StayInv'
    OBVIOUS
<1>1. TypeInv /\ TypeInv'
    BY StepTypeInv DEF StayInv
<1> SUFFICES ASSUME rebalances' = 0, NEW v \in Workers
             PROVE  /\ pc'[v] # "poll" => owner' = v /\ held'[v] >= committed'
                    /\ owner' = v => /\ position'[v] >= committed'
                                     /\ position'[v] >= held'[v]
    BY <1>1 DEF StayInv, OwnerAlone
<1>2. rebalances = 0
    BY <1>1 DEF Next, Work, Publish, Assign, Poll, Skip, Process, Defer, Commit,
                LoseCommit, Seek, Crash, vars, boundVars, TypeInv, TypeOK
<1>3. \A w \in Workers :
         /\ pc[w] # "poll" => owner = w /\ held[w] >= committed
         /\ owner = w => position[w] >= committed /\ position[w] >= held[w]
    BY <1>2 DEF StayInv, OwnerAlone
<1>4. ASSUME NEW w \in Workers, Assign(w) PROVE
         /\ pc'[v] # "poll" => owner' = v /\ held'[v] >= committed'
         /\ owner' = v => position'[v] >= committed' /\ position'[v] >= held'[v]
    <2>1. owner = NoWorker
        BY <1>1, <1>2, <1>4 DEF Assign, TypeInv, TypeOK
    <2>2. pc[v] = "poll" /\ held[v] = 0
        BY <1>1, <1>3, <2>1, ConsumerAssumption DEF TypeInv, BusyHolds
    <2> QED
        BY <1>1, <1>4, <2>2 DEF Assign, TypeInv, TypeOK
<1>5. ASSUME NEW w \in Workers, Work(w) PROVE
         /\ pc'[v] # "poll" => owner' = v /\ held'[v] >= committed'
         /\ owner' = v => position'[v] >= committed' /\ position'[v] >= held'[v]
    <2>1. owner = w
        BY <1>3, <1>5
           DEF Work, Poll, Skip, Process, Defer, Commit, LoseCommit, Seek
    <2>2. CASE Poll(w)
        BY <1>1, <1>3, <2>1, <2>2 DEF Poll, TypeInv, TypeOK
    <2>3. CASE Skip(w) \/ Process(w) \/ Defer(w)
        BY <1>1, <1>3, <2>1, <2>3 DEF Skip, Process, Defer, TypeInv, TypeOK
    <2>4. CASE Commit(w)
        BY <1>1, <1>3, <2>1, <2>4 DEF Commit, TypeInv, TypeOK
    <2>5. CASE LoseCommit(w)
        BY <1>1, <1>3, <2>1, <2>5 DEF LoseCommit, TypeInv, TypeOK
    <2>6. CASE Seek(w)
        BY <1>1, <1>3, <2>1, <2>6 DEF Seek, TypeInv, TypeOK
    <2> QED
        BY <1>5, <2>2, <2>3, <2>4, <2>5, <2>6 DEF Work
<1>6. ASSUME NEW w \in Workers, Crash(w) PROVE
         /\ pc'[v] # "poll" => owner' = v /\ held'[v] >= committed'
         /\ owner' = v => position'[v] >= committed' /\ position'[v] >= held'[v]
    BY <1>1, <1>3, <1>6, ConsumerAssumption DEF Crash, TypeInv, TypeOK
<1>7. CASE UNCHANGED vars \/ \E e \in Events : Publish(e)
    BY <1>3, <1>7 DEF vars, workVars, Publish
<1> QED
    BY <1>4, <1>5, <1>6, <1>7 DEF Next

(* As long as no busy worker loses the partition, the committed offset     *)
(* never goes back, whichever commit fails or loses its answer             *)
(* (runner.py:226-260).                                                    *)
THEOREM OffsetStaysHolds == Spec => OffsetStays
<1>1. StayInv /\ [Next]_vars => [rebalances = 0 => committed' >= committed]_vars
    <2> SUFFICES ASSUME StayInv, Next, rebalances = 0
                 PROVE  committed' >= committed
        OBVIOUS
    <2>1. CASE committed' = committed
        BY <2>1 DEF StayInv, TypeInv, TypeOK
    <2>2. ASSUME NEW w \in Workers, Commit(w) \/ LoseCommit(w),
                 committed' = held[w]
          PROVE  committed' >= committed
        BY <2>2 DEF StayInv, OwnerAlone, Commit, LoseCommit
    <2> QED
        BY <2>1, <2>2
           DEF Next, Work, Publish, Assign, Poll, Skip, Process, Defer, Commit,
               LoseCommit, Seek, Crash
<1> QED
    BY <1>1, InitStayInv, StepStayInv, PTL DEF Spec, OffsetStays
=============================================================================
