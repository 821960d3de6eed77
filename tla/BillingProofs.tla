--------------------------- MODULE BillingProofs ---------------------------
(***************************************************************************)
(* The theorems about paying, for any number of calls, processes,          *)
(* accounts, subscriptions, events and handlers, and any limits.           *)
(* PaidCalls: no slot is lost, and how far a day's spend can pass the hard *)
(* limit.  Memberships: rows never go back, and are current when nothing   *)
(* is left to deliver.                                                     *)
(***************************************************************************)
EXTENDS PaidCalls, Memberships, FiniteSetTheorems, SequenceTheorems, TLAPS

----------------------------------------------------------------------------
(* PaidCalls.                                                              *)

(* Every step changes the phases of the calls; these two facts say what a  *)
(* step of one call does to the number of calls in a phase.                *)

\* One call more in a phase.
LEMMA CountEnter ==
  ASSUME NEW T, IsFiniteSet(T), NEW x, x \notin T
  PROVE  IsFiniteSet(T \cup {x}) /\ Cardinality(T \cup {x}) = Cardinality(T) + 1
  BY FS_AddElement

\* One call less in a phase.
LEMMA CountLeave ==
  ASSUME NEW T, IsFiniteSet(T), NEW x \in T
  PROVE  /\ IsFiniteSet(T \ {x})
         /\ Cardinality(T \ {x}) = Cardinality(T) - 1
         /\ Cardinality(T) \in Nat \ {0}
<1>1. IsFiniteSet(T \ {x}) /\ Cardinality(T \ {x}) = Cardinality(T) - 1
  BY FS_RemoveElement
<1>2. Cardinality(T) \in Nat /\ Cardinality(T \ {x}) \in Nat
  BY <1>1, FS_CardinalityType
<1>. QED  BY <1>1, <1>2

\* Multiplication by a natural number keeps the order.
LEMMA TimesMonotone ==
  ASSUME NEW m \in Nat, NEW a \in Nat, NEW b \in Nat, a =< b
  PROVE  m * a =< m * b
<1>1. PICK d \in Nat : b = a + d
  <2>1. b - a \in Nat /\ b = a + (b - a)
    OBVIOUS
  <2>. QED  BY <2>1
<1>2. m * (a + d) = m * a + m * d
  OBVIOUS
<1>3. m * d \in Nat /\ m * a \in Nat
  OBVIOUS
<1>. QED  BY <1>1, <1>2, <1>3

(***************************************************************************)
(* Types.                                                                  *)
(***************************************************************************)

USE DEF Sites

\* The initial state has the types of TypeOK.
LEMMA InitTypes == Init => TypeOK
  BY LimitsAssumption, ProcessesAssumption DEF Init, TypeOK, NoCall, CallType

\* A queue that a caller has left is a queue of calls.
LEMMA WithoutType ==
  ASSUME NEW q \in Seq(Calls), NEW c
  PROVE  Without(q, c) \in Seq(Calls)
<1>1. CASE \E i \in DOMAIN q : q[i] = c
  <2>. DEFINE i == CHOOSE j \in DOMAIN q : q[j] = c
  <2>1. i \in DOMAIN q
    BY <1>1
  <2>2. Len(q) \in Nat /\ DOMAIN q = 1 .. Len(q)
    OBVIOUS
  <2>. HIDE DEF i
  <2>3. SubSeq(q, 1, i - 1) \in Seq(Calls) /\ SubSeq(q, i + 1, Len(q)) \in Seq(Calls)
    BY <2>1, <2>2, SubSeqProperties
  <2>4. SubSeq(q, 1, i - 1) \o SubSeq(q, i + 1, Len(q)) \in Seq(Calls)
    BY <2>3, ConcatProperties
  <2>. QED  BY <1>1, <2>4 DEF Without, i
<1>2. CASE ~ \E i \in DOMAIN q : q[i] = c
  BY <1>2 DEF Without
<1>. QED  BY <1>1, <1>2

\* Every step keeps the types.
LEMMA NextTypes == TypeOK /\ [Next]_vars => TypeOK'
<1>. SUFFICES ASSUME TypeOK, [Next]_vars PROVE TypeOK'
  OBVIOUS
<1>. USE DEF TypeOK, CallType, NoCall
<1>1. CASE \E c \in Calls, p \in Processes, site \in Sites : Begin(c, p, site)
  BY <1>1, LimitsAssumption, ProcessesAssumption DEF Begin
<1>2. CASE \E c \in Calls : Enter(c)
  <2>1. PICK c \in Calls : Enter(c)
    BY <1>2
  <2>2. call[c].process \in Processes
    BY <2>1 DEF Enter
  <2>3. free' \in [Processes -> Nat]
    BY <2>1, <2>2 DEF Enter
  <2>4. queue' \in [Processes -> Seq(Calls)]
    <3>1. queue[call[c].process] # <<>>
      BY <2>1, <2>2 DEF Enter
    <3>. QED  BY <2>1, <2>2, <3>1 DEF Enter
  <2>5. call' \in [Calls -> CallType]
        /\ \A d \in Calls : call'[d].phase # "idle" <=> call'[d].process \in Processes
    BY <2>1 DEF Enter
  <2>6. spent' = spent /\ userSpent' = userSpent /\ ingests' = ingests
    BY <2>1 DEF Enter
  <2>. QED  BY <2>3, <2>4, <2>5, <2>6
<1>3. CASE \E c \in Calls : Finish(c)
  <2>1. PICK c \in Calls : Finish(c)
    BY <1>3
  <2>2. CASE Answer(c)
    <3>1. call[c].process \in Processes
      BY <2>2 DEF Answer
    <3>2. free' \in [Processes -> Nat]
      BY <2>2, <3>1 DEF Answer
    <3>3. call' \in [Calls -> CallType]
          /\ \A d \in Calls : call'[d].phase # "idle" <=> call'[d].process \in Processes
      BY <2>2 DEF Answer
    <3>. QED  BY <2>2, <3>2, <3>3 DEF Answer
  <2>3. CASE ProviderFails(c)
    <3>1. call[c].process \in Processes
      BY <2>3 DEF ProviderFails
    <3>2. free' \in [Processes -> Nat]
      BY <2>3, <3>1 DEF ProviderFails
    <3>3. call' \in [Calls -> CallType]
          /\ \A d \in Calls : call'[d].phase # "idle" <=> call'[d].process \in Processes
      BY <2>3, ProcessesAssumption DEF ProviderFails
    <3>. QED  BY <2>3, <3>2, <3>3 DEF ProviderFails
  <2>. QED  BY <2>1, <2>2, <2>3 DEF Finish
<1>4. CASE \E c \in Calls : Meter(c)
  <2>1. PICK c \in Calls : Meter(c)
    BY <1>4
  <2>2. call' \in [Calls -> CallType]
        /\ \A d \in Calls : call'[d].phase # "idle" <=> call'[d].process \in Processes
    <3>1. call' = [call EXCEPT ![c] = NoCall]
      BY <2>1 DEF Meter, Record, RecordFails
    <3>. QED  BY <3>1, ProcessesAssumption
  <2>3. spent' \in Nat /\ userSpent' \in Nat
    <3>1. CASE Record(c)
      <4>1. PICK cost \in 0 .. MaxCost :
              /\ spent' = spent + cost
              /\ userSpent' = IF call[c].site = "ingest" THEN userSpent
                              ELSE userSpent + cost
        BY <3>1 DEF Record
      <4>2. cost \in Nat
        BY LimitsAssumption
      <4>. QED  BY <4>1, <4>2
    <3>2. CASE RecordFails(c)
      BY <3>2 DEF RecordFails
    <3>. QED  BY <2>1, <3>1, <3>2 DEF Meter
  <2>4. free' = free /\ queue' = queue /\ ingests' = ingests
    BY <2>1 DEF Meter, Record, RecordFails
  <2>. QED  BY <2>2, <2>3, <2>4
<1>5. CASE \E c \in Calls : Cancel(c)
  <2>1. PICK c \in Calls : Cancel(c)
    BY <1>5
  <2>2. queue' \in [Processes -> Seq(Calls)]
    BY <2>1, WithoutType DEF Cancel
  <2>. QED  BY <2>1, <2>2, ProcessesAssumption DEF Cancel
<1>6. CASE \E p \in Processes : Restart(p)
  BY <1>6, LimitsAssumption, ProcessesAssumption DEF Restart
<1>7. CASE Midnight
  BY <1>7 DEF Midnight
<1>8. CASE UNCHANGED vars
  BY <1>8 DEF vars
<1>. QED  BY <1>1, <1>2, <1>3, <1>4, <1>5, <1>6, <1>7, <1>8 DEF Next

\* Calls, semaphores and sums keep their types, and a call has a process
\* exactly while it is in progress, for any calls, processes and limits.
THEOREM TypeCorrect == Spec => []TypeOK
  BY InitTypes, NextTypes, PTL DEF Spec

(***************************************************************************)
(* Slots.                                                                  *)
(***************************************************************************)

\* The calls of a process in a phase can be counted.
LEMMA PhaseFinite ==
  ASSUME NEW p, NEW ph
  PROVE  IsFiniteSet(InPhase(p, ph))
  BY CallsAssumption, FS_Subset DEF InPhase

\* At first every slot is free.
LEMMA InitSlots == Init => SlotsAddUp
<1>. SUFFICES ASSUME Init, NEW p \in Processes
              PROVE  free[p] + Cardinality(InPhase(p, "calling")) = Cap
  BY DEF SlotsAddUp
<1>1. InPhase(p, "calling") = {}
  BY DEF Init, InPhase, NoCall
<1>2. Cardinality(InPhase(p, "calling")) = 0
  BY <1>1, FS_EmptySet
<1>3. free[p] = Cap
  BY DEF Init
<1>. QED  BY <1>2, <1>3, LimitsAssumption

\* A call that enters or leaves the provider moves one slot of its process.
LEMMA SlotTaken ==
  ASSUME TypeOK, SlotsAddUp, NEW c \in Calls, Enter(c)
  PROVE  SlotsAddUp'
<1>. DEFINE p == call[c].process
<1>1. p \in Processes
  BY DEF Enter, TypeOK
<1>. SUFFICES ASSUME NEW q \in Processes
              PROVE  free'[q] + Cardinality(InPhase(q, "calling"))' = Cap
  BY DEF SlotsAddUp
<1>2. free[q] \in Nat /\ free[q] + Cardinality(InPhase(q, "calling")) = Cap
  BY DEF TypeOK, SlotsAddUp
<1>3. CASE q = p
  <2>1. InPhase(q, "calling")' = InPhase(q, "calling") \cup {c}
    BY <1>1, <1>3 DEF Enter, InPhase, TypeOK, CallType
  <2>2. c \notin InPhase(q, "calling")
    BY DEF Enter, InPhase
  <2>3. Cardinality(InPhase(q, "calling"))' = Cardinality(InPhase(q, "calling")) + 1
    BY <2>1, <2>2, PhaseFinite, CountEnter
  <2>4. free'[q] = free[q] - 1
    BY <1>1, <1>3 DEF Enter, TypeOK
  <2>5. Cardinality(InPhase(q, "calling")) \in Nat
    BY PhaseFinite, FS_CardinalityType
  <2>. QED  BY <1>2, <2>3, <2>4, <2>5, LimitsAssumption
<1>4. CASE q # p
  <2>1. InPhase(q, "calling")' = InPhase(q, "calling")
    BY <1>1, <1>4 DEF Enter, InPhase, TypeOK, CallType
  <2>2. free'[q] = free[q]
    BY <1>1, <1>4 DEF Enter, TypeOK
  <2>. QED  BY <1>2, <2>1, <2>2
<1>. QED  BY <1>3, <1>4

\* What leaving the provider does, whichever way the call goes on.
LEMMA SlotReturned ==
  ASSUME TypeOK, SlotsAddUp, NEW c \in Calls, call[c].phase = "calling",
         NEW r \in CallType, r.phase # "calling",
         call' = [call EXCEPT ![c] = r],
         free' = [free EXCEPT ![call[c].process] = @ + 1]
  PROVE  SlotsAddUp'
<1>. DEFINE p == call[c].process
<1>1. p \in Processes
  BY DEF TypeOK
<1>. SUFFICES ASSUME NEW q \in Processes
              PROVE  free'[q] + Cardinality(InPhase(q, "calling"))' = Cap
  BY DEF SlotsAddUp
<1>2. free[q] \in Nat /\ free[q] + Cardinality(InPhase(q, "calling")) = Cap
  BY DEF TypeOK, SlotsAddUp
<1>3. CASE q = p
  <2>1. InPhase(q, "calling")' = InPhase(q, "calling") \ {c}
    BY <1>3 DEF InPhase, TypeOK
  <2>2. c \in InPhase(q, "calling")
    BY <1>3 DEF InPhase
  <2>3. /\ Cardinality(InPhase(q, "calling"))' = Cardinality(InPhase(q, "calling")) - 1
        /\ Cardinality(InPhase(q, "calling")) \in Nat \ {0}
    BY <2>1, <2>2, PhaseFinite, CountLeave
  <2>4. free'[q] = free[q] + 1
    BY <1>1, <1>3 DEF TypeOK
  <2>. QED  BY <1>2, <2>3, <2>4, LimitsAssumption
<1>4. CASE q # p
  <2>1. InPhase(q, "calling")' = InPhase(q, "calling")
    BY <1>4 DEF InPhase, TypeOK
  <2>2. free'[q] = free[q]
    BY <1>1, <1>4 DEF TypeOK
  <2>. QED  BY <1>2, <2>1, <2>2
<1>. QED  BY <1>3, <1>4

\* Steps that move no call into or out of the provider.
LEMMA SlotsKept ==
  ASSUME SlotsAddUp, free' = free,
         \A q \in Processes : InPhase(q, "calling")' = InPhase(q, "calling")
  PROVE  SlotsAddUp'
  BY DEF SlotsAddUp

\* Every step keeps the sum of free and taken slots.
LEMMA NextSlots == TypeOK /\ SlotsAddUp /\ [Next]_vars => SlotsAddUp'
<1>. SUFFICES ASSUME TypeOK, SlotsAddUp, [Next]_vars PROVE SlotsAddUp'
  OBVIOUS
<1>1. ASSUME NEW c \in Calls, NEW p \in Processes, NEW site \in Sites, Begin(c, p, site)
      PROVE  SlotsAddUp'
  <2>1. \A q \in Processes : InPhase(q, "calling")' = InPhase(q, "calling")
    BY <1>1 DEF Begin, InPhase, TypeOK
  <2>. QED  BY <1>1, <2>1, SlotsKept DEF Begin
<1>2. ASSUME NEW c \in Calls, Enter(c) PROVE SlotsAddUp'
  BY <1>2, SlotTaken
<1>3. ASSUME NEW c \in Calls, Finish(c) PROVE SlotsAddUp'
  <2>1. CASE Answer(c)
    <3>. DEFINE r == [call[c] EXCEPT !.phase = "metering"]
    <3>1. r \in CallType /\ r.phase # "calling"
      BY DEF TypeOK, CallType
    <3>2. call[c].phase = "calling" /\ call' = [call EXCEPT ![c] = r]
      BY <2>1 DEF Answer, TypeOK
    <3>3. free' = [free EXCEPT ![call[c].process] = @ + 1]
      BY <2>1 DEF Answer
    <3>. HIDE DEF r
    <3>. QED  BY <3>1, <3>2, <3>3, SlotReturned
  <2>2. CASE ProviderFails(c)
    <3>1. NoCall \in CallType /\ NoCall.phase # "calling"
      BY DEF NoCall, CallType
    <3>2. /\ call[c].phase = "calling" /\ call' = [call EXCEPT ![c] = NoCall]
          /\ free' = [free EXCEPT ![call[c].process] = @ + 1]
      BY <2>2 DEF ProviderFails
    <3>. QED  BY <3>1, <3>2, SlotReturned
  <2>. QED  BY <1>3, <2>1, <2>2 DEF Finish
<1>4. ASSUME NEW c \in Calls, Meter(c) PROVE SlotsAddUp'
  <2>1. call[c].phase = "metering" /\ call' = [call EXCEPT ![c] = NoCall]
    BY <1>4 DEF Meter, Record, RecordFails
  <2>2. \A q \in Processes : InPhase(q, "calling")' = InPhase(q, "calling")
    BY <2>1 DEF InPhase, TypeOK, NoCall
  <2>. QED  BY <1>4, <2>2, SlotsKept DEF Meter, Record, RecordFails
<1>5. ASSUME NEW c \in Calls, Cancel(c) PROVE SlotsAddUp'
  <2>1. CASE call[c].phase = "calling"
    <3>1. NoCall \in CallType /\ NoCall.phase # "calling"
      BY DEF NoCall, CallType
    <3>2. call' = [call EXCEPT ![c] = NoCall]
      BY <1>5 DEF Cancel
    <3>3. free' = [free EXCEPT ![call[c].process] = @ + 1]
      BY <1>5, <2>1 DEF Cancel, TypeOK
    <3>. QED  BY <2>1, <3>1, <3>2, <3>3, SlotReturned
  <2>2. CASE call[c].phase # "calling"
    <3>1. \A q \in Processes : InPhase(q, "calling")' = InPhase(q, "calling")
      BY <1>5, <2>2 DEF Cancel, InPhase, TypeOK, NoCall
    <3>2. free' = free
      BY <1>5, <2>2 DEF Cancel, TypeOK
    <3>. QED  BY <3>1, <3>2, SlotsKept
  <2>. QED  BY <2>1, <2>2
<1>6. ASSUME NEW p \in Processes, Restart(p) PROVE SlotsAddUp'
  <2>. SUFFICES ASSUME NEW q \in Processes
                PROVE  free'[q] + Cardinality(InPhase(q, "calling"))' = Cap
    BY DEF SlotsAddUp
  <2>1. CASE q = p
    <3>1. InPhase(q, "calling")' = {}
      BY <1>6, <2>1, ProcessesAssumption DEF Restart, InPhase, NoCall
    <3>2. free'[q] = Cap
      BY <1>6, <2>1 DEF Restart, TypeOK
    <3>. QED  BY <3>1, <3>2, FS_EmptySet, LimitsAssumption
  <2>2. CASE q # p
    <3>1. InPhase(q, "calling")' = InPhase(q, "calling")
      BY <1>6, <2>2, ProcessesAssumption DEF Restart, InPhase, NoCall
    <3>2. free'[q] = free[q]
      BY <1>6, <2>2 DEF Restart, TypeOK
    <3>. QED  BY <3>1, <3>2 DEF SlotsAddUp
  <2>. QED  BY <2>1, <2>2
<1>7. CASE Midnight \/ UNCHANGED vars
  <2>1. call' = call /\ free' = free
    BY <1>7 DEF Midnight, vars
  <2>. QED  BY <2>1, SlotsKept DEF InPhase
<1>. QED  BY <1>1, <1>2, <1>3, <1>4, <1>5, <1>6, <1>7 DEF Next

\* In every process the free slots and the calls at the provider add up to
\* the cap, so at most Cap of its calls are in flight, whatever fails.
THEOREM NoSlotIsLost == Spec => []SlotsAddUp
  BY InitSlots, NextSlots, TypeCorrect, PTL DEF Spec

(***************************************************************************)
(* Spend.  The invariant: what today's rows of user calls add up to, plus  *)
(* the most that the calls in progress can still add, stays within the     *)
(* limit plus what every caller can add once.  A call is admitted below    *)
(* the limit only; the row of a call replaces its share.                   *)
(***************************************************************************)

BoundInv == userSpent =< spent /\ BurstIsBounded

\* The user calls in progress can be counted; they are at most all calls.
LEMMA UserCallsFinite ==
  /\ IsFiniteSet(UserCalls) /\ Cardinality(UserCalls) \in Nat
  /\ Cardinality(Calls) \in Nat /\ Cardinality(UserCalls) =< Cardinality(Calls)
<1>1. UserCalls \subseteq Calls
  BY DEF UserCalls
<1>. QED  BY <1>1, CallsAssumption, FS_Subset, FS_CardinalityType

\* Below the limit the bound is met whatever calls are in progress.
LEMMA BoundBelowLimit ==
  ASSUME NEW u \in Nat, u < HardLimit, NEW U, U \subseteq Calls
  PROVE  u + MaxCost * Cardinality(U) =< HardLimit + MaxCost * Cardinality(Calls)
<1>1. /\ Cardinality(U) \in Nat /\ Cardinality(Calls) \in Nat
      /\ Cardinality(U) =< Cardinality(Calls)
  BY CallsAssumption, FS_Subset, FS_CardinalityType
<1>2. MaxCost * Cardinality(U) =< MaxCost * Cardinality(Calls)
  BY <1>1, TimesMonotone, LimitsAssumption
<1>3. MaxCost * Cardinality(U) \in Nat /\ MaxCost * Cardinality(Calls) \in Nat
  BY <1>1, LimitsAssumption
<1>. QED  BY <1>2, <1>3, LimitsAssumption

\* A step that begins no user call and adds no spend keeps the bound.
LEMMA BoundWithFewerCalls ==
  ASSUME TypeOK, TypeOK', BurstIsBounded, UserCalls' \subseteq UserCalls,
         userSpent' =< userSpent
  PROVE  BurstIsBounded'
<1>1. Cardinality(UserCalls') \in Nat /\ Cardinality(UserCalls') =< Cardinality(UserCalls)
  BY UserCallsFinite, FS_Subset, FS_CardinalityType
<1>2. MaxCost * Cardinality(UserCalls') =< MaxCost * Cardinality(UserCalls)
  BY <1>1, UserCallsFinite, TimesMonotone, LimitsAssumption
<1>3. /\ MaxCost * Cardinality(UserCalls) \in Nat
      /\ MaxCost * Cardinality(UserCalls') \in Nat
      /\ MaxCost * Cardinality(Calls) \in Nat
  BY <1>1, UserCallsFinite, LimitsAssumption
<1>4. userSpent \in Nat /\ userSpent' \in Nat
  BY DEF TypeOK
<1>. QED  BY <1>2, <1>3, <1>4, LimitsAssumption DEF BurstIsBounded

\* The row of a user call takes the place of its share of the bound.
LEMMA BoundWithRow ==
  ASSUME TypeOK, BurstIsBounded, NEW c \in UserCalls, UserCalls' = UserCalls \ {c},
         NEW cost \in 0 .. MaxCost, userSpent' = userSpent + cost
  PROVE  BurstIsBounded'
<1>1. /\ Cardinality(UserCalls') = Cardinality(UserCalls) - 1
      /\ Cardinality(UserCalls) \in Nat \ {0}
  BY UserCallsFinite, CountLeave
<1>2. MaxCost * (Cardinality(UserCalls) - 1) = MaxCost * Cardinality(UserCalls) - MaxCost
  BY <1>1, LimitsAssumption
<1>3. /\ MaxCost * Cardinality(UserCalls) \in Nat
      /\ MaxCost * Cardinality(Calls) \in Nat
  BY UserCallsFinite, LimitsAssumption
<1>4. userSpent \in Nat /\ cost \in Nat /\ cost =< MaxCost
  BY LimitsAssumption DEF TypeOK
<1>5. FailClosed => userSpent + MaxCost * Cardinality(UserCalls)
                      =< HardLimit + MaxCost * Cardinality(Calls)
  BY DEF BurstIsBounded
<1>6. FailClosed => userSpent + cost + (MaxCost * Cardinality(UserCalls) - MaxCost)
                      =< HardLimit + MaxCost * Cardinality(Calls)
  BY <1>3, <1>4, <1>5, LimitsAssumption
<1>. QED  BY <1>1, <1>2, <1>6 DEF BurstIsBounded

\* At first nothing is spent and no call is in progress.
LEMMA InitBound == Init => BoundInv
<1>. SUFFICES ASSUME Init PROVE BoundInv
  OBVIOUS
<1>1. UserCalls = {}
  BY DEF Init, UserCalls, NoCall
<1>2. Cardinality(UserCalls) = 0
  BY <1>1, FS_EmptySet
<1>3. MaxCost * Cardinality(UserCalls) = 0 /\ MaxCost * Cardinality(Calls) \in Nat
  BY <1>2, UserCallsFinite, LimitsAssumption
<1>4. userSpent = 0 /\ spent = 0
  BY DEF Init
<1>. QED  BY <1>3, <1>4, LimitsAssumption DEF BoundInv, BurstIsBounded

\* Every step keeps the bound.
LEMMA NextBound == TypeOK /\ TypeOK' /\ BoundInv /\ [Next]_vars => BoundInv'
<1>. SUFFICES ASSUME TypeOK, TypeOK', BoundInv, [Next]_vars PROVE BoundInv'
  OBVIOUS
<1>0. /\ userSpent =< spent /\ BurstIsBounded
      /\ userSpent \in Nat /\ spent \in Nat
  BY DEF BoundInv, TypeOK
<1>1. ASSUME NEW c \in Calls, NEW p \in Processes, NEW site \in Sites, Begin(c, p, site)
      PROVE  BoundInv'
  <2>1. userSpent' = userSpent /\ spent' = spent
    BY <1>1 DEF Begin
  <2>2. CASE site = "ingest"
    <3>1. UserCalls' \subseteq UserCalls
      BY <1>1, <2>2 DEF Begin, UserCalls, TypeOK
    <3>. QED  BY <1>0, <2>1, <3>1, BoundWithFewerCalls DEF BoundInv
  <2>3. CASE site # "ingest" /\ FailClosed
    <3>1. spent < HardLimit
      BY <1>1, <2>3 DEF Begin, Admits, AdmitsBlind, WithinBudget
    <3>2. userSpent' \in Nat /\ userSpent' < HardLimit
      BY <1>0, <2>1, <3>1, LimitsAssumption
    <3>3. UserCalls' \subseteq Calls
      BY DEF UserCalls
    <3>4. userSpent' + MaxCost * Cardinality(UserCalls')
            =< HardLimit + MaxCost * Cardinality(Calls)
      BY <3>2, <3>3, BoundBelowLimit
    <3>. QED  BY <1>0, <2>1, <3>4 DEF BoundInv, BurstIsBounded
  <2>4. CASE ~ FailClosed
    BY <1>0, <2>1, <2>4 DEF BoundInv, BurstIsBounded
  <2>. QED  BY <2>2, <2>3, <2>4
<1>2. ASSUME NEW c \in Calls, Record(c) PROVE BoundInv'
  <2>1. PICK cost \in 0 .. MaxCost :
          /\ spent' = spent + cost
          /\ userSpent' = IF call[c].site = "ingest" THEN userSpent ELSE userSpent + cost
    BY <1>2 DEF Record
  <2>2. cost \in Nat
    BY LimitsAssumption
  <2>3. call[c].phase = "metering" /\ call' = [call EXCEPT ![c] = NoCall]
    BY <1>2 DEF Record
  <2>4. userSpent' =< spent'
    BY <1>0, <2>1, <2>2
  <2>5. CASE call[c].site = "ingest"
    <3>1. UserCalls' \subseteq UserCalls
      BY <2>3 DEF UserCalls, TypeOK, NoCall
    <3>2. userSpent' =< userSpent
      BY <1>0, <2>1, <2>5
    <3>. QED  BY <1>0, <2>4, <3>1, <3>2, BoundWithFewerCalls DEF BoundInv
  <2>6. CASE call[c].site # "ingest"
    <3>1. call[c].site = "answer"
      BY <2>6 DEF TypeOK, CallType
    <3>2. c \in UserCalls /\ UserCalls' = UserCalls \ {c}
      BY <2>3, <3>1 DEF UserCalls, TypeOK, NoCall
    <3>3. userSpent' = userSpent + cost
      BY <2>1, <2>6
    <3>. QED  BY <1>0, <2>4, <3>2, <3>3, BoundWithRow DEF BoundInv
  <2>. QED  BY <2>5, <2>6
<1>3. ASSUME NEW c \in Calls,
             Enter(c) \/ Finish(c) \/ RecordFails(c) \/ Cancel(c)
      PROVE  BoundInv'
  <2>1. userSpent' = userSpent /\ spent' = spent
    BY <1>3 DEF Enter, Finish, Answer, ProviderFails, RecordFails, Cancel
  <2>2. UserCalls' \subseteq UserCalls
    <3>1. CASE call' = [call EXCEPT ![c] = NoCall]
      BY <3>1 DEF UserCalls, TypeOK, NoCall
    <3>2. CASE /\ call[c].phase # "idle"
               /\ \/ call' = [call EXCEPT ![c].phase = "calling"]
                  \/ call' = [call EXCEPT ![c].phase = "metering"]
      <4>1. /\ call'[c].site = call[c].site
            /\ \A d \in Calls \ {c} : call'[d] = call[d]
        BY <3>2 DEF TypeOK, CallType
      <4>. QED  BY <3>2, <4>1 DEF UserCalls
    <3>3. CASE Enter(c)
      <4>1. call[c].phase # "idle" /\ call' = [call EXCEPT ![c].phase = "calling"]
        BY <3>3 DEF Enter
      <4>. QED  BY <4>1, <3>2
    <3>4. CASE Answer(c)
      <4>1. call[c].phase # "idle" /\ call' = [call EXCEPT ![c].phase = "metering"]
        BY <3>4 DEF Answer
      <4>. QED  BY <4>1, <3>2
    <3>. QED  BY <1>3, <3>1, <3>3, <3>4 DEF Finish, ProviderFails, RecordFails, Cancel
  <2>. QED  BY <1>0, <2>1, <2>2, BoundWithFewerCalls DEF BoundInv
<1>4. ASSUME NEW p \in Processes, Restart(p) PROVE BoundInv'
  <2>1. userSpent' = userSpent /\ spent' = spent
    BY <1>4 DEF Restart
  <2>2. UserCalls' \subseteq UserCalls
    BY <1>4 DEF Restart, UserCalls, NoCall
  <2>. QED  BY <1>0, <2>1, <2>2, BoundWithFewerCalls DEF BoundInv
<1>5. CASE Midnight
  <2>1. userSpent' = 0 /\ spent' = 0 /\ UserCalls' = UserCalls
    BY <1>5 DEF Midnight, UserCalls
  <2>. QED  BY <1>0, <2>1, BoundWithFewerCalls DEF BoundInv
<1>6. CASE UNCHANGED vars
  <2>1. userSpent' = userSpent /\ spent' = spent /\ UserCalls' = UserCalls
    BY <1>6 DEF vars, UserCalls
  <2>. QED  BY <1>0, <2>1, BoundWithFewerCalls DEF BoundInv
<1>. QED  BY <1>1, <1>2, <1>3, <1>4, <1>5, <1>6 DEF Next, Meter

\* As long as an unreadable spend table refuses, a day's rows of user calls
\* pass the hard limit by no more than every concurrent caller can spend
\* once: the number of callers bounds the overshoot, and no restart, lost
\* row, cancellation or midnight adds to it.
THEOREM OvershootIsBounded == Spec => []BurstIsBounded
<1>1. BoundInv => BurstIsBounded
  BY DEF BoundInv
<1>. QED  BY InitBound, NextBound, TypeCorrect, <1>1, PTL DEF Spec

----------------------------------------------------------------------------
(* Memberships.                                                            *)

Phases == {"idle", "claimed", "bound", "locked", "fetched", "unmatched"}

HandlerType == [phase : Phases, event : Event \cup {NoEvent}, named : BOOLEAN,
                seen : Row \cup {NoRow}]

\* A subscription has a buyer before its first event, and carries its account in
\* the metadata until it has a row.
LiveOk(s) ==
  /\ live[s].version > 0 => live[s].buyer \in Accounts
  /\ live[s].buyer # Nobody /\ ~ live[s].named =>
       /\ live[s].version > 0
       /\ rows[s] # NoRow \/ live[s].buyer \notin accounts

\* A row is the buyer's, and at most as new as the subscription.
RowOk(s) ==
  rows[s] # NoRow =>
    /\ rows[s].account = live[s].buyer /\ live[s].buyer \in accounts
    /\ rows[s].version > 0 /\ rows[s].version <= live[s].version
    /\ rows[s].version = live[s].version => rows[s].status = live[s].status

\* An event that was logged is in the row, unless the account is gone.
AppliedOk(e) ==
  /\ e \in Event /\ e.version > 0 /\ e.version <= live[e.sub].version
  /\ rows[e.sub].version >= e.version \/ live[e.sub].buyer \notin accounts

\* A handler that dismisses an event may; one that has read the subscription for
\* the second time holds the lock, and the row is no newer than what it has read.
HandlerOk(h) ==
  LET s == handler[h].event.sub
      m == handler[h].seen IN
  handler[h].phase # "idle" =>
    /\ handler[h].event \in Event
    /\ handler[h].event.version > 0 /\ handler[h].event.version <= live[s].version
    /\ ~ handler[h].named => ~ live[s].named
    /\ handler[h].phase = "unmatched" => live[s].buyer \notin accounts
    /\ handler[h].phase \in {"locked", "fetched"} =>
         live[s].buyer \in accounts /\ userLock[live[s].buyer] = h
    /\ handler[h].phase = "fetched" =>
         /\ m # NoRow /\ m.account = live[s].buyer
         /\ handler[h].event.version <= m.version /\ m.version <= live[s].version
         /\ rows[s].version <= m.version
         /\ m.version = live[s].version => m.status = live[s].status

MembershipsInv ==
  /\ BillingTypeOK
  /\ \A s \in Subs : LiveOk(s) /\ RowOk(s)
  /\ \A e \in applied : AppliedOk(e)
  /\ \A h \in Handlers : HandlerOk(h)

LEMMA BillingTypes ==
  ASSUME MembershipsInv
  PROVE  /\ live \in [Subs -> Subscription]
         /\ rows \in [Subs -> Row \cup {NoRow}]
         /\ applied \subseteq Event /\ accounts \subseteq Accounts
         /\ userLock \in [Accounts -> Handlers \cup {Nobody}]
         /\ handler \in [Handlers -> HandlerType] /\ failures \in Nat
BY DEF MembershipsInv, BillingTypeOK, HandlerType, Phases

LEMMA Distinct ==
  /\ Nobody \notin Accounts /\ Nobody \notin Subs /\ Nobody \notin Handlers
  /\ NoRow \notin Row /\ NoRow.version = 0 /\ NoRow.account = Nobody
  /\ NoEvent \notin Event
  /\ Idle \in HandlerType /\ Idle.phase = "idle"
BY MembershipsAssumption
  DEF NoRow, Row, NoEvent, Event, Idle, HandlerType, Phases, Statuses, Graces

LEMMA VersionsAreNumbers ==
  ASSUME MembershipsInv
  PROVE  /\ \A s \in Subs : live[s].version \in Nat /\ rows[s].version \in Nat
         /\ \A h \in Handlers : handler[h].seen.version \in Nat
         /\ \A e \in Event : e.version \in Nat /\ e.sub \in Subs
BY BillingTypes, Distinct DEF Subscription, Row, HandlerType, Event

----------------------------------------------------------------------------
(* What every step keeps.                                                   *)

\* Subscriptions only move on, and keep their buyer.
LiveGrows ==
  \A s \in Subs :
    /\ live[s].version <= live'[s].version
    /\ live[s].buyer # Nobody =>
         /\ live'[s].buyer = live[s].buyer
         /\ ~ live[s].named => ~ live'[s].named
         /\ live'[s].version = live[s].version => live'[s].status = live[s].status

LEMMA LiveKept ==
  ASSUME MembershipsInv, UNCHANGED live
  PROVE  LiveGrows
BY VersionsAreNumbers DEF LiveGrows

LEMMA HandlerStands ==
  ASSUME MembershipsInv, LiveGrows, live' \in [Subs -> Subscription], accounts' \subseteq accounts,
         NEW h \in Handlers, handler'[h] = handler[h],
         \A a \in Accounts : userLock[a] = h =>
            userLock'[a] = h /\ (a \in accounts => a \in accounts'),
         handler[h].phase = "fetched" =>
            rows'[handler[h].event.sub].version = rows[handler[h].event.sub].version
  PROVE  HandlerOk(h)'
<1>. DEFINE s == handler[h].event.sub
            m == handler[h].seen
<1>. SUFFICES ASSUME handler[h].phase # "idle" PROVE HandlerOk(h)'
  BY DEF HandlerOk
<1>1. /\ handler[h].event \in Event /\ s \in Subs
      /\ handler[h].event.version > 0 /\ handler[h].event.version <= live[s].version
      /\ handler[h].event.version \in Nat /\ live[s].version \in Nat /\ m.version \in Nat
      /\ live'[s].version \in Nat
  BY VersionsAreNumbers DEF MembershipsInv, HandlerOk, Subscription
<1>2. live[s].buyer \in Accounts /\ live[s].buyer # Nobody
  BY <1>1, Distinct DEF MembershipsInv, LiveOk
<1>3. /\ live[s].version <= live'[s].version /\ live'[s].buyer = live[s].buyer
      /\ ~ live[s].named => ~ live'[s].named
      /\ live'[s].version = live[s].version => live'[s].status = live[s].status
  BY <1>1, <1>2 DEF LiveGrows
<1>4. HandlerOk(h)
  BY DEF MembershipsInv
<1>5. /\ handler[h].event.version <= live'[s].version
      /\ ~ handler[h].named => ~ live'[s].named
      /\ handler[h].phase = "unmatched" => live'[s].buyer \notin accounts'
  BY <1>1, <1>3, <1>4 DEF HandlerOk
<1>6. handler[h].phase \in {"locked", "fetched"} =>
        live'[s].buyer \in accounts' /\ userLock'[live'[s].buyer] = h
  BY <1>2, <1>3, <1>4 DEF HandlerOk
<1>7. handler[h].phase = "fetched" =>
        /\ m # NoRow /\ m.account = live'[s].buyer
        /\ handler[h].event.version <= m.version /\ m.version <= live'[s].version
        /\ rows'[s].version <= m.version
        /\ m.version = live'[s].version => m.status = live'[s].status
  <2>. SUFFICES ASSUME handler[h].phase = "fetched"
                PROVE  /\ m # NoRow /\ m.account = live'[s].buyer
                       /\ handler[h].event.version <= m.version /\ m.version <= live'[s].version
                       /\ rows'[s].version <= m.version
                       /\ m.version = live'[s].version => m.status = live'[s].status
    OBVIOUS
  <2>1. /\ m # NoRow /\ m.account = live[s].buyer
        /\ handler[h].event.version <= m.version /\ m.version <= live[s].version
        /\ rows[s].version <= m.version
        /\ m.version = live[s].version => m.status = live[s].status
    BY <1>4 DEF HandlerOk
  <2>2. m.version = live'[s].version => live'[s].version = live[s].version
    BY <1>1, <1>3, <2>1
  <2>3. m.version <= live'[s].version
    BY <1>1, <1>3, <2>1
  <2>4. rows'[s].version <= m.version
    BY <2>1
  <2>. QED BY <1>3, <2>1, <2>2, <2>3, <2>4
<1>. QED BY <1>1, <1>5, <1>6, <1>7 DEF HandlerOk

LEMMA LiveMoves ==
  ASSUME MembershipsInv, LiveGrows, live' \in [Subs -> Subscription], UNCHANGED <<rows, accounts, applied>>
  PROVE  /\ \A s \in Subs : RowOk(s)'
         /\ \A e \in applied' : AppliedOk(e)'
<1>1. ASSUME NEW s \in Subs PROVE RowOk(s)'
  <2>. SUFFICES ASSUME rows[s] # NoRow
                PROVE  /\ rows[s].account = live'[s].buyer /\ live'[s].buyer \in accounts
                       /\ rows[s].version > 0 /\ rows[s].version <= live'[s].version
                       /\ rows[s].version = live'[s].version => rows[s].status = live'[s].status
    BY DEF RowOk
  <2>1. /\ rows[s].account = live[s].buyer /\ live[s].buyer \in accounts
        /\ rows[s].version > 0 /\ rows[s].version <= live[s].version
        /\ rows[s].version = live[s].version => rows[s].status = live[s].status
    BY DEF MembershipsInv, RowOk
  <2>2. live[s].buyer # Nobody
    BY <2>1, BillingTypes, Distinct
  <2>3. /\ live[s].version <= live'[s].version /\ live'[s].buyer = live[s].buyer
        /\ live'[s].version = live[s].version => live'[s].status = live[s].status
    BY <2>2 DEF LiveGrows
  <2>4. live[s].version \in Nat /\ live'[s].version \in Nat /\ rows[s].version \in Nat
    BY VersionsAreNumbers DEF Subscription
  <2>5. rows[s].version <= live'[s].version
    BY <2>1, <2>3, <2>4
  <2>6. rows[s].version = live'[s].version => live'[s].version = live[s].version
    BY <2>1, <2>3, <2>4
  <2>. QED BY <2>1, <2>3, <2>5, <2>6
<1>2. ASSUME NEW e \in applied PROVE AppliedOk(e)'
  <2>1. /\ e \in Event /\ e.version > 0 /\ e.version <= live[e.sub].version
        /\ rows[e.sub].version >= e.version \/ live[e.sub].buyer \notin accounts
    BY DEF MembershipsInv, AppliedOk
  <2>2. /\ e.sub \in Subs /\ e.version \in Nat
        /\ live[e.sub].version \in Nat /\ live'[e.sub].version \in Nat
    BY <2>1, VersionsAreNumbers DEF Subscription
  <2>3. live[e.sub].buyer # Nobody
    BY <2>1, <2>2, Distinct DEF MembershipsInv, LiveOk
  <2>4. live[e.sub].version <= live'[e.sub].version /\ live'[e.sub].buyer = live[e.sub].buyer
    BY <2>2, <2>3 DEF LiveGrows
  <2>5. e.version <= live'[e.sub].version
    BY <2>1, <2>2, <2>4
  <2>. QED BY <2>1, <2>4, <2>5 DEF AppliedOk
<1>. QED BY <1>1, <1>2

----------------------------------------------------------------------------
(* Stripe's side.                                                           *)

\* One subscription changes, and nothing else.
LEMMA SubscriptionMoves ==
  ASSUME MembershipsInv, NEW s \in Subs, NEW l \in Subscription, live' = [live EXCEPT ![s] = l],
         live[s].version <= l.version,
         live[s].buyer # Nobody =>
           /\ l.buyer = live[s].buyer /\ (~ live[s].named => ~ l.named)
           /\ l.version = live[s].version => l.status = live[s].status,
         l.version > 0 => l.buyer \in Accounts,
         l.buyer # Nobody /\ ~ l.named => l.version > 0 /\ (rows[s] # NoRow \/ l.buyer \notin accounts),
         UNCHANGED <<rows, applied, accounts, userLock, handler, failures>>
  PROVE  MembershipsInv'
<1>1. live' \in [Subs -> Subscription] /\ live'[s] = l /\ \A z \in Subs : z # s => live'[z] = live[z]
  BY BillingTypes
<1>2. LiveGrows
  <2>1. \A z \in Subs : live[z].version <= live[z].version
    BY VersionsAreNumbers
  <2>. QED BY <1>1, <2>1 DEF LiveGrows
<1>3. BillingTypeOK'
  BY <1>1 DEF MembershipsInv, BillingTypeOK
<1>4. \A z \in Subs : LiveOk(z)'
  BY <1>1 DEF MembershipsInv, LiveOk
<1>5. ASSUME NEW h \in Handlers PROVE HandlerOk(h)'
  BY <1>1, <1>2, HandlerStands
<1>6. (\A z \in Subs : RowOk(z)') /\ (\A e \in applied' : AppliedOk(e)')
  BY <1>1, <1>2, LiveMoves
<1>. QED BY <1>3, <1>4, <1>5, <1>6 DEF MembershipsInv

LEMMA StartCheckoutStep ==
  ASSUME MembershipsInv, NEW a \in Accounts, NEW s \in Subs, StartCheckout(a, s)
  PROVE  MembershipsInv'
<1>1. live[s].version = 0
  BY VersionsAreNumbers, Distinct DEF MembershipsInv, LiveOk, StartCheckout
<1>2. /\ CheckoutSession(a) \in Subscription /\ CheckoutSession(a).version = 0
      /\ CheckoutSession(a).named /\ CheckoutSession(a).buyer = a
  BY DEF CheckoutSession, Subscription, Statuses
<1>3. /\ live' = [live EXCEPT ![s] = CheckoutSession(a)] /\ live[s].buyer = Nobody
      /\ UNCHANGED <<rows, applied, accounts, userLock, handler, failures>>
  BY DEF StartCheckout
<1>4. live[s].version <= CheckoutSession(a).version /\ ~ (CheckoutSession(a).version > 0)
  BY <1>1, <1>2
<1>. QED BY <1>2, <1>3, <1>4, SubscriptionMoves

LEMMA CompleteCheckoutStep ==
  ASSUME MembershipsInv, NEW s \in Subs, CompleteCheckout(s)
  PROVE  MembershipsInv'
<1>. DEFINE l == [live[s] EXCEPT !.version = 1]
<1>1. live[s] \in Subscription /\ live[s].version = 0 /\ live[s].buyer \in Accounts
  BY BillingTypes DEF CompleteCheckout, Subscription
<1>2. /\ l \in Subscription /\ l.version = 1 /\ l.buyer = live[s].buyer
      /\ l.named = live[s].named /\ l.status = live[s].status
  BY <1>1 DEF Subscription
<1>3. live' = [live EXCEPT ![s] = l]
  BY BillingTypes DEF CompleteCheckout
<1>4. live[s].named
  BY <1>1, Distinct DEF MembershipsInv, LiveOk
<1>5. live[s].version <= l.version /\ l.version # live[s].version
  BY <1>1, <1>2
<1>9. UNCHANGED <<rows, applied, accounts, userLock, handler, failures>>
  BY DEF CompleteCheckout
<1>. HIDE DEF l
<1>. QED BY <1>1, <1>2, <1>3, <1>4, <1>5, <1>9, SubscriptionMoves

LEMMA ClearedMetadata ==
  ASSUME NEW x \in Subscription, NEW v \in Nat
  PROVE  LET l == [x EXCEPT !.version = v, !.named = FALSE] IN
         l \in Subscription /\ l.version = v /\ l.buyer = x.buyer /\ l.named = FALSE
BY DEF Subscription

LEMMA ChangeStep ==
  ASSUME MembershipsInv, NEW s \in Subs, NEW status \in Statuses, Change(s, status)
  PROVE  MembershipsInv'
<1>. DEFINE l == [live[s] EXCEPT !.version = live[s].version + 1, !.status = status]
<1>1. live[s] \in Subscription /\ live[s].version > 0 /\ live[s].version \in Nat
  BY BillingTypes DEF Change, Subscription
<1>. DEFINE n == live[s].version + 1
<1>2. /\ l \in Subscription /\ l.version = n /\ l.buyer = live[s].buyer
      /\ ~ l.named <=> ~ live[s].named
  <2>1. n \in Nat
    BY <1>1
  <2>2. l = [live[s] EXCEPT !.version = n, !.status = status]
    OBVIOUS
  <2>3. live[s] \in Subscription
    BY <1>1
  <2>. HIDE DEF n, l
  <2>4. l \in Subscription
    BY <2>1, <2>2, <2>3 DEF Subscription
  <2>5. l.version = n /\ l.buyer = live[s].buyer
    BY <2>2, <2>3 DEF Subscription
  <2>6. ~ l.named <=> ~ live[s].named
    BY <2>2, <2>3 DEF Subscription
  <2>. QED BY <2>4, <2>5, <2>6
<1>3. live' = [live EXCEPT ![s] = l]
  BY BillingTypes DEF Change
<1>4. live[s].buyer \in Accounts /\ (~ live[s].named => rows[s] # NoRow \/ live[s].buyer \notin accounts)
  BY <1>1, Distinct DEF MembershipsInv, LiveOk
<1>5. live[s].version <= l.version /\ l.version # live[s].version /\ l.version > 0
  BY <1>1, <1>2
<1>9. UNCHANGED <<rows, applied, accounts, userLock, handler, failures>>
  BY DEF Change
<1>. HIDE DEF l
<1>. QED BY <1>1, <1>2, <1>3, <1>4, <1>5, <1>9, SubscriptionMoves

LEMMA ClearMetadataStep ==
  ASSUME MembershipsInv, NEW s \in Subs, ClearMetadata(s)
  PROVE  MembershipsInv'
<1>. DEFINE l == [live[s] EXCEPT !.version = live[s].version + 1, !.named = FALSE]
<1>1. live[s] \in Subscription /\ live[s].version > 0 /\ live[s].version \in Nat
  BY BillingTypes DEF ClearMetadata, Subscription
<1>2. /\ l \in Subscription /\ l.version = live[s].version + 1 /\ l.buyer = live[s].buyer
      /\ ~ l.named
  <2>1. live[s].version + 1 \in Nat
    BY <1>1
  <2>. QED BY <1>1, <2>1, ClearedMetadata
<1>3. live' = [live EXCEPT ![s] = l]
  BY BillingTypes DEF ClearMetadata
<1>4. live[s].buyer \in Accounts /\ rows[s] # NoRow
  BY <1>1, Distinct DEF MembershipsInv, LiveOk, ClearMetadata
<1>5. live[s].version <= l.version /\ l.version # live[s].version /\ l.version > 0
  BY <1>1, <1>2
<1>9. UNCHANGED <<rows, applied, accounts, userLock, handler, failures>>
  BY DEF ClearMetadata
<1>. HIDE DEF l
<1>. QED BY <1>1, <1>2, <1>3, <1>4, <1>5, <1>9, SubscriptionMoves

----------------------------------------------------------------------------
(* The handlers' side.                                                      *)

\* One handler moves; it may take or give back locks.
LEMMA HandlerMoves ==
  ASSUME MembershipsInv, NEW h \in Handlers, handler' \in [Handlers -> HandlerType],
         \A g \in Handlers : g # h => handler'[g] = handler[g],
         HandlerOk(h)',
         userLock' \in [Accounts -> Handlers \cup {Nobody}],
         \A a \in Accounts : userLock[a] \notin {h, Nobody} => userLock'[a] = userLock[a],
         failures' \in Nat, UNCHANGED <<live, rows, applied, accounts>>
  PROVE  MembershipsInv'
<1>1. BillingTypeOK'
  BY DEF MembershipsInv, BillingTypeOK, HandlerType, Phases
<1>2. \A s \in Subs : LiveOk(s)' /\ RowOk(s)'
  BY DEF MembershipsInv, LiveOk, RowOk
<1>3. \A e \in applied' : AppliedOk(e)'
  BY DEF MembershipsInv, AppliedOk
<1>4. ASSUME NEW g \in Handlers, g # h PROVE HandlerOk(g)'
  <2>1. \A a \in Accounts : userLock[a] = g => userLock'[a] = g
    BY <1>4, Distinct
  <2>2. LiveGrows
    BY LiveKept
  <2>. QED BY <1>4, <2>1, <2>2, BillingTypes, HandlerStands
<1>. QED BY <1>1, <1>2, <1>3, <1>4 DEF MembershipsInv

\* A handler goes on to another phase.
LEMMA PhaseMoves ==
  ASSUME MembershipsInv, NEW h \in Handlers, NEW p \in Phases,
         handler' = [handler EXCEPT ![h].phase = p]
  PROVE  /\ handler' \in [Handlers -> HandlerType]
         /\ \A g \in Handlers : g # h => handler'[g] = handler[g]
         /\ handler'[h].phase = p /\ handler'[h].event = handler[h].event
         /\ handler'[h].seen = handler[h].seen
         /\ ~ handler'[h].named <=> ~ handler[h].named
<1>1. handler[h] \in HandlerType /\ handler \in [Handlers -> HandlerType]
  BY BillingTypes
<1>2. handler' = [handler EXCEPT ![h] = [handler[h] EXCEPT !.phase = p]]
  BY <1>1
<1>3. [handler[h] EXCEPT !.phase = p] \in HandlerType
  BY <1>1 DEF HandlerType
<1>4. handler'[h] = [handler[h] EXCEPT !.phase = p] /\ \A g \in Handlers : g # h => handler'[g] = handler[g]
  BY <1>1, <1>2
<1>5. handler' \in [Handlers -> HandlerType]
  BY <1>1, <1>2, <1>3
<1>6. /\ handler'[h].phase = p /\ handler'[h].event = handler[h].event
      /\ handler'[h].seen = handler[h].seen
  BY <1>1, <1>4 DEF HandlerType
<1>7. ~ handler'[h].named <=> ~ handler[h].named
  BY <1>1, <1>4 DEF HandlerType
<1>. QED BY <1>4, <1>5, <1>6, <1>7

LEMMA HandlerIdle ==
  ASSUME MembershipsInv, NEW h \in Handlers, handler' = [handler EXCEPT ![h] = Idle]
  PROVE  /\ handler' \in [Handlers -> HandlerType] /\ handler'[h] = Idle
         /\ \A g \in Handlers : g # h => handler'[g] = handler[g]
         /\ HandlerOk(h)'
<1>1. /\ handler' \in [Handlers -> HandlerType] /\ handler'[h] = Idle
      /\ \A g \in Handlers : g # h => handler'[g] = handler[g]
  BY BillingTypes, Distinct
<1>. QED BY <1>1, Distinct DEF HandlerOk

LEMMA ReceiveStep ==
  ASSUME MembershipsInv, NEW h \in Handlers, NEW e \in Events, Receive(h, e)
  PROVE  MembershipsInv'
<1>. DEFINE r == [phase |-> "claimed", event |-> e, named |-> live[e.sub].named, seen |-> NoRow]
<1>1. /\ e \in Event /\ e.version > 0 /\ e.version <= live[e.sub].version
      /\ e.sub \in Subs /\ e.version \in Nat
  BY MembershipsAssumption DEF Receive, Emitted, Events, Event
<1>2. live[e.sub].named \in BOOLEAN
  BY <1>1, BillingTypes DEF Subscription
<1>3. r \in HandlerType
  BY <1>1, <1>2 DEF HandlerType, Phases
<1>4. /\ handler' = [handler EXCEPT ![h] = r]
      /\ UNCHANGED <<live, rows, applied, accounts, userLock, failures>>
  BY DEF Receive
<1>5. r.phase = "claimed" /\ r.event = e
  OBVIOUS
<1>6. ~ r.named <=> ~ live[e.sub].named
  OBVIOUS
<1>. HIDE DEF r
<1>7. /\ handler' \in [Handlers -> HandlerType] /\ handler'[h] = r
      /\ \A g \in Handlers : g # h => handler'[g] = handler[g]
  BY <1>3, <1>4, BillingTypes
<1>8. HandlerOk(h)'
  BY <1>1, <1>4, <1>5, <1>6, <1>7 DEF HandlerOk
<1>9. userLock' \in [Accounts -> Handlers \cup {Nobody}] /\ failures' \in Nat
  BY <1>4, BillingTypes
<1>. QED BY <1>4, <1>7, <1>8, <1>9, HandlerMoves

LEMMA BindStep ==
  ASSUME MembershipsInv, NEW h \in Handlers, Bind(h)
  PROVE  MembershipsInv'
<1>. DEFINE s == handler[h].event.sub
            p == IF rows[s] # NoRow \/ handler[h].named THEN "bound" ELSE "unmatched"
<1>1. /\ handler[h].phase = "claimed" /\ handler' = [handler EXCEPT ![h].phase = p]
      /\ UNCHANGED <<live, rows, applied, accounts, userLock, failures>>
  BY DEF Bind
<1>2. /\ handler[h].event \in Event /\ handler[h].event.version > 0
      /\ handler[h].event.version <= live[s].version /\ (~ handler[h].named => ~ live[s].named)
  BY <1>1 DEF MembershipsInv, HandlerOk
<1>3. s \in Subs /\ live[s].buyer \in Accounts
  BY <1>2, VersionsAreNumbers DEF MembershipsInv, LiveOk
<1>4. p = "unmatched" => live[s].buyer \notin accounts
  BY <1>2, <1>3, Distinct DEF MembershipsInv, LiveOk
<1>5. p \in {"bound", "unmatched"} /\ p \in Phases
  BY DEF Phases
<1>. HIDE DEF p
<1>6. /\ handler' \in [Handlers -> HandlerType]
      /\ \A g \in Handlers : g # h => handler'[g] = handler[g]
      /\ handler'[h].phase = p /\ handler'[h].event = handler[h].event
      /\ ~ handler'[h].named <=> ~ handler[h].named
  BY <1>1, <1>5, PhaseMoves
<1>7. HandlerOk(h)'
  BY <1>1, <1>2, <1>4, <1>5, <1>6 DEF HandlerOk
<1>8. userLock' \in [Accounts -> Handlers \cup {Nobody}] /\ failures' \in Nat
  BY <1>1, BillingTypes
<1>. QED BY <1>1, <1>6, <1>7, <1>8, HandlerMoves

\* What is known of a handler that has claimed an event.
LEMMA Claimed ==
  ASSUME MembershipsInv, NEW h \in Handlers, handler[h].phase # "idle"
  PROVE  LET e == handler[h].event IN
         /\ e \in Event /\ e.version > 0 /\ e.version <= live[e.sub].version
         /\ ~ handler[h].named => ~ live[e.sub].named
         /\ e.sub \in Subs /\ live[e.sub].buyer \in Accounts /\ Account(h) = live[e.sub].buyer
<1>1. LET e == handler[h].event IN
         /\ e \in Event /\ e.version > 0 /\ e.version <= live[e.sub].version
         /\ ~ handler[h].named => ~ live[e.sub].named
  BY DEF MembershipsInv, HandlerOk
<1>. QED BY <1>1, VersionsAreNumbers DEF MembershipsInv, LiveOk, Account

LEMMA LockUserStep ==
  ASSUME MembershipsInv, NEW h \in Handlers, LockUser(h)
  PROVE  MembershipsInv'
<1>. DEFINE s == handler[h].event.sub
<1>1. /\ handler[h].phase = "bound" /\ handler' = [handler EXCEPT ![h].phase = "locked"]
      /\ Account(h) \in accounts /\ userLock[Account(h)] = Nobody
      /\ userLock' = [userLock EXCEPT ![Account(h)] = h]
      /\ UNCHANGED <<live, rows, applied, accounts, failures>>
  BY DEF LockUser
<1>2. /\ handler[h].event \in Event /\ handler[h].event.version > 0
      /\ handler[h].event.version <= live[s].version /\ (~ handler[h].named => ~ live[s].named)
      /\ s \in Subs /\ live[s].buyer \in Accounts /\ Account(h) = live[s].buyer
  BY <1>1, Claimed
<1>3. /\ userLock' \in [Accounts -> Handlers \cup {Nobody}] /\ failures' \in Nat
      /\ userLock'[live[s].buyer] = h
      /\ \A a \in Accounts : userLock[a] \notin {h, Nobody} => userLock'[a] = userLock[a]
  BY <1>1, <1>2, BillingTypes
<1>4. /\ handler' \in [Handlers -> HandlerType]
      /\ \A g \in Handlers : g # h => handler'[g] = handler[g]
      /\ handler'[h].phase = "locked" /\ handler'[h].event = handler[h].event
      /\ ~ handler'[h].named <=> ~ handler[h].named
  BY <1>1, PhaseMoves DEF Phases
<1>5. HandlerOk(h)'
  BY <1>1, <1>2, <1>3, <1>4 DEF HandlerOk
<1>. QED BY <1>1, <1>3, <1>4, <1>5, HandlerMoves

LEMMA AccountMissingStep ==
  ASSUME MembershipsInv, NEW h \in Handlers, AccountMissing(h)
  PROVE  MembershipsInv'
<1>1. /\ handler[h].phase = "bound" /\ handler' = [handler EXCEPT ![h].phase = "unmatched"]
      /\ Account(h) \notin accounts
      /\ UNCHANGED <<live, rows, applied, accounts, userLock, failures>>
  BY DEF AccountMissing
<1>2. /\ handler[h].event \in Event /\ handler[h].event.version > 0
      /\ handler[h].event.version <= live[handler[h].event.sub].version
      /\ ~ handler[h].named => ~ live[handler[h].event.sub].named
      /\ Account(h) = live[handler[h].event.sub].buyer
  BY <1>1, Claimed
<1>3. userLock' \in [Accounts -> Handlers \cup {Nobody}] /\ failures' \in Nat
  BY <1>1, BillingTypes
<1>4. /\ handler' \in [Handlers -> HandlerType]
      /\ \A g \in Handlers : g # h => handler'[g] = handler[g]
      /\ handler'[h].phase = "unmatched" /\ handler'[h].event = handler[h].event
      /\ ~ handler'[h].named <=> ~ handler[h].named
  BY <1>1, PhaseMoves DEF Phases
<1>5. HandlerOk(h)'
  BY <1>1, <1>2, <1>4 DEF HandlerOk
<1>. QED BY <1>1, <1>3, <1>4, <1>5, HandlerMoves

LEMMA FetchStep ==
  ASSUME MembershipsInv, NEW h \in Handlers, Fetch(h)
  PROVE  MembershipsInv'
<1>. DEFINE s == handler[h].event.sub
            m == Retrieved(s)
            r == [handler[h] EXCEPT !.seen = m, !.phase = "fetched"]
<1>1. /\ handler[h].phase = "locked"
      /\ UNCHANGED <<live, rows, applied, accounts, userLock, failures>>
  BY DEF Fetch
<1>2. /\ handler[h].event \in Event /\ handler[h].event.version > 0
      /\ handler[h].event.version <= live[s].version /\ (~ handler[h].named => ~ live[s].named)
      /\ s \in Subs /\ live[s].buyer \in Accounts
  BY <1>1, Claimed
<1>3. live[s].buyer \in accounts /\ userLock[live[s].buyer] = h
  BY <1>1 DEF MembershipsInv, HandlerOk
<1>4. /\ m \in Row /\ m.account = live[s].buyer /\ m.version = live[s].version
      /\ m.status = live[s].status
  <2>1. live[s] \in Subscription
    BY <1>2, BillingTypes
  <2>. QED BY <1>2, <2>1 DEF Retrieved, Row, Subscription, Graces
<1>5. handler \in [Handlers -> HandlerType] /\ handler[h] \in HandlerType
  BY BillingTypes
<1>6. handler' = [handler EXCEPT ![h] = r]
  BY <1>5 DEF Fetch
<1>. HIDE DEF m
<1>7. r \in HandlerType
  BY <1>4, <1>5 DEF HandlerType, Phases
<1>8. r.phase = "fetched" /\ r.seen = m /\ r.event = handler[h].event
  BY <1>5 DEF HandlerType
<1>9. ~ r.named <=> ~ handler[h].named
  BY <1>5 DEF HandlerType
<1>. HIDE DEF r
<1>10. /\ handler' \in [Handlers -> HandlerType] /\ handler'[h] = r
       /\ \A g \in Handlers : g # h => handler'[g] = handler[g]
  BY <1>5, <1>6, <1>7
<1>11. rows[s].version <= live[s].version
  <2>1. CASE rows[s] = NoRow
    BY <1>2, <2>1, VersionsAreNumbers, Distinct
  <2>. QED BY <1>2, <2>1 DEF MembershipsInv, RowOk
<1>12. m # NoRow /\ m.version <= live[s].version
  BY <1>2, <1>4, Distinct, VersionsAreNumbers
<1>13. HandlerOk(h)'
  BY <1>1, <1>2, <1>3, <1>4, <1>8, <1>9, <1>10, <1>11, <1>12 DEF HandlerOk
<1>14. userLock' \in [Accounts -> Handlers \cup {Nobody}] /\ failures' \in Nat
  BY <1>1, BillingTypes
<1>. QED BY <1>1, <1>10, <1>13, <1>14, HandlerMoves

LEMMA ReleasedLocks ==
  ASSUME MembershipsInv, NEW h \in Handlers, userLock' = Released(h)
  PROVE  /\ userLock' \in [Accounts -> Handlers \cup {Nobody}]
         /\ \A a \in Accounts : userLock[a] \notin {h, Nobody} => userLock'[a] = userLock[a]
BY BillingTypes DEF Released

LEMMA ConflictStep ==
  ASSUME MembershipsInv, NEW h \in Handlers, Conflict(h)
  PROVE  MembershipsInv'
<1>1. /\ handler' = [handler EXCEPT ![h] = Idle] /\ userLock' = Released(h)
      /\ UNCHANGED <<live, rows, applied, accounts, failures>>
  BY DEF Conflict
<1>2. failures' \in Nat
  BY <1>1, BillingTypes
<1>. QED BY <1>1, <1>2, HandlerIdle, ReleasedLocks, HandlerMoves

LEMMA FailStep ==
  ASSUME MembershipsInv, NEW h \in Handlers, Fail(h)
  PROVE  MembershipsInv'
<1>1. /\ handler' = [handler EXCEPT ![h] = Idle] /\ userLock' = Released(h)
      /\ failures' = failures + 1 /\ UNCHANGED <<live, rows, applied, accounts>>
  BY DEF Fail
<1>2. failures' \in Nat
  BY <1>1, BillingTypes
<1>. QED BY <1>1, <1>2, HandlerIdle, ReleasedLocks, HandlerMoves

----------------------------------------------------------------------------
(* Rows.                                                                    *)

LEMMA LogUnmatchedStep ==
  ASSUME MembershipsInv, NEW h \in Handlers, LogUnmatched(h)
  PROVE  MembershipsInv'
<1>. DEFINE e == handler[h].event
<1>1. /\ handler[h].phase = "unmatched" /\ applied' = applied \cup {e}
      /\ handler' = [handler EXCEPT ![h] = Idle]
      /\ UNCHANGED <<live, rows, accounts, userLock, failures>>
  BY DEF LogUnmatched
<1>2. /\ e \in Event /\ e.version > 0 /\ e.version <= live[e.sub].version
  BY <1>1, Claimed
<1>3. live[e.sub].buyer \notin accounts
  BY <1>1 DEF MembershipsInv, HandlerOk
<1>4. /\ handler' \in [Handlers -> HandlerType] /\ HandlerOk(h)'
      /\ \A g \in Handlers : g # h => handler'[g] = handler[g]
  BY <1>1, HandlerIdle
<1>5. BillingTypeOK'
  BY <1>1, <1>2, <1>4 DEF MembershipsInv, BillingTypeOK, HandlerType, Phases
<1>6. \A s \in Subs : LiveOk(s)' /\ RowOk(s)'
  BY <1>1 DEF MembershipsInv, LiveOk, RowOk
<1>7. ASSUME NEW x \in applied' PROVE AppliedOk(x)'
  <2>1. x \in applied \/ x = e
    BY <1>1
  <2>2. AppliedOk(x)
    BY <1>2, <1>3, <2>1 DEF MembershipsInv, AppliedOk
  <2>. QED BY <1>1, <2>2 DEF AppliedOk
<1>8. ASSUME NEW g \in Handlers, g # h PROVE HandlerOk(g)'
  <2>1. LiveGrows
    BY <1>1, LiveKept
  <2>. QED BY <1>1, <1>4, <1>8, <2>1, BillingTypes, HandlerStands
<1>. QED BY <1>4, <1>5, <1>6, <1>7, <1>8 DEF MembershipsInv

\* What a handler is about to store.
LEMMA StoredRow ==
  ASSUME MembershipsInv, NEW h \in Handlers, handler[h].phase = "fetched"
  PROVE  LET s == handler[h].event.sub
             m == handler[h].seen
             r == Stored(s, m) IN
         /\ s \in Subs /\ live[s].buyer \in accounts /\ userLock[live[s].buyer] = h
         /\ Account(h) = live[s].buyer
         /\ handler[h].event \in Event /\ handler[h].event.version > 0
         /\ handler[h].event.version <= r.version
         /\ r \in Row /\ r # NoRow /\ r.account = live[s].buyer /\ r.version = m.version
         /\ r.version \in Nat /\ r.version <= live[s].version
         /\ r.version = live[s].version => r.status = live[s].status
         /\ rows[s].version <= r.version
<1>. DEFINE s == handler[h].event.sub
            m == handler[h].seen
            g == GraceAfter(s, m.status)
            r == Stored(s, m)
<1>1. /\ live[s].buyer \in accounts /\ userLock[live[s].buyer] = h
      /\ m # NoRow /\ m.account = live[s].buyer
      /\ handler[h].event.version <= m.version /\ m.version <= live[s].version
      /\ rows[s].version <= m.version
      /\ m.version = live[s].version => m.status = live[s].status
  BY DEF MembershipsInv, HandlerOk
<1>2. /\ handler[h].event \in Event /\ handler[h].event.version > 0 /\ s \in Subs
      /\ Account(h) = live[s].buyer
  BY Claimed
<1>3. m \in Row /\ m.version \in Nat
  BY <1>1, BillingTypes DEF HandlerType, Row
<1>4. g \in Graces
  <2>1. rows[s].grace \in Graces
    BY <1>2, BillingTypes DEF NoRow, Row, Graces
  <2>. QED BY <2>1 DEF GraceAfter, Graces
<1>5. r = [m EXCEPT !.grace = g]
  BY DEF Stored
<1>. HIDE DEF g, m, r
<1>6. r \in Row
  BY <1>3, <1>4, <1>5 DEF Row
<1>7. r.account = m.account /\ r.version = m.version /\ r.status = m.status
  BY <1>3, <1>5 DEF Row
<1>8. r # NoRow
  BY <1>6, Distinct
<1>9. /\ handler[h].event.version <= r.version /\ r.version \in Nat /\ r.version <= live[s].version
      /\ r.version = live[s].version => r.status = live[s].status
      /\ rows[s].version <= r.version
  BY <1>1, <1>3, <1>7
<1>. QED BY <1>1, <1>2, <1>6, <1>7, <1>8, <1>9 DEF m, r

LEMMA ApplyStep ==
  ASSUME MembershipsInv, NEW h \in Handlers, Apply(h)
  PROVE  MembershipsInv'
<1>. DEFINE e == handler[h].event
            s == e.sub
            r == Stored(s, handler[h].seen)
<1>1. /\ handler[h].phase = "fetched" /\ rows' = [rows EXCEPT ![s] = r]
      /\ applied' = applied \cup {e}
      /\ userLock' = [userLock EXCEPT ![Account(h)] = Nobody]
      /\ handler' = [handler EXCEPT ![h] = Idle]
      /\ UNCHANGED <<live, accounts, failures>>
  BY DEF Apply
<1>2. /\ s \in Subs /\ live[s].buyer \in accounts /\ userLock[live[s].buyer] = h
      /\ Account(h) = live[s].buyer
      /\ e \in Event /\ e.version > 0 /\ e.version <= r.version
      /\ r \in Row /\ r # NoRow /\ r.account = live[s].buyer
      /\ r.version \in Nat /\ r.version <= live[s].version
      /\ r.version = live[s].version => r.status = live[s].status
      /\ rows[s].version <= r.version
  BY <1>1, StoredRow
<1>. HIDE DEF r
<1>3. /\ rows' \in [Subs -> Row \cup {NoRow}] /\ rows'[s] = r
      /\ \A z \in Subs : z # s => rows'[z] = rows[z]
  BY <1>1, <1>2, BillingTypes
<1>4. /\ handler' \in [Handlers -> HandlerType] /\ HandlerOk(h)'
      /\ \A g \in Handlers : g # h => handler'[g] = handler[g]
  BY <1>1, HandlerIdle
<1>5. userLock' \in [Accounts -> Handlers \cup {Nobody}]
  BY <1>1, BillingTypes
<1>6. BillingTypeOK'
  BY <1>1, <1>2, <1>3, <1>4, <1>5 DEF MembershipsInv, BillingTypeOK, HandlerType, Phases
<1>7. ASSUME NEW z \in Subs PROVE LiveOk(z)' /\ RowOk(z)'
  <2>1. CASE z = s
    <3>1. r.version > 0
      BY <1>2, VersionsAreNumbers
    <3>. QED BY <1>1, <1>2, <1>3, <2>1, <3>1 DEF MembershipsInv, LiveOk, RowOk
  <2>2. CASE z # s
    BY <1>1, <1>3, <2>2 DEF MembershipsInv, LiveOk, RowOk
  <2>. QED BY <2>1, <2>2
<1>8. ASSUME NEW x \in applied' PROVE AppliedOk(x)'
  <2>1. CASE x = e
    <3>1. e.version <= live[s].version /\ r.version >= e.version
      BY <1>2, VersionsAreNumbers
    <3>. QED BY <1>1, <1>2, <1>3, <2>1, <3>1 DEF AppliedOk
  <2>2. CASE x \in applied
    <3>1. AppliedOk(x) /\ x.sub \in Subs /\ x.version \in Nat
      BY <2>2, VersionsAreNumbers DEF MembershipsInv, AppliedOk
    <3>2. rows[x.sub].version >= x.version => rows'[x.sub].version >= x.version
      BY <1>2, <1>3, <3>1, VersionsAreNumbers
    <3>. QED BY <1>1, <3>1, <3>2 DEF AppliedOk
  <2>. QED BY <1>1, <2>1, <2>2
<1>9. ASSUME NEW g \in Handlers, g # h PROVE HandlerOk(g)'
  <2>1. LiveGrows
    BY <1>1, LiveKept
  <2>2. \A a \in Accounts : userLock[a] = g => userLock'[a] = g
    BY <1>1, <1>2, <1>9, BillingTypes
  <2>3. handler[g].phase = "fetched" => handler[g].event.sub # s
    <3>1. handler[g].phase = "fetched" => userLock[live[handler[g].event.sub].buyer] = g
      BY DEF MembershipsInv, HandlerOk
    <3>. QED BY <1>2, <1>9, <3>1
  <2>4. handler[g].phase = "fetched" => handler[g].event.sub \in Subs
    BY Claimed
  <2>. QED BY <1>1, <1>3, <1>4, <1>9, <2>1, <2>2, <2>3, <2>4, BillingTypes, HandlerStands
<1>. QED BY <1>4, <1>6, <1>7, <1>8, <1>9 DEF MembershipsInv

LEMMA GraceEndsStep ==
  ASSUME MembershipsInv, NEW s \in Subs, GraceEnds(s)
  PROVE  MembershipsInv'
<1>. DEFINE r == [rows[s] EXCEPT !.grace = "over"]
<1>1. /\ rows[s].grace = "running"
      /\ UNCHANGED <<live, applied, accounts, userLock, handler, failures>>
  BY DEF GraceEnds
<1>2. rows[s] \in Row
  BY <1>1, BillingTypes DEF NoRow
<1>3. rows' = [rows EXCEPT ![s] = r]
  BY BillingTypes DEF GraceEnds
<1>4. r \in Row
  BY <1>2 DEF Row, Graces
<1>5. r.account = rows[s].account /\ r.version = rows[s].version /\ r.status = rows[s].status
  BY <1>2 DEF Row
<1>. HIDE DEF r
<1>6. /\ rows' \in [Subs -> Row \cup {NoRow}] /\ rows'[s] = r
      /\ \A z \in Subs : z # s => rows'[z] = rows[z]
  BY <1>3, <1>4, BillingTypes
<1>7. r # NoRow /\ rows[s] # NoRow
  BY <1>2, <1>4, Distinct
<1>8. BillingTypeOK'
  BY <1>1, <1>6 DEF MembershipsInv, BillingTypeOK
<1>9. ASSUME NEW z \in Subs
      PROVE  /\ rows'[z].version = rows[z].version /\ rows'[z].account = rows[z].account
             /\ rows'[z].status = rows[z].status /\ (rows'[z] # NoRow <=> rows[z] # NoRow)
  BY <1>5, <1>6, <1>7
<1>10. \A z \in Subs : LiveOk(z)' /\ RowOk(z)'
  BY <1>1, <1>9 DEF MembershipsInv, LiveOk, RowOk
<1>11. ASSUME NEW x \in applied' PROVE AppliedOk(x)'
  <2>1. AppliedOk(x) /\ x.sub \in Subs
    BY <1>1, VersionsAreNumbers DEF MembershipsInv, AppliedOk
  <2>. QED BY <1>1, <1>9, <2>1 DEF AppliedOk
<1>12. ASSUME NEW g \in Handlers PROVE HandlerOk(g)'
  <2>1. LiveGrows
    BY <1>1, LiveKept
  <2>2. handler[g].phase = "fetched" => handler[g].event.sub \in Subs
    BY Claimed
  <2>. QED BY <1>1, <1>9, <2>1, <2>2, BillingTypes, HandlerStands
<1>. QED BY <1>8, <1>10, <1>11, <1>12 DEF MembershipsInv

LEMMA DeleteAccountStep ==
  ASSUME MembershipsInv, NEW a \in Accounts, DeleteAccount(a)
  PROVE  MembershipsInv'
<1>1. /\ userLock[a] = Nobody /\ accounts' = accounts \ {a}
      /\ rows' = [s \in Subs |-> IF rows[s].account = a THEN NoRow ELSE rows[s]]
      /\ UNCHANGED <<live, applied, userLock, handler, failures>>
  BY DEF DeleteAccount
<1>2. rows' \in [Subs -> Row \cup {NoRow}]
  BY <1>1, BillingTypes
<1>3. BillingTypeOK'
  BY <1>1, <1>2 DEF MembershipsInv, BillingTypeOK
<1>4. ASSUME NEW s \in Subs
      PROVE  \/ rows'[s] = rows[s] /\ (rows[s] # NoRow => live[s].buyer # a)
             \/ rows'[s] = NoRow /\ live[s].buyer = a
  <2>1. rows[s] # NoRow => rows[s].account = live[s].buyer
    BY DEF MembershipsInv, RowOk
  <2>2. rows[s] = NoRow => rows[s].account # a
    BY Distinct
  <2>. QED BY <1>1, <2>1, <2>2
<1>5. \A s \in Subs : LiveOk(s)' /\ RowOk(s)'
  BY <1>1, <1>4 DEF MembershipsInv, LiveOk, RowOk
<1>6. ASSUME NEW x \in applied' PROVE AppliedOk(x)'
  <2>1. AppliedOk(x) /\ x.sub \in Subs
    BY <1>1, VersionsAreNumbers DEF MembershipsInv, AppliedOk
  <2>2. rows'[x.sub] = rows[x.sub] \/ live[x.sub].buyer = a
    BY <1>4, <2>1
  <2>. QED BY <1>1, <2>1, <2>2 DEF AppliedOk
<1>7. ASSUME NEW g \in Handlers PROVE HandlerOk(g)'
  <2>1. LiveGrows
    BY <1>1, LiveKept
  <2>2. \A b \in Accounts : userLock[b] = g => b # a
    BY <1>1, Distinct
  <2>3. handler[g].phase = "fetched" =>
          /\ handler[g].event.sub \in Subs
          /\ live[handler[g].event.sub].buyer \in Accounts
          /\ userLock[live[handler[g].event.sub].buyer] = g
    BY Claimed DEF MembershipsInv, HandlerOk
  <2>4. handler[g].phase = "fetched" => rows'[handler[g].event.sub] = rows[handler[g].event.sub]
    BY <1>4, <2>2, <2>3
  <2>5. \A b \in Accounts : userLock[b] = g => userLock'[b] = g /\ (b \in accounts => b \in accounts')
    BY <1>1, <2>2
  <2>6. live' \in [Subs -> Subscription] /\ handler'[g] = handler[g] /\ accounts' \subseteq accounts
    BY <1>1, BillingTypes
  <2>. QED BY <2>1, <2>4, <2>5, <2>6, HandlerStands
<1>. QED BY <1>3, <1>5, <1>6, <1>7 DEF MembershipsInv

----------------------------------------------------------------------------
(* The invariant, and the theorems.                                         *)

LEMMA BillingStarts == BillingInit => MembershipsInv
<1>. SUFFICES ASSUME BillingInit PROVE MembershipsInv
  OBVIOUS
<1>1. BillingTypeOK
  BY Distinct DEF BillingInit, BillingTypeOK, Subscription, Statuses, HandlerType, Phases
<1>2. \A s \in Subs : LiveOk(s) /\ RowOk(s)
  BY Distinct DEF BillingInit, LiveOk, RowOk
<1>3. \A h \in Handlers : HandlerOk(h)
  BY Distinct DEF BillingInit, HandlerOk
<1>4. \A e \in applied : AppliedOk(e)
  BY DEF BillingInit
<1>. QED BY <1>1, <1>2, <1>3, <1>4 DEF MembershipsInv

LEMMA BillingStep == MembershipsInv /\ [BillingNext]_billingVars => MembershipsInv'
<1>. SUFFICES ASSUME MembershipsInv, [BillingNext]_billingVars PROVE MembershipsInv'
  OBVIOUS
<1>1. ASSUME NEW h \in Handlers, HandlerStep(h) PROVE MembershipsInv'
  BY <1>1, BindStep, LockUserStep, AccountMissingStep, FetchStep, ApplyStep, LogUnmatchedStep,
     ConflictStep DEF HandlerStep
<1>2. CASE UNCHANGED billingVars
  BY <1>2 DEF billingVars, MembershipsInv, BillingTypeOK, LiveOk, RowOk, AppliedOk, HandlerOk
<1>. QED BY <1>1, <1>2, StartCheckoutStep, CompleteCheckoutStep, ClearMetadataStep, GraceEndsStep,
            ChangeStep, DeleteAccountStep, ReceiveStep, FailStep DEF BillingNext

LEMMA BillingAlways == BillingSpec => []MembershipsInv
BY BillingStarts, BillingStep, PTL DEF BillingSpec

(* When every event of a subscription is logged, its row says what Stripe   *)
(* says, and it is there if the buyer's account is: each event logged is in *)
(* the row, or was dismissed because the account is gone (memberships.py,   *)
(* "nothing is logged, so the retry applies").                              *)
THEOREM RowsSettle == BillingSpec => []SettledRowsAreCurrent
<1>1. MembershipsInv => SettledRowsAreCurrent
  <2>. SUFFICES ASSUME MembershipsInv, NEW s \in Subs,
                       \A n \in 1 .. live[s].version : [sub |-> s, version |-> n] \in applied
                PROVE  /\ rows[s] # NoRow => rows[s].version = live[s].version
                                             /\ rows[s].status = live[s].status
                       /\ live[s].version > 0 /\ live[s].buyer \in accounts => rows[s] # NoRow
    BY DEF SettledRowsAreCurrent
  <2>1. live[s].version \in Nat /\ rows[s].version \in Nat
    BY VersionsAreNumbers
  <2>2. live[s].version > 0 =>
          rows[s].version >= live[s].version \/ live[s].buyer \notin accounts
    <3>. SUFFICES ASSUME live[s].version > 0
                  PROVE  rows[s].version >= live[s].version \/ live[s].buyer \notin accounts
      OBVIOUS
    <3>. DEFINE e == [sub |-> s, version |-> live[s].version]
    <3>1. e \in applied /\ e.sub = s /\ e.version = live[s].version
      BY <2>1
    <3>. QED BY <3>1 DEF MembershipsInv, AppliedOk
  <2>3. rows[s] # NoRow =>
          /\ live[s].buyer \in accounts /\ rows[s].version > 0 /\ rows[s].version <= live[s].version
          /\ rows[s].version = live[s].version => rows[s].status = live[s].status
    BY DEF MembershipsInv, RowOk
  <2>4. ASSUME rows[s] # NoRow
        PROVE  rows[s].version = live[s].version /\ rows[s].status = live[s].status
    BY <2>1, <2>2, <2>3, <2>4
  <2>5. ASSUME live[s].version > 0, live[s].buyer \in accounts PROVE rows[s] # NoRow
    BY <2>1, <2>2, <2>5, Distinct
  <2>. QED BY <2>4, <2>5
<1>. QED BY <1>1, BillingAlways, PTL

LEMMA RowsStep ==
  ASSUME MembershipsInv, [BillingNext]_billingVars, NEW s \in Subs, rows[s] # NoRow, rows'[s] # NoRow
  PROVE  rows'[s].version >= rows[s].version /\ rows'[s].account = rows[s].account
<1>1. rows[s].version \in Nat
  BY VersionsAreNumbers
<1>2. CASE rows'[s] = rows[s]
  BY <1>1, <1>2
<1>3. ASSUME NEW h \in Handlers, Apply(h)
      PROVE  rows'[s].version >= rows[s].version /\ rows'[s].account = rows[s].account
  <2>. DEFINE z == handler[h].event.sub
              r == Stored(z, handler[h].seen)
  <2>1. rows' = [rows EXCEPT ![z] = r] /\ handler[h].phase = "fetched"
    BY <1>3 DEF Apply
  <2>2. r.account = live[z].buyer /\ r.version \in Nat /\ rows[z].version <= r.version
    BY <2>1, StoredRow
  <2>3. rows[s].account = live[s].buyer
    BY DEF MembershipsInv, RowOk
  <2>. HIDE DEF r
  <2>4. CASE s = z
    <3>1. rows'[s] = r
      BY <2>1, <2>4, BillingTypes
    <3>. QED BY <1>1, <2>2, <2>3, <2>4, <3>1
  <2>5. CASE s # z
    BY <1>2, <2>1, <2>5, BillingTypes
  <2>. QED BY <2>4, <2>5
<1>4. ASSUME NEW z \in Subs, GraceEnds(z)
      PROVE  rows'[s].version >= rows[s].version /\ rows'[s].account = rows[s].account
  <2>1. rows[s] \in Row
    BY BillingTypes
  <2>2. rows'[s] = rows[s] \/ rows'[s] = [rows[s] EXCEPT !.grace = "over"]
    BY <1>4, BillingTypes DEF GraceEnds
  <2>3. rows'[s].version = rows[s].version /\ rows'[s].account = rows[s].account
    BY <2>1, <2>2 DEF Row
  <2>. QED BY <1>1, <2>3
<1>5. ASSUME NEW a \in Accounts, DeleteAccount(a) PROVE rows'[s] = rows[s]
  BY <1>5 DEF DeleteAccount
<1>6. ASSUME NEW h \in Handlers, HandlerStep(h) \/ Fail(h)
      PROVE  rows'[s] = rows[s] \/ Apply(h)
  BY <1>6 DEF HandlerStep, Bind, LockUser, AccountMissing, Fetch, LogUnmatched, Conflict, Fail
<1>. QED BY <1>2, <1>3, <1>4, <1>5, <1>6
  DEF BillingNext, billingVars, StartCheckout, CompleteCheckout, ClearMetadata, Change, Receive

(* No delivery takes a row back to an older state of its subscription, or   *)
(* to another account: a handler stores what it has read while it holds the *)
(* account's lock, and only the holder stores rows of that account          *)
(* (memberships.py, "No lost update", "Bound once").                        *)
THEOREM RowsOnlyAdvance == BillingSpec => RowsNeverGoBack
<1>1. MembershipsInv /\ [BillingNext]_billingVars =>
        [\A s \in Subs : rows[s] # NoRow /\ rows'[s] # NoRow =>
           rows'[s].version >= rows[s].version /\ rows'[s].account = rows[s].account]_billingVars
  BY RowsStep
<1>. QED BY <1>1, BillingAlways, PTL DEF BillingSpec, RowsNeverGoBack


(* The types of subscriptions, of their rows and of the handlers            *)
(* (memberships.py).                                                        *)
THEOREM BillingTyped == BillingSpec => []BillingTypeOK
<1>1. MembershipsInv => BillingTypeOK
  BY DEF MembershipsInv
<1>. QED BY <1>1, BillingAlways, PTL
=============================================================================
