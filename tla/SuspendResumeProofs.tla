------------------------- MODULE SuspendResumeProofs -------------------------
(***************************************************************************)
(* Proofs about the Suspend/Resume handshake, for any set of collectors,   *)
(* any backoff bounds, with and without the silence watchdog and handle    *)
(* leaks.                                                                  *)
(***************************************************************************)
EXTENDS SuspendResume, CollectorLoopProofs, TLAPS

USE CollectorAssumption

\* Whoever is past the call of Suspend has the collector held.
CallerHolds == \A c \in Coll : caller[c] # "idle" => held[c]

\* The inductive invariant of the handshake.
HandshakeInv ==
    /\ TypeOK
    /\ PublishedInSession
    /\ CallerHolds
    /\ NoOrphanHold
    /\ OwnerSilencesCollector

\* It holds to begin with.
LEMMA InitHandshake == Init => HandshakeInv
  BY DEF Init, CollectorInit, HandshakeInv, TypeOK, CollectorTypeOK, PC, Reasons,
         PublishedInSession, InSession, CallerHolds, NoOrphanHold,
         OwnerSilencesCollector, Owns

\* Every step keeps the inductive invariant.
LEMMA StepHandshake == HandshakeInv /\ [Next]_vars => HandshakeInv'
<1> SUFFICES ASSUME HandshakeInv, [Next]_vars
             PROVE  HandshakeInv'
  OBVIOUS
<1> USE DEF HandshakeInv
<1>1. ASSUME NEW c \in Coll, Loop(c) \/ Disturbance(c)
      PROVE  HandshakeInv'
  <2>1. CollectorStep(c) \/ SilentTurn(c) \/ ReadError(c)
    BY <1>1 DEF Loop, Disturbance
  <2>2. UNCHANGED <<caller, reopening>>
    BY <1>1 DEF Loop, Disturbance
  <2>3. CollectorTypeOK'
    BY <2>1, StepTypes DEF TypeOK
  <2>4. /\ UNCHANGED held
        /\ PublishedInSession'
        /\ \A d \in Coll : pc'[d] = "reading" => pc[d] = "reading" \/ ~held[d]
    BY <2>1, StepEffect DEF TypeOK
  <2>5. QED
    BY <2>2, <2>3, <2>4 DEF TypeOK, CallerHolds, NoOrphanHold,
       OwnerSilencesCollector, Owns
<1>2. ASSUME NEW c \in Coll, Calls(c)
      PROVE  HandshakeInv'
  <2> USE DEF TypeOK, CollectorTypeOK, PublishedInSession, InSession, CallerHolds,
          NoOrphanHold, OwnerSilencesCollector, Owns, Becomes, loopVars, srVars
  <2>1. CASE CallSuspend(c)
    BY <2>1 DEF CallSuspend, SuspendBegin
  <2>2. CASE SuspendTrue(c)
    BY <2>2 DEF SuspendTrue, SuspendConfirm
  <2>3. CASE SuspendFalse(c)
    BY <2>3 DEF SuspendFalse, SuspendTimeout
  <2>4. CASE StartFlash(c)
    BY <2>4 DEF StartFlash, SetFlashing
  <2>5. CASE EndFlash(c)
    BY <2>5 DEF EndFlash, SetFlashing
  <2>6. CASE CallResume(c)
    BY <2>6 DEF CallResume, Resume
  <2>7. CASE CallReopen(c)
    BY <2>7 DEF CallReopen, ReopenRequest
  <2>8. CASE FinishReopen(c)
    BY <2>8 DEF FinishReopen, ReopenClose
  <2>9. CASE CallStop(c)
    BY <2>9 DEF CallStop, Stop
  <2>10. CASE PauseChanges(c)
    BY <2>10 DEF PauseChanges
  <2>11. QED
    BY <1>2, <2>1, <2>2, <2>3, <2>4, <2>5, <2>6, <2>7, <2>8, <2>9, <2>10 DEF Calls
<1>3. CASE UNCHANGED vars
  BY <1>3 DEF vars, collectorVars, loopVars, srVars, TypeOK, CollectorTypeOK,
     PublishedInSession, CallerHolds, NoOrphanHold, OwnerSilencesCollector, Owns
<1>4. QED
  BY <1>1, <1>2, <1>3 DEF Next

\* The inductive invariant is an invariant.
THEOREM Handshake == Spec => []HandshakeInv
<1>1. QED
  BY InitHandshake, StepHandshake, PTL DEF Spec

\* The variables keep their types.
THEOREM TypeCorrect == Spec => []TypeOK
<1>1. HandshakeInv => TypeOK
  BY DEF HandshakeInv
<1>2. QED
  BY <1>1, Handshake, PTL

\* Between Suspend's true and Resume no collector reads its port.
THEOREM OwnerIsAlone == Spec => []OwnerSilencesCollector
<1>1. HandshakeInv => OwnerSilencesCollector
  BY DEF HandshakeInv
<1>2. QED
  BY <1>1, Handshake, PTL

\* A Suspend that gave up leaves no hold behind.
THEOREM RollbackLeavesNoHold == Spec => []NoOrphanHold
<1>1. HandshakeInv => NoOrphanHold
  BY DEF HandshakeInv
<1>2. QED
  BY <1>1, Handshake, PTL

\* The sleep after a session that had the port open is the shortest one.
THEOREM BackoffIsFresh == Spec => []FreshBackoff
<1>1. Init => FreshBackoff
  BY DEF Init, CollectorInit, FreshBackoff
<1>2. TypeOK /\ FreshBackoff /\ [Next]_vars => FreshBackoff'
  <2> SUFFICES ASSUME TypeOK, FreshBackoff, [Next]_vars
               PROVE  FreshBackoff'
    OBVIOUS
  <2> USE DEF TypeOK, CollectorTypeOK, FreshBackoff, Goto, EndSession
  <2>1. ASSUME NEW c \in Coll, CollectorStep(c)
        PROVE  FreshBackoff'
    <3>1. CASE BackOff(c)
      BY <3>1 DEF BackOff, BackoffAfter
    <3>2. CASE LoopHead(c) \/ WaitHeldCleared(c) \/ LeaveLoop(c) \/ GoRound(c) \/ Sleep(c)
      BY <3>2 DEF LoopHead, WaitHeldCleared, LeaveLoop, GoRound, Sleep
    <3>3. CASE OpenOk(c) \/ OpenFail(c) \/ PublishOpen(c) \/ PublishClosed(c)
      BY <3>3 DEF OpenOk, OpenFail, PublishOpen, PublishClosed
    <3>4. CASE Recheck(c) \/ ReadTurn(c) \/ ClosePort(c)
      BY <3>4 DEF Recheck, ReadTurn, ClosePort
    <3>5. QED
      BY <2>1, <3>1, <3>2, <3>3, <3>4 DEF CollectorStep
  <2>2. ASSUME NEW c \in Coll, SilentTurn(c) \/ ReadError(c)
        PROVE  FreshBackoff'
    BY <2>2 DEF SilentTurn, ReadError
  <2>3. ASSUME NEW c \in Coll, Calls(c)
        PROVE  UNCHANGED <<pc, reason, nap>>
    BY <2>3 DEF Calls, CallSuspend, SuspendBegin, SuspendTrue, SuspendConfirm,
       SuspendFalse, SuspendTimeout, StartFlash, EndFlash, SetFlashing, CallResume,
       Resume, CallReopen, ReopenRequest, FinishReopen, ReopenClose, CallStop, Stop,
       PauseChanges, loopVars
  <2>4. CASE UNCHANGED vars
    BY <2>4 DEF vars, collectorVars, loopVars
  <2>5. QED
    BY <2>1, <2>2, <2>3, <2>4 DEF Next, Loop, Disturbance
<1>3. QED
  BY <1>1, <1>2, TypeCorrect, PTL DEF Spec

\* The handshake implements the contract: at no time are the collector and the
\* caller users of the same port, and neither takes it from the other.
THEOREM ImplementsOwnership == Spec => OwnershipSpec
<1>1. Init => Ownership!Init
  BY DEF Init, CollectorInit, Ownership!Init, Owner, Owns
<1>2. HandshakeInv /\ HandshakeInv' /\ [Next]_vars => [Ownership!Next]_Owner
  <2> SUFFICES ASSUME HandshakeInv, HandshakeInv', [Next]_vars
               PROVE  [Ownership!Next]_Owner
    OBVIOUS
  <2> USE DEF HandshakeInv, TypeOK, CollectorTypeOK, OwnerSilencesCollector
  <2>1. ASSUME NEW c \in Coll,
               \A d \in Coll \ {c} : caller'[d] = caller[d] /\ pc'[d] = pc[d],
               Owner'[c] = Owner[c] \/ Owner[c] = "free" \/ Owner'[c] = "free"
        PROVE  [Ownership!Next]_Owner
    <3>1. Owner' = [Owner EXCEPT ![c] = Owner'[c]]
      BY <2>1 DEF Owner, Owns
    <3>2. CASE Owner'[c] = Owner[c]
      <4>1. DOMAIN Owner = Coll /\ Owner = [d \in Coll |-> Owner[d]]
        BY DEF Owner
      <4>2. Owner' = Owner
        BY <3>1, <3>2, <4>1
      <4>3. QED
        BY <4>2
    <3>3. CASE Owner[c] = "free" /\ Owner'[c] # "free"
      <4>1. Owner'[c] \in {"collector", "caller"}
        BY <3>3 DEF Owner
      <4>2. Ownership!Takes(c, Owner'[c])
        BY <3>1, <3>3 DEF Ownership!Takes
      <4>3. QED
        BY <4>1, <4>2 DEF Ownership!Next
    <3>4. CASE Owner[c] # "free" /\ Owner'[c] = "free"
      BY <3>1, <3>4 DEF Ownership!Yields, Ownership!Next
    <3>5. QED
      BY <2>1, <3>2, <3>3, <3>4
  <2>2. ASSUME NEW c \in Coll, Loop(c) \/ Disturbance(c)
        PROVE  [Ownership!Next]_Owner
    <3>1. \A d \in Coll \ {c} : caller'[d] = caller[d] /\ pc'[d] = pc[d]
      BY <2>2 DEF Loop, Disturbance, CollectorStep, LoopHead, WaitHeldCleared, LeaveLoop,
         GoRound, BackOff, Sleep, OpenOk, OpenFail, PublishOpen, Recheck, ReadTurn,
         ClosePort, PublishClosed, SilentTurn, ReadError, Goto, EndSession
    <3>2. Owns(c)' <=> Owns(c)
      BY <2>2 DEF Loop, Disturbance, Owns
    <3>3. Owner'[c] = Owner[c] \/ Owner[c] = "free" \/ Owner'[c] = "free"
      BY <3>2 DEF Owner
    <3>4. QED
      BY <2>1, <3>1, <3>3
  <2>3. ASSUME NEW c \in Coll, Calls(c)
        PROVE  [Ownership!Next]_Owner
    <3>1. /\ UNCHANGED pc
          /\ \A d \in Coll \ {c} : caller'[d] = caller[d]
      BY <2>3 DEF Calls, CallSuspend, SuspendBegin, SuspendTrue, SuspendConfirm,
         SuspendFalse, SuspendTimeout, StartFlash, EndFlash, SetFlashing, CallResume,
         Resume, CallReopen, ReopenRequest, FinishReopen, ReopenClose, CallStop, Stop,
         PauseChanges, loopVars, Becomes
    <3>2. pc[c] = "reading" => ~Owns(c) /\ ~Owns(c)'
      BY <3>1
    <3>3. Owner'[c] = Owner[c] \/ Owner[c] = "free" \/ Owner'[c] = "free"
      BY <3>1, <3>2 DEF Owner
    <3>4. QED
      BY <2>1, <3>1, <3>3
  <2>4. CASE UNCHANGED vars
    BY <2>4 DEF vars, collectorVars, loopVars, Owner, Owns
  <2>5. QED
    BY <2>2, <2>3, <2>4 DEF Next
<1>3. QED
  BY <1>1, <1>2, Handshake, PTL DEF Spec, OwnershipSpec, Ownership!Spec
=============================================================================
