------------------------- MODULE CollectorLoopProofs -------------------------
(***************************************************************************)
(* Lemmas about the steps of a collector and the methods called on it,     *)
(* whoever calls them: what the proofs of SuspendResume and PortHandover   *)
(* have in common.                                                         *)
(***************************************************************************)
EXTENDS CollectorLoop, TLAPS

USE CollectorAssumption

\* portOpen is true exactly between the publication of an opened port and the
\* last deferred call of the session.
InSession == {"recheck", "reading", "closing", "closed"}
PublishedInSession == \A c \in Coll : portOpen[c] <=> pc[c] \in InSession

\* Doubling a backoff gives a natural number.
LEMMA DoubleIsNat == \A b \in Nat : Double(b) \in Nat
  BY DEF Double

\* A step of the collector's goroutine keeps the types.
LEMMA StepTypes ==
  ASSUME CollectorTypeOK, NEW c \in Coll,
         CollectorStep(c) \/ SilentTurn(c) \/ ReadError(c)
  PROVE  CollectorTypeOK'
<1> USE DEF CollectorTypeOK, PC, Reasons, srVars, Goto, EndSession
<1>1. CASE LoopHead(c)
  BY <1>1 DEF LoopHead
<1>2. CASE WaitHeldCleared(c)
  BY <1>2 DEF WaitHeldCleared
<1>3. BackoffAfter(c) \in Nat
  BY DEF BackoffAfter
<1>4. CASE LeaveLoop(c)
  BY <1>3, <1>4 DEF LeaveLoop
<1>5. CASE GoRound(c)
  BY <1>3, <1>5 DEF GoRound
<1>6. CASE BackOff(c)
  BY <1>3, <1>6, DoubleIsNat DEF BackOff
<1>7. CASE Sleep(c)
  BY <1>7 DEF Sleep
<1>8. CASE OpenOk(c)
  BY <1>8 DEF OpenOk
<1>9. CASE OpenFail(c)
  BY <1>9 DEF OpenFail
<1>10. CASE PublishOpen(c)
  BY <1>10 DEF PublishOpen
<1>11. CASE Recheck(c)
  BY <1>11 DEF Recheck
<1>12. CASE ReadTurn(c)
  BY <1>12 DEF ReadTurn
<1>13. CASE ClosePort(c)
  BY <1>13 DEF ClosePort
<1>14. CASE PublishClosed(c)
  BY <1>14 DEF PublishClosed
<1>15. CASE SilentTurn(c)
  BY <1>15 DEF SilentTurn
<1>16. CASE ReadError(c)
  BY <1>16 DEF ReadError
<1>17. QED
  BY <1>1, <1>2, <1>4, <1>5, <1>6, <1>7, <1>8, <1>9, <1>10, <1>11, <1>12,
     <1>13, <1>14, <1>15, <1>16 DEF CollectorStep

\* A step of the goroutine leaves held alone, publishes portOpen exactly on the
\* way in and out of a session, and enters the read loop only when not held.
LEMMA StepEffect ==
  ASSUME CollectorTypeOK, PublishedInSession, NEW c \in Coll,
         CollectorStep(c) \/ SilentTurn(c) \/ ReadError(c)
  PROVE  /\ UNCHANGED held
         /\ PublishedInSession'
         /\ \A d \in Coll : pc'[d] = "reading" => pc[d] = "reading" \/ ~held[d]
<1> USE DEF CollectorTypeOK, PublishedInSession, InSession, srVars, Goto, EndSession
<1>1. CASE LoopHead(c)
  BY <1>1 DEF LoopHead
<1>2. CASE WaitHeldCleared(c)
  BY <1>2 DEF WaitHeldCleared
<1>3. CASE LeaveLoop(c)
  BY <1>3 DEF LeaveLoop
<1>4. CASE GoRound(c)
  BY <1>4 DEF GoRound
<1>5. CASE BackOff(c)
  BY <1>5 DEF BackOff
<1>6. CASE Sleep(c)
  BY <1>6 DEF Sleep
<1>7. CASE OpenOk(c)
  BY <1>7 DEF OpenOk
<1>8. CASE OpenFail(c)
  BY <1>8 DEF OpenFail
<1>9. CASE PublishOpen(c)
  BY <1>9 DEF PublishOpen
<1>10. CASE Recheck(c)
  BY <1>10 DEF Recheck, Wanted
<1>11. CASE ReadTurn(c)
  BY <1>11 DEF ReadTurn
<1>12. CASE ClosePort(c)
  BY <1>12 DEF ClosePort
<1>13. CASE PublishClosed(c)
  BY <1>13 DEF PublishClosed
<1>14. CASE SilentTurn(c)
  BY <1>14 DEF SilentTurn
<1>15. CASE ReadError(c)
  BY <1>15 DEF ReadError
<1>16. QED
  BY <1>1, <1>2, <1>3, <1>4, <1>5, <1>6, <1>7, <1>8, <1>9, <1>10, <1>11, <1>12,
     <1>13, <1>14, <1>15 DEF CollectorStep

\* The methods keep the types too, and leave pc alone; only ReopenClose
\* touches the handle.
LEMMA MethodTypes ==
  ASSUME CollectorTypeOK, NEW c,
         \/ SuspendBegin(c) \/ SuspendConfirm(c) \/ SuspendTimeout(c) \/ Resume(c)
         \/ SetFlashing(c, TRUE) \/ SetFlashing(c, FALSE)
         \/ ReopenRequest(c) \/ ReopenClose(c)
  PROVE  CollectorTypeOK' /\ UNCHANGED <<pc, portOpen, stop, paused>>
<1> USE DEF CollectorTypeOK, loopVars, srVars
<1>1. CASE SuspendBegin(c)
  BY <1>1 DEF SuspendBegin
<1>2. CASE SuspendConfirm(c)
  BY <1>2 DEF SuspendConfirm
<1>3. CASE SuspendTimeout(c)
  BY <1>3 DEF SuspendTimeout
<1>4. CASE Resume(c)
  BY <1>4 DEF Resume
<1>5. CASE SetFlashing(c, TRUE) \/ SetFlashing(c, FALSE)
  BY <1>5 DEF SetFlashing
<1>6. CASE ReopenRequest(c)
  BY <1>6 DEF ReopenRequest
<1>7. CASE ReopenClose(c)
  BY <1>7 DEF ReopenClose
<1> HIDE DEF CollectorTypeOK
<1>8. QED
  BY <1>1, <1>2, <1>3, <1>4, <1>5, <1>6, <1>7
=============================================================================
