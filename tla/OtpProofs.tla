----------------------------- MODULE OtpProofs -----------------------------
(***************************************************************************)
(* Theorems of OtpVerification, for any set of handlers, any number of     *)
(* attempts and codes, and any threshold and cooldown of the breaker.      *)
(*                                                                         *)
(* VerifiedWasAccepted is not inductive alone: a row becomes VERIFIED in a *)
(* step of its own, so what a handler is about to write (MarksAccepted)    *)
(* has to be accepted already, and has to be a row of the table.           *)
(* GuessesBounded needs an account of the guesses, kept below (Budget).    *)
(***************************************************************************)
EXTENDS OtpVerification, SequenceTheorems, FiniteSetTheorems, TLAPS

RowsExist ==
    \A h \in Handlers :
        job[h].pc \in {"verify", "verifying", "miss", "mark"} => job[h].row \in DOMAIN otp

MarksAccepted ==
    \A h \in Handlers :
        job[h].pc = "mark" /\ job[h].status = "VERIFIED" => job[h].row \in accepted

OtpInv ==
    /\ TypeOK
    /\ RowsExist
    /\ MarksAccepted
    /\ VerifiedWasAccepted

-----------------------------------------------------------------------------
(* The breaker. *)

LEMMA ClosedIsTyped == BreakerRestart => BreakerTypeOK'
<1>1. Closed \in Breaker
  BY BreakerAssumption DEF Closed, Breaker
<1> QED BY <1>1 DEF BreakerRestart, BreakerTypeOK

\* Each report to the breaker, and each tick, leaves a breaker of the type.
LEMMA BreakerType ==
    ASSUME BreakerTypeOK, NEW h \in Handlers,
           \/ CallStart(h) \/ CallRefused(h) \/ CallOk(h)
           \/ CallFailed(h) \/ CallRejected(h) \/ BreakerTick \/ BreakerRestart
    PROVE  BreakerTypeOK'
<1> USE BreakerAssumption DEF BreakerTypeOK, Breaker
<1>1. CASE CallStart(h)
  BY <1>1 DEF CallStart
<1>2. CASE CallRefused(h)
  BY <1>2 DEF CallRefused, breakerVars
<1>3. CASE CallOk(h)
  BY <1>3 DEF CallOk
<1>4. CASE CallFailed(h)
  BY <1>4 DEF CallFailed, OnFailure
<1>5. CASE CallRejected(h)
  BY <1>5 DEF CallRejected
<1>6. CASE BreakerTick
  BY <1>6 DEF BreakerTick
<1>7. CASE BreakerRestart
  BY <1>7, ClosedIsTyped
<1> QED BY <1>1, <1>2, <1>3, <1>4, <1>5, <1>6, <1>7

\* No report other than a failure moves a breaker that has never seen one.
LEMMA BreakerStaysClosed ==
    ASSUME NoFaultNoTrip, NEW h,
           \/ CallStart(h) \/ CallRefused(h) \/ CallOk(h)
           \/ CallFailed(h) \/ CallRejected(h) \/ BreakerTick \/ BreakerRestart
    PROVE  NoFaultNoTrip'
<1> USE DEF NoFaultNoTrip, Closed
<1>1. CASE CallStart(h)
  BY <1>1 DEF CallStart
<1>2. CASE CallRefused(h)
  BY <1>2 DEF CallRefused, breakerVars
<1>3. CASE CallOk(h)
  BY <1>3 DEF CallOk
<1>4. CASE CallFailed(h)
  BY <1>4 DEF CallFailed
<1>5. CASE CallRejected(h)
  BY <1>5 DEF CallRejected
<1>6. CASE BreakerTick
  BY <1>6 DEF BreakerTick
<1>7. CASE BreakerRestart
  BY <1>7 DEF BreakerRestart
<1> QED BY <1>1, <1>2, <1>3, <1>4, <1>5, <1>6, <1>7

\* During a cooldown no report takes the breaker out of OPEN.
LEMMA BreakerStaysOpen ==
    ASSUME BreakerTypeOK, NEW h, breaker.state = "OPEN", breaker.wait > 0,
           \/ CallStart(h) \/ CallRefused(h) \/ CallOk(h)
           \/ CallFailed(h) \/ CallRejected(h) \/ BreakerTick
    PROVE  breaker'.state = "OPEN"
<1> USE DEF BreakerTypeOK, Breaker
<1>1. CASE CallStart(h)
  BY <1>1 DEF CallStart, CanExecute
<1>2. CASE CallRefused(h)
  BY <1>2 DEF CallRefused, breakerVars
<1>3. CASE CallOk(h)
  BY <1>3 DEF CallOk
<1>4. CASE CallFailed(h)
  BY <1>4 DEF CallFailed, OnFailure
<1>5. CASE CallRejected(h)
  BY <1>5 DEF CallRejected
<1>6. CASE BreakerTick
  BY <1>6 DEF BreakerTick
<1> QED BY <1>1, <1>2, <1>3, <1>4, <1>5, <1>6

\* What a step of the handlers does to the breaker is one of its reports.
LEMMA StepIsReport ==
    ASSUME [Next]_vars
    PROVE  \/ UNCHANGED breakerVars
           \/ BreakerTick \/ BreakerRestart
           \/ \E h \in Handlers :
                 \/ CallStart(h) \/ CallRefused(h) \/ CallOk(h)
                 \/ CallFailed(h) \/ CallRejected(h)
<1>1. CASE UNCHANGED vars
  BY <1>1 DEF vars, breakerVars
<1>2. CASE Tick
  BY <1>2 DEF Tick
<1>0. CASE ReplicaDies
  BY <1>0 DEF ReplicaDies
<1>3. ASSUME NEW h \in Handlers,
             SendOtp(h) \/ SendAnswered(h) \/ CreateCode(h) \/ VerifyRead(h)
      PROVE  \/ UNCHANGED breakerVars
             \/ CallStart(h) \/ CallRefused(h) \/ CallOk(h)
             \/ CallFailed(h) \/ CallRejected(h)
  BY <1>3 DEF SendOtp, SendAnswered, CreateCode, VerifyRead
<1>4. ASSUME NEW h \in Handlers,
             \/ VerifyCall(h) \/ VerifyAnswered(h) \/ VerifyMiss(h)
             \/ VerifyMark(h) \/ StatementThrows(h) \/ OtherCall(h) \/ OtherAnswered(h)
      PROVE  \/ UNCHANGED breakerVars
             \/ CallStart(h) \/ CallRefused(h) \/ CallOk(h)
             \/ CallFailed(h) \/ CallRejected(h)
  BY <1>4 DEF VerifyCall, VerifyAnswered, VerifyMiss, VerifyMark, StatementThrows,
              OtherCall, OtherAnswered
<1> QED BY <1>0, <1>1, <1>2, <1>3, <1>4 DEF Next

LEMMA InitBreakerType == BreakerInit => BreakerTypeOK
<1> SUFFICES ASSUME BreakerInit PROVE BreakerTypeOK
  OBVIOUS
<1>1. Closed \in Breaker
  BY BreakerAssumption DEF Closed, Breaker
<1> QED BY <1>1 DEF BreakerInit, BreakerTypeOK

LEMMA TypedBreaker == Spec => []BreakerTypeOK
<1>1. Init => BreakerTypeOK
  BY InitBreakerType DEF Init
<1>2. BreakerTypeOK /\ [Next]_vars => BreakerTypeOK'
  <2>1. BreakerTypeOK /\ UNCHANGED breakerVars => BreakerTypeOK'
    BY DEF breakerVars, BreakerTypeOK
  <2>2. BreakerTypeOK /\ BreakerTick => BreakerTypeOK'
    BY BreakerAssumption DEF BreakerTick, BreakerTypeOK, Breaker
  <2> QED BY <2>1, <2>2, ClosedIsTyped, StepIsReport, BreakerType
<1> QED BY <1>1, <1>2, PTL DEF Spec

\* Refused cards and wrong codes alone never open the circuit
\* (gatewayClient.js:104-111).
THEOREM OnlyFaultsTrip == Spec => []NoFaultNoTrip
<1>1. Init => NoFaultNoTrip
  BY DEF Init, BreakerInit, NoFaultNoTrip
<1>2. NoFaultNoTrip /\ [Next]_vars => NoFaultNoTrip'
  <2>1. NoFaultNoTrip /\ UNCHANGED breakerVars => NoFaultNoTrip'
    BY DEF breakerVars, NoFaultNoTrip
  <2>2. BreakerRestart => NoFaultNoTrip'
    BY DEF BreakerRestart, NoFaultNoTrip, Closed
  <2> QED BY <2>1, <2>2, StepIsReport, BreakerStaysClosed
<1> QED BY <1>1, <1>2, PTL DEF Spec

\* An open circuit refuses calls for its whole cooldown, whatever answers of
\* earlier calls still come in (gatewayClient.js:15-39).
THEOREM CooldownServed == Spec => CooldownIsServed
<1>1. BreakerTypeOK /\ [Next]_vars
        => [breaker.state = "OPEN" /\ breaker.wait > 0
              => breaker'.state = "OPEN" \/ BreakerRestart]_breakerVars
  <2> SUFFICES ASSUME BreakerTypeOK, [Next]_vars, breaker.state = "OPEN", breaker.wait > 0
               PROVE  breaker'.state = "OPEN" \/ BreakerRestart \/ UNCHANGED breakerVars
    OBVIOUS
  <2> QED BY StepIsReport, BreakerStaysOpen
<1> QED BY <1>1, TypedBreaker, PTL DEF Spec, CooldownIsServed
-----------------------------------------------------------------------------
(* The codes. *)

LEMMA InitOtpInv == Init => OtpInv
<1> SUFFICES ASSUME Init PROVE OtpInv
  OBVIOUS
<1>1. BreakerTypeOK
  BY InitBreakerType DEF Init
<1>2. TypeOK
  <2>1. otp \in Seq(OtpRow) /\ Len(otp) <= MaxCodes /\ accepted \in SUBSET DOMAIN otp
    BY OtpAssumption DEF Init
  <2>2. job \in [Handlers -> Job] /\ asked \in [Rows -> Nat] /\ lost \in [Rows -> Nat]
    BY DEF Init, Job
  <2>3. \A h \in Handlers : h \in calling <=> job[h].pc \in CallsOut
    BY DEF Init, BreakerInit, Idle, CallsOut
  <2> QED BY <1>1, <2>1, <2>2, <2>3 DEF TypeOK
<1>3. RowsExist /\ MarksAccepted /\ VerifiedWasAccepted
  BY DEF Init, RowsExist, MarksAccepted, VerifiedWasAccepted, Idle
<1> QED BY <1>2, <1>3 DEF OtpInv

LEMMA OtpDomain ==
    ASSUME TypeOK
    PROVE  /\ DOMAIN otp = 1..Len(otp)
           /\ Len(otp) \in Nat
           /\ DOMAIN otp \subseteq Rows
           /\ \A r \in DOMAIN otp : otp[r] \in OtpRow
BY OtpAssumption DEF TypeOK, Rows

\* One row written, the others left alone.
LEMMA RowWritten ==
    ASSUME TypeOK, NEW r \in DOMAIN otp, NEW row \in OtpRow,
           otp' = [otp EXCEPT ![r] = row]
    PROVE  /\ otp' \in Seq(OtpRow)
           /\ Len(otp') = Len(otp)
           /\ DOMAIN otp' = DOMAIN otp
BY OtpDomain DEF TypeOK

\* What the fields of a job are.
LEMMA JobFields ==
    ASSUME NEW j \in Job
    PROVE  /\ j.pc \in {"verify", "verifying", "miss"} => j.row \in Rows
           /\ j.pc = "mark" => j.row \in Rows /\ j.status \in {"VERIFIED", "EXPIRED", "FAILED"}
BY DEF Job, Idle

\* The types after a step of one handler, from the types of what it writes.
LEMMA HandlerStep ==
    ASSUME TypeOK, BreakerTypeOK', NEW h \in Handlers, NEW j \in Job, Becomes(h, j),
           otp' \in Seq(OtpRow), Len(otp') <= MaxCodes,
           asked' \in [Rows -> Nat], accepted' \in SUBSET DOMAIN otp', lost' \in [Rows -> Nat],
           calling' = IF j.pc \in CallsOut THEN calling \cup {h} ELSE calling \ {h}
    PROVE  TypeOK'
<1>1. job' \in [Handlers -> Job]
  BY DEF TypeOK, Becomes
<1>2. \A g \in Handlers : g \in calling' <=> job'[g].pc \in CallsOut
  BY DEF TypeOK, Becomes
<1> QED BY <1>1, <1>2 DEF TypeOK

\* What a request that ends early adds to the account.
LEMMA EndsCounts ==
    ASSUME TypeOK, NEW H \in SUBSET Handlers, Ends(H)
    PROVE  /\ lost' \in [Rows -> Nat]
           /\ \A r \in Rows : lost'[r] = lost[r] + Cardinality(Asks(r) \cap H)
<1>1. ASSUME NEW r \in Rows
      PROVE  lost[r] + Cardinality(Asks(r) \cap H) \in Nat
  <2>1. IsFiniteSet(Asks(r) \cap H)
    <3>1. Asks(r) \cap H \subseteq Handlers
      BY DEF Asks
    <3> QED BY <3>1, BreakerAssumption, FS_Subset
  <2>2. Cardinality(Asks(r) \cap H) \in Nat
    BY <2>1, FS_CardinalityType
  <2> QED BY <2>2 DEF TypeOK
<1> QED BY <1>1 DEF Ends

\* Every step keeps the types of the tables and of the handlers.
LEMMA OtpTypeStep ==
    ASSUME OtpInv, [Next]_vars
    PROVE  TypeOK'
<1>0. TypeOK /\ RowsExist
  BY DEF OtpInv
<1>1. BreakerTypeOK'
  <2>1. BreakerTypeOK /\ UNCHANGED breakerVars => BreakerTypeOK'
    BY DEF breakerVars, BreakerTypeOK
  <2>2. BreakerTypeOK /\ BreakerTick => BreakerTypeOK'
    BY BreakerAssumption DEF BreakerTick, BreakerTypeOK, Breaker
  <2> QED BY <1>0, <2>1, <2>2, ClosedIsTyped, StepIsReport, BreakerType DEF TypeOK
<1>2. CASE UNCHANGED vars
  BY <1>0, <1>1, <1>2 DEF vars, TypeOK
<1>3. CASE Tick
  <2> DEFINE older == [r \in DOMAIN otp |-> [otp[r] EXCEPT !.life = IF @ = 0 THEN 0 ELSE @ - 1]]
  <2>1. \A r \in DOMAIN otp : older[r] \in OtpRow
    <3> TAKE r \in DOMAIN otp
    <3> DEFINE life == IF otp[r].life = 0 THEN 0 ELSE otp[r].life - 1
    <3>1. otp[r] \in OtpRow
      BY <1>0, OtpDomain
    <3>2. life \in 0..Lifetime
      BY <3>1, OtpAssumption DEF OtpRow
    <3>3. [otp[r] EXCEPT !.life = life] \in OtpRow
      BY <3>1, <3>2 DEF OtpRow
    <3>4. older[r] = [otp[r] EXCEPT !.life = life]
      OBVIOUS
    <3> QED BY <3>3, <3>4
  <2>2. older \in Seq(OtpRow) /\ Len(older) = Len(otp) /\ DOMAIN older = DOMAIN otp
    BY <1>0, <2>1, OtpDomain
  <2> QED BY <1>0, <1>1, <1>3, <2>2 DEF Tick, BreakerTick, TypeOK
<1>4. ASSUME NEW h \in Handlers, SendOtp(h)
      PROVE  TypeOK'
  <2>1. CASE CallStart(h) /\ Becomes(h, [pc |-> "sending"])
    <3>1. [pc |-> "sending"] \in Job
      BY DEF Job
    <3> QED BY <1>0, <1>1, <1>4, <2>1, <3>1, HandlerStep DEF SendOtp, CallStart, CallsOut, TypeOK
  <2>2. CASE CallRefused(h) /\ UNCHANGED job
    BY <1>0, <1>1, <1>4, <2>2 DEF SendOtp, CallRefused, breakerVars, TypeOK
  <2> QED BY <1>4, <2>1, <2>2 DEF SendOtp
<1>5. ASSUME NEW h \in Handlers, SendAnswered(h)
      PROVE  TypeOK'
  <2>1. [pc |-> "send"] \in Job /\ Idle \in Job
    BY DEF Job
  <2>2. calling' = calling \ {h}
    BY <1>5 DEF SendAnswered, CallOk, CallRejected, CallFailed, OnFailure
  <2>3. Becomes(h, [pc |-> "send"]) \/ Becomes(h, Idle)
    BY <1>5 DEF SendAnswered
  <2> QED BY <1>0, <1>1, <1>5, <2>1, <2>2, <2>3, HandlerStep DEF SendAnswered, CallsOut, Idle, TypeOK
<1>6. ASSUME NEW h \in Handlers, CreateCode(h)
      PROVE  TypeOK'
  <2> DEFINE row == [status |-> "PENDING", attempts |-> 0, life |-> Lifetime]
  <2>1. row \in OtpRow
    BY OtpAssumption DEF OtpRow
  <2>2. /\ otp' \in Seq(OtpRow) /\ Len(otp') <= MaxCodes
        /\ DOMAIN otp \subseteq DOMAIN otp'
    BY <1>0, <1>6, <2>1, OtpAssumption DEF CreateCode, TypeOK
  <2>3. Idle \in Job /\ h \notin calling
    BY <1>0, <1>6 DEF CreateCode, TypeOK, CallsOut, Job
  <2> QED BY <1>0, <1>1, <1>6, <2>2, <2>3, HandlerStep DEF CreateCode, CallsOut, Idle, breakerVars, TypeOK
<1>7. ASSUME NEW h \in Handlers, VerifyRead(h)
      PROVE  TypeOK'
  <2> DEFINE r == Len(otp)
  <2>1. r \in Rows /\ otp[r].attempts \in Nat
    BY <1>0, <1>7, OtpDomain DEF VerifyRead, OtpRow, TypeOK
  <2>2. PICK j \in Job : Becomes(h, j) /\ j.pc \in {"mark", "verify"}
    BY <1>7, <2>1 DEF VerifyRead, Mark, Try, Job
  <2>3. h \notin calling
    BY <1>0, <1>7 DEF VerifyRead, TypeOK, CallsOut, Idle
  <2> QED BY <1>0, <1>1, <1>7, <2>2, <2>3, HandlerStep DEF VerifyRead, CallsOut, breakerVars, TypeOK
<1>8. ASSUME NEW h \in Handlers, VerifyCall(h)
      PROVE  TypeOK'
  <2>1. job[h].pc = "verify" /\ job[h].row \in Rows
    BY <1>0, <1>8, JobFields DEF VerifyCall, TypeOK
  <2>2. Try("verifying", job[h].row) \in Job /\ Try("miss", job[h].row) \in Job
    BY <2>1 DEF Try, Job
  <2>3. CASE CallStart(h) /\ Becomes(h, Try("verifying", job[h].row))
                          /\ asked' = [asked EXCEPT ![job[h].row] = @ + 1]
    <3>1. asked' \in [Rows -> Nat]
      BY <1>0, <2>1, <2>3 DEF TypeOK
    <3> QED BY <1>0, <1>1, <1>8, <2>2, <2>3, <3>1, HandlerStep DEF VerifyCall, CallStart, CallsOut, Try, TypeOK
  <2>4. CASE CallRefused(h) /\ Becomes(h, Try("miss", job[h].row)) /\ UNCHANGED asked
    <3>1. h \notin calling
      BY <1>0, <2>1 DEF TypeOK, CallsOut
    <3> QED BY <1>0, <1>1, <1>8, <2>2, <2>4, <3>1, HandlerStep DEF VerifyCall, CallRefused, breakerVars, CallsOut, Try, TypeOK
  <2> QED BY <1>8, <2>3, <2>4 DEF VerifyCall
<1>9. ASSUME NEW h \in Handlers, VerifyAnswered(h)
      PROVE  TypeOK'
  <2>1. job[h].row \in Rows /\ job[h].row \in DOMAIN otp
    BY <1>0, <1>9, JobFields DEF VerifyAnswered, TypeOK, RowsExist
  <2>2. PICK j \in Job : Becomes(h, j) /\ j.pc \in {"mark", "miss"}
    BY <1>9, <2>1 DEF VerifyAnswered, Mark, Try, Job
  <2>3. calling' = calling \ {h}
    BY <1>9 DEF VerifyAnswered, CallOk, CallRejected, CallFailed, OnFailure
  <2>4. accepted' \in SUBSET DOMAIN otp /\ otp' = otp /\ asked' = asked /\ lost' = lost
    BY <1>0, <1>9, <2>1 DEF VerifyAnswered, TypeOK
  <2> QED BY <1>0, <1>1, <2>2, <2>3, <2>4, HandlerStep DEF CallsOut, TypeOK
<1>10. ASSUME NEW h \in Handlers, VerifyMiss(h) \/ VerifyMark(h)
       PROVE  TypeOK'
  <2> DEFINE r == job[h].row
  <2>1. r \in DOMAIN otp /\ otp[r] \in OtpRow /\ h \notin calling
    BY <1>0, <1>10, OtpDomain DEF VerifyMiss, VerifyMark, RowsExist, TypeOK, CallsOut
  <2>2. otp' \in Seq(OtpRow) /\ Len(otp') = Len(otp) /\ DOMAIN otp' = DOMAIN otp
    <3>1. CASE VerifyMiss(h)
      <4> DEFINE row == [otp[r] EXCEPT !.attempts = @ + 1]
      <4>1. row \in OtpRow
        BY <2>1 DEF OtpRow
      <4>2. otp' = [otp EXCEPT ![r] = row]
        BY <3>1 DEF VerifyMiss
      <4> QED BY <1>0, <2>1, <4>1, <4>2, RowWritten
    <3>2. CASE VerifyMark(h)
      <4> DEFINE row == [otp[r] EXCEPT !.status = job[h].status]
      <4>1. row \in OtpRow
        BY <1>0, <2>1, <3>2, JobFields DEF VerifyMark, OtpRow, TypeOK
      <4>2. otp' = [otp EXCEPT ![r] = row]
        BY <3>2 DEF VerifyMark
      <4> QED BY <1>0, <2>1, <4>1, <4>2, RowWritten
    <3> QED BY <1>10, <3>1, <3>2
  <2>3. Becomes(h, Idle) /\ UNCHANGED <<breakerVars, asked, accepted, lost>> /\ Idle \in Job
    BY <1>10 DEF VerifyMiss, VerifyMark, Job
  <2> QED BY <1>0, <1>1, <2>1, <2>2, <2>3, HandlerStep DEF CallsOut, Idle, breakerVars, TypeOK
<1>11. ASSUME NEW h \in Handlers, OtherCall(h)
       PROVE  TypeOK'
  <2>1. [pc |-> "charging"] \in Job
    BY DEF Job
  <2> QED BY <1>0, <1>1, <1>11, <2>1, HandlerStep DEF OtherCall, CallStart, CallsOut, TypeOK
<1>12. ASSUME NEW h \in Handlers, OtherAnswered(h)
       PROVE  TypeOK'
  <2>1. Idle \in Job
    BY DEF Job
  <2>2. calling' = calling \ {h}
    BY <1>12 DEF OtherAnswered, CallOk, CallRejected, CallFailed, OnFailure
  <2> QED BY <1>0, <1>1, <1>12, <2>1, <2>2, HandlerStep DEF OtherAnswered, CallsOut, Idle, TypeOK
<1>13. ASSUME NEW h \in Handlers, StatementThrows(h)
       PROVE  TypeOK'
  <2>1. Idle \in Job /\ h \notin calling
    BY <1>0, <1>13 DEF StatementThrows, TypeOK, CallsOut, Job
  <2>2. lost' \in [Rows -> Nat]
    BY <1>0, <1>13, EndsCounts DEF StatementThrows
  <2> QED BY <1>0, <1>1, <1>13, <2>1, <2>2, HandlerStep DEF StatementThrows, CallsOut, Idle, breakerVars, TypeOK
<1>14. CASE ReplicaDies
  <2>1. lost' \in [Rows -> Nat]
    BY <1>0, <1>14, EndsCounts DEF ReplicaDies
  <2>2. job' \in [Handlers -> Job] /\ \A h \in Handlers : h \in calling' <=> job'[h].pc \in CallsOut
    BY <1>14 DEF ReplicaDies, BreakerRestart, Job, Idle, CallsOut
  <2> QED BY <1>0, <1>1, <1>14, <2>1, <2>2 DEF ReplicaDies, TypeOK
<1> QED BY <1>2, <1>3, <1>4, <1>5, <1>6, <1>7, <1>8, <1>9, <1>10, <1>11, <1>12, <1>13, <1>14 DEF Next

\* A handler's row stays in the table, which only grows.
LEMMA RowsExistStep ==
    ASSUME OtpInv, [Next]_vars
    PROVE  RowsExist'
<1>0. TypeOK /\ RowsExist
  BY DEF OtpInv
<1>1. DOMAIN otp \subseteq DOMAIN otp'
  <2>1. CASE otp' = otp
    BY <2>1
  <2>2. ASSUME NEW h \in Handlers, CreateCode(h)
        PROVE  DOMAIN otp \subseteq DOMAIN otp'
    BY <1>0, <2>2 DEF CreateCode, TypeOK
  <2>3. ASSUME NEW h \in Handlers, VerifyMiss(h) \/ VerifyMark(h)
        PROVE  DOMAIN otp \subseteq DOMAIN otp'
    <3>1. DOMAIN otp' = DOMAIN otp
      BY <2>3 DEF VerifyMiss, VerifyMark
    <3> QED BY <3>1
  <2>4. CASE Tick
    <3>1. DOMAIN otp' = DOMAIN otp
      BY <2>4 DEF Tick
    <3> QED BY <3>1
  <2> QED
    BY <2>1, <2>2, <2>3, <2>4
    DEF Next, vars, SendOtp, SendAnswered, VerifyRead, VerifyCall, VerifyAnswered,
        StatementThrows, ReplicaDies,
        OtherCall, OtherAnswered
<1> DEFINE Good(j) == j.pc \in {"verify", "verifying", "miss", "mark"} => j.row \in DOMAIN otp
<1>2. ASSUME NEW h \in Handlers, NEW j, Becomes(h, j), Good(j)
      PROVE  RowsExist'
  BY <1>0, <1>1, <1>2 DEF Becomes, RowsExist, TypeOK
<1>3. CASE job' = job
  BY <1>0, <1>1, <1>3 DEF RowsExist
<1>4. ASSUME NEW h \in Handlers, SendOtp(h) \/ SendAnswered(h) \/ CreateCode(h)
      PROVE  RowsExist'
  <2>1. Good([pc |-> "sending"]) /\ Good([pc |-> "send"]) /\ Good(Idle)
    BY DEF Idle
  <2> QED BY <1>2, <1>3, <1>4, <2>1 DEF SendOtp, SendAnswered, CreateCode
<1>5. ASSUME NEW h \in Handlers, VerifyRead(h)
      PROVE  RowsExist'
  <2>1. Len(otp) \in DOMAIN otp
    BY <1>0, <1>5, OtpDomain DEF VerifyRead, TypeOK
  <2>2. \E j : Becomes(h, j) /\ Good(j)
    BY <1>5, <2>1 DEF VerifyRead, Mark, Try
  <2> QED BY <1>2, <2>2
<1>6. ASSUME NEW h \in Handlers, VerifyCall(h) \/ VerifyAnswered(h)
      PROVE  RowsExist'
  <2>1. job[h].row \in DOMAIN otp
    BY <1>0, <1>6 DEF VerifyCall, VerifyAnswered, RowsExist
  <2>2. \E j : Becomes(h, j) /\ Good(j)
    BY <1>6, <2>1 DEF VerifyCall, VerifyAnswered, Mark, Try
  <2> QED BY <1>2, <2>2
<1>7. ASSUME NEW h \in Handlers,
             \/ VerifyMiss(h) \/ VerifyMark(h) \/ StatementThrows(h)
             \/ OtherCall(h) \/ OtherAnswered(h)
      PROVE  RowsExist'
  <2>1. Good([pc |-> "charging"]) /\ Good(Idle)
    BY DEF Idle
  <2> QED BY <1>2, <1>7, <2>1 DEF VerifyMiss, VerifyMark, StatementThrows, OtherCall, OtherAnswered
<1>8. CASE ReplicaDies
  BY <1>8 DEF ReplicaDies, RowsExist, Idle
<1> QED BY <1>3, <1>4, <1>5, <1>6, <1>7, <1>8 DEF Next, Tick, vars

\* A handler that is about to write VERIFIED holds a 200 of the gateway.
LEMMA MarksAcceptedStep ==
    ASSUME OtpInv, [Next]_vars
    PROVE  MarksAccepted' /\ accepted \subseteq accepted'
<1>0. TypeOK /\ MarksAccepted
  BY DEF OtpInv
<1> DEFINE Good(j, A) == j.pc = "mark" /\ j.status = "VERIFIED" => j.row \in A
<1>1. ASSUME NEW h \in Handlers, NEW j, Becomes(h, j), Good(j, accepted'),
             accepted \subseteq accepted'
      PROVE  MarksAccepted'
  BY <1>0, <1>1 DEF Becomes, MarksAccepted, TypeOK
<1>2. CASE job' = job /\ accepted' = accepted
  BY <1>0, <1>2 DEF MarksAccepted
<1>3. ASSUME NEW h \in Handlers,
             \/ SendOtp(h) \/ SendAnswered(h) \/ CreateCode(h) \/ VerifyMiss(h)
             \/ VerifyMark(h) \/ StatementThrows(h) \/ OtherCall(h) \/ OtherAnswered(h)
      PROVE  MarksAccepted' /\ accepted' = accepted
  <2>1. \A A : /\ Good([pc |-> "sending"], A) /\ Good([pc |-> "send"], A)
               /\ Good([pc |-> "charging"], A) /\ Good(Idle, A)
    BY DEF Idle
  <2>2. accepted' = accepted
    BY <1>3 DEF SendOtp, SendAnswered, CreateCode, VerifyMiss, VerifyMark, StatementThrows,
                OtherCall, OtherAnswered
  <2>3. job' = job \/ \E j : Becomes(h, j) /\ Good(j, accepted')
    BY <1>3, <2>1 DEF SendOtp, SendAnswered, CreateCode, VerifyMiss, VerifyMark,
                      StatementThrows, OtherCall, OtherAnswered
  <2> QED BY <1>1, <1>2, <2>2, <2>3
<1>4. ASSUME NEW h \in Handlers, VerifyRead(h) \/ VerifyCall(h)
      PROVE  MarksAccepted' /\ accepted' = accepted
  <2>1. accepted' = accepted
    BY <1>4 DEF VerifyRead, VerifyCall
  <2>2. \E j : Becomes(h, j) /\ Good(j, accepted')
    BY <1>4 DEF VerifyRead, VerifyCall, Mark, Try
  <2> QED BY <1>1, <2>1, <2>2
<1>5. ASSUME NEW h \in Handlers, VerifyAnswered(h)
      PROVE  MarksAccepted' /\ accepted \subseteq accepted'
  <2>1. accepted \subseteq accepted'
    BY <1>5 DEF VerifyAnswered
  <2>2. \E j : Becomes(h, j) /\ Good(j, accepted')
    BY <1>5 DEF VerifyAnswered, Mark, Try
  <2> QED BY <1>1, <2>1, <2>2
<1>6. CASE ReplicaDies
  BY <1>6 DEF ReplicaDies, MarksAccepted, Idle
<1> QED BY <1>2, <1>3, <1>4, <1>5, <1>6 DEF Next, Tick, vars

\* A row becomes VERIFIED only by a handler that holds a 200.
LEMMA VerifiedStep ==
    ASSUME OtpInv, [Next]_vars
    PROVE  VerifiedWasAccepted'
<1>0. TypeOK /\ RowsExist /\ MarksAccepted /\ VerifiedWasAccepted
  BY DEF OtpInv
<1>1. accepted \subseteq accepted'
  BY MarksAcceptedStep
<1>2. CASE otp' = otp
  BY <1>0, <1>1, <1>2 DEF VerifiedWasAccepted
<1>3. ASSUME NEW h \in Handlers, CreateCode(h)
      PROVE  VerifiedWasAccepted'
  <2>1. \A r \in DOMAIN otp' : (r \in DOMAIN otp /\ otp'[r] = otp[r]) \/ otp'[r].status = "PENDING"
    BY <1>0, <1>3 DEF CreateCode, TypeOK
  <2> QED BY <1>0, <1>1, <2>1 DEF VerifiedWasAccepted
<1>4. ASSUME NEW h \in Handlers, VerifyMiss(h)
      PROVE  VerifiedWasAccepted'
  <2>1. DOMAIN otp' = DOMAIN otp /\ \A r \in DOMAIN otp : otp'[r].status = otp[r].status
    <3>1. job[h].row \in DOMAIN otp /\ otp[job[h].row] \in OtpRow
      BY <1>0, <1>4, OtpDomain DEF VerifyMiss, RowsExist
    <3> QED BY <1>4, <3>1 DEF VerifyMiss, OtpRow
  <2> QED BY <1>0, <1>1, <2>1 DEF VerifiedWasAccepted
<1>5. ASSUME NEW h \in Handlers, VerifyMark(h)
      PROVE  VerifiedWasAccepted'
  <2>1. job[h].status = "VERIFIED" => job[h].row \in accepted
    BY <1>0, <1>5 DEF VerifyMark, MarksAccepted
  <2>2. DOMAIN otp' = DOMAIN otp
    BY <1>5 DEF VerifyMark
  <2>3. ASSUME NEW r \in DOMAIN otp, r # job[h].row
        PROVE  otp'[r] = otp[r]
    BY <1>5, <2>3 DEF VerifyMark
  <2>4. job[h].row \in DOMAIN otp => otp'[job[h].row].status = job[h].status
    <3>1. \A r \in DOMAIN otp : otp[r] \in OtpRow
      BY <1>0, OtpDomain
    <3> QED BY <1>5, <3>1 DEF VerifyMark, OtpRow
  <2> QED BY <1>0, <1>1, <2>1, <2>2, <2>3, <2>4 DEF VerifiedWasAccepted
<1>6. CASE Tick
  <2>1. DOMAIN otp' = DOMAIN otp /\ \A r \in DOMAIN otp : otp'[r].status = otp[r].status
    <3>1. \A r \in DOMAIN otp : otp[r] \in OtpRow
      BY <1>0, OtpDomain
    <3> QED BY <1>6, <3>1 DEF Tick, OtpRow
  <2> QED BY <1>0, <1>1, <2>1 DEF VerifiedWasAccepted
<1> QED
  BY <1>2, <1>3, <1>4, <1>5, <1>6
  DEF Next, vars, SendOtp, SendAnswered, VerifyRead, VerifyCall, VerifyAnswered,
      StatementThrows, ReplicaDies, OtherCall, OtherAnswered

LEMMA OtpInvStep == OtpInv /\ [Next]_vars => OtpInv'
BY OtpTypeStep, RowsExistStep, MarksAcceptedStep, VerifiedStep DEF OtpInv

\* Every reachable state satisfies the inductive invariant of the codes.
THEOREM OtpInvariant == Spec => []OtpInv
BY InitOtpInv, OtpInvStep, PTL DEF Spec

\* The table, the handlers and the breaker keep their types, and a handler is
\* counted as calling exactly while it waits for the gateway.
THEOREM OtpTypeCorrect == Spec => []TypeOK
<1>1. OtpInv => TypeOK
  BY DEF OtpInv
<1> QED BY <1>1, OtpInvariant, PTL

\* No refusal, failure, time-out or open circuit ever verifies a code
\* (otpService.js:57-80).
THEOREM VerifiedAccepted == Spec => []VerifiedWasAccepted
<1>1. OtpInv => VerifiedWasAccepted
  BY DEF OtpInv
<1> QED BY <1>1, OtpInvariant, PTL

\* No step gives a request a row that is verified already.
LEMMA QuietStep ==
    ASSUME OtpInv, [Next]_vars, NEW r \in Rows, QuietlyVerified(r)
    PROVE  \A h \in Handlers :
              job'[h].pc \in {"verify", "verifying", "miss", "mark"} => job'[h].row # r
<1>0. TypeOK
  BY DEF OtpInv
<1> DEFINE Elsewhere(j) == j.pc \in {"verify", "verifying", "miss", "mark"} => j.row # r
<1>1. \A h \in Handlers : Elsewhere(job[h])
  BY DEF QuietlyVerified
<1>2. ASSUME NEW h \in Handlers, NEW j, Becomes(h, j), Elsewhere(j)
      PROVE  \A g \in Handlers : Elsewhere(job'[g])
  BY <1>0, <1>1, <1>2 DEF Becomes, TypeOK
<1>3. CASE job' = job
  BY <1>1, <1>3
<1>4. ASSUME NEW h \in Handlers,
             \/ SendOtp(h) \/ SendAnswered(h) \/ CreateCode(h) \/ VerifyMiss(h)
             \/ VerifyMark(h) \/ StatementThrows(h) \/ OtherCall(h) \/ OtherAnswered(h)
      PROVE  \A g \in Handlers : Elsewhere(job'[g])
  <2>1. /\ Elsewhere([pc |-> "sending"]) /\ Elsewhere([pc |-> "send"])
        /\ Elsewhere([pc |-> "charging"]) /\ Elsewhere(Idle)
    BY DEF Idle
  <2>2. job' = job \/ \E j : Becomes(h, j) /\ Elsewhere(j)
    BY <1>4, <2>1 DEF SendOtp, SendAnswered, CreateCode, VerifyMiss, VerifyMark,
                      StatementThrows, OtherCall, OtherAnswered
  <2> QED BY <1>2, <1>3, <2>2
<1>5. ASSUME NEW h \in Handlers, VerifyRead(h)
      PROVE  \A g \in Handlers : Elsewhere(job'[g])
  <2>1. Len(otp) # r
    BY <1>5 DEF VerifyRead, QuietlyVerified
  <2>2. \E j : Becomes(h, j) /\ Elsewhere(j)
    BY <1>5, <2>1 DEF VerifyRead, Mark, Try
  <2> QED BY <1>2, <2>2
<1>6. ASSUME NEW h \in Handlers, VerifyCall(h) \/ VerifyAnswered(h)
      PROVE  \A g \in Handlers : Elsewhere(job'[g])
  <2>1. job[h].row # r
    BY <1>1, <1>6 DEF VerifyCall, VerifyAnswered
  <2>2. \E j : Becomes(h, j) /\ Elsewhere(j)
    BY <1>6, <2>1 DEF VerifyCall, VerifyAnswered, Mark, Try
  <2> QED BY <1>2, <2>2
<1>7. CASE ReplicaDies
  BY <1>7 DEF ReplicaDies, Idle
<1> QED BY <1>3, <1>4, <1>5, <1>6, <1>7 DEF Next, Tick, vars

\* No step writes a verified row that no request is at work on.
LEMMA VerifiedRowStep ==
    ASSUME OtpInv, [Next]_vars, NEW r \in Rows, QuietlyVerified(r)
    PROVE  r \in DOMAIN otp' /\ otp'[r].status = "VERIFIED"
<1>0. TypeOK /\ RowsExist /\ r \in DOMAIN otp /\ otp[r].status = "VERIFIED"
  BY DEF OtpInv, QuietlyVerified
<1>1. otp[r] \in OtpRow
  BY <1>0, OtpDomain
<1>2. CASE otp' = otp
  BY <1>0, <1>2
<1>3. ASSUME NEW h \in Handlers, CreateCode(h)
      PROVE  r \in DOMAIN otp' /\ otp'[r] = otp[r]
  BY <1>0, <1>3 DEF CreateCode, TypeOK
<1>4. ASSUME NEW h \in Handlers, VerifyMiss(h) \/ VerifyMark(h)
      PROVE  r \in DOMAIN otp' /\ otp'[r] = otp[r]
  <2>1. job[h].row # r
    BY <1>4 DEF VerifyMiss, VerifyMark, QuietlyVerified
  <2>2. DOMAIN otp' = DOMAIN otp
    BY <1>4 DEF VerifyMiss, VerifyMark
  <2>3. otp'[r] = otp[r]
    BY <1>0, <1>4, <2>1 DEF VerifyMiss, VerifyMark
  <2> QED BY <1>0, <2>2, <2>3
<1>5. CASE Tick
  <2>1. DOMAIN otp' = DOMAIN otp /\ otp'[r].status = otp[r].status
    BY <1>0, <1>1, <1>5 DEF Tick, OtpRow
  <2> QED BY <1>0, <2>1
<1> QED
  BY <1>0, <1>2, <1>3, <1>4, <1>5
  DEF Next, vars, SendOtp, SendAnswered, VerifyRead, VerifyCall, VerifyAnswered,
      StatementThrows, ReplicaDies, OtherCall, OtherAnswered

\* Once the requests that read a row before it was verified have ended, it stays
\* verified (otpService.js:45-80).
THEOREM VerifiedForGood == Spec => VerifiedStays
<1>1. ASSUME OtpInv, [Next]_vars
      PROVE  \A r \in Rows : QuietlyVerified(r) => QuietlyVerified(r)'
  <2> SUFFICES ASSUME NEW r \in Rows, QuietlyVerified(r)
               PROVE  QuietlyVerified(r)'
    OBVIOUS
  <2>1. r \in DOMAIN otp' /\ otp'[r].status = "VERIFIED"
    BY <1>1, VerifiedRowStep
  <2>2. \A h \in Handlers :
           job'[h].pc \in {"verify", "verifying", "miss", "mark"} => job'[h].row # r
    BY <1>1, QuietStep
  <2> QED BY <2>1, <2>2 DEF QuietlyVerified
<1> QED BY <1>1, OtpInvariant, PTL DEF Spec, VerifiedStays

-----------------------------------------------------------------------------
(***************************************************************************)
(* Guesses.  A row is Open while it still lets requests in.  Each of its   *)
(* attempts so far, each request between its call and its UPDATE, and each *)
(* request lost there stands for one guess; a request that has been let in *)
(* has one to come.                                                        *)
(* Once a row is closed, for good, only those are left.                    *)
(***************************************************************************)

Open(r) ==
    /\ r \in DOMAIN otp /\ otp[r].status # "VERIFIED"
    /\ otp[r].attempts < MaxAttempts /\ otp[r].life > 0

Trying(j, r) == j.pc = "verify" /\ j.row = r

Tries(r) == {h \in Handlers : Trying(job[h], r)}

\* FAILED and EXPIRED are written over a row that is closed anyway.
MarksClose ==
    \A h \in Handlers : job[h].pc = "mark" =>
        /\ job[h].status = "FAILED" => otp[job[h].row].attempts >= MaxAttempts
        /\ job[h].status = "EXPIRED" => otp[job[h].row].life = 0

Budget(r) ==
    /\ r \notin DOMAIN otp => asked[r] = 0
    /\ Open(r) => asked[r] <= otp[r].attempts + Cardinality(Asks(r)) + lost[r]
    /\ asked[r] + Cardinality(Tries(r)) <= MaxAttempts - 1 + Cardinality(Handlers) + lost[r]

\* The requests on a row are few, and no request is counted twice.
LEMMA Counts ==
    ASSUME NEW T \in SUBSET Handlers, NEW A \in SUBSET Handlers, T \cap A = {}
    PROVE  /\ IsFiniteSet(T) /\ IsFiniteSet(A)
           /\ Cardinality(T) \in Nat /\ Cardinality(A) \in Nat /\ Cardinality(Handlers) \in Nat
           /\ Cardinality(T) + Cardinality(A) <= Cardinality(Handlers)
<1>1. IsFiniteSet(Handlers) /\ IsFiniteSet(T) /\ IsFiniteSet(A)
  BY BreakerAssumption, FS_Subset
<1>2. Cardinality(T \cup A) <= Cardinality(Handlers) /\ Cardinality(Handlers) \in Nat
  BY <1>1, FS_Subset, FS_CardinalityType
<1>3. Cardinality(T) \in Nat /\ Cardinality(A) \in Nat
  BY <1>1, FS_CardinalityType
<1>4. Cardinality(T \cup A) = Cardinality(T) + Cardinality(A) - Cardinality({})
  BY <1>1, FS_Union
<1>5. Cardinality({}) = 0
  BY FS_EmptySet
<1> QED BY <1>1, <1>2, <1>3, <1>4, <1>5

LEMMA RowCounts ==
    ASSUME NEW r
    PROVE  /\ IsFiniteSet(Tries(r)) /\ IsFiniteSet(Asks(r))
           /\ Cardinality(Tries(r)) \in Nat /\ Cardinality(Asks(r)) \in Nat
           /\ Cardinality(Handlers) \in Nat
           /\ Cardinality(Tries(r)) + Cardinality(Asks(r)) <= Cardinality(Handlers)
<1>1. Tries(r) \in SUBSET Handlers /\ Asks(r) \in SUBSET Handlers
  BY DEF Tries, Asks
<1>2. Tries(r) \cap Asks(r) = {}
  BY DEF Tries, Asks, Trying, Asking
<1> QED BY <1>1, <1>2, Counts

LEMMA RowCountsNext ==
    ASSUME NEW r
    PROVE  /\ Cardinality(Tries(r)') \in Nat /\ Cardinality(Asks(r)') \in Nat
           /\ Cardinality(Handlers) \in Nat
           /\ Cardinality(Tries(r)') + Cardinality(Asks(r)') <= Cardinality(Handlers)
<1>1. Tries(r)' \in SUBSET Handlers /\ Asks(r)' \in SUBSET Handlers
  BY DEF Tries, Asks
<1>2. Tries(r)' \cap Asks(r)' = {}
  BY DEF Tries, Asks, Trying, Asking
<1> QED BY <1>1, <1>2, Counts

\* What the new job of one handler does to the requests on a row.
LEMMA JobMoves ==
    ASSUME TypeOK, NEW h \in Handlers, NEW j, Becomes(h, j), NEW r
    PROVE  /\ Tries(r)' = IF Trying(j, r) THEN Tries(r) \cup {h} ELSE Tries(r) \ {h}
           /\ Asks(r)' = IF Asking(j, r) THEN Asks(r) \cup {h} ELSE Asks(r) \ {h}
<1>1. job'[h] = j /\ \A g \in Handlers \ {h} : job'[g] = job[g]
  BY DEF Becomes, TypeOK
<1>2. /\ Tries(r)' = {g \in Handlers : Trying(job'[g], r)}
      /\ Asks(r)' = {g \in Handlers : Asking(job'[g], r)}
  BY DEF Tries, Asks, Trying, Asking
<1> HIDE DEF Trying, Asking
<1> QED BY <1>1, <1>2 DEF Tries, Asks

\* A step that leaves the requests on a row as they are, and does not open it.
LEMMA BudgetKept ==
    ASSUME TypeOK, TypeOK', NEW r \in Rows, Budget(r),
           asked'[r] = asked[r], lost'[r] = lost[r], Tries(r)' = Tries(r), Asks(r)' = Asks(r),
           r \notin DOMAIN otp' => r \notin DOMAIN otp,
           Open(r)' => asked[r] = 0 \/ (Open(r) /\ otp'[r].attempts >= otp[r].attempts)
    PROVE  Budget(r)'
<1>1. asked[r] \in Nat /\ lost[r] \in Nat /\ Cardinality(Asks(r)) \in Nat
  BY RowCounts DEF TypeOK
<1>2. Open(r)' => asked'[r] <= otp'[r].attempts + Cardinality(Asks(r)') + lost'[r]
  <2> SUFFICES ASSUME Open(r)' PROVE asked[r] <= otp'[r].attempts + Cardinality(Asks(r)) + lost[r]
    OBVIOUS
  <2>1. otp'[r] \in OtpRow
    BY OtpDomain DEF TypeOK, Open
  <2>2. otp'[r].attempts \in Nat
    BY <2>1 DEF OtpRow
  <2>3. CASE asked[r] = 0
    BY <1>1, <2>2, <2>3
  <2>4. CASE Open(r) /\ otp'[r].attempts >= otp[r].attempts
    <3>1. otp[r].attempts \in Nat
      BY <2>4, OtpDomain DEF Open, OtpRow
    <3> QED BY <1>1, <2>2, <2>4, <3>1 DEF Budget
  <2> QED BY <2>3, <2>4
<1>3. (r \notin DOMAIN otp => asked[r] = 0)'
  BY DEF Budget
<1>4. (asked[r] + Cardinality(Tries(r)) <= MaxAttempts - 1 + Cardinality(Handlers) + lost[r])'
  BY DEF Budget
<1> QED BY <1>2, <1>3, <1>4 DEF Budget

\* A row's attempts only grow, and a code that has expired stays so.
LEMMA RowsClose ==
    ASSUME OtpInv, [Next]_vars, NEW r \in DOMAIN otp
    PROVE  /\ r \in DOMAIN otp'
           /\ otp'[r].attempts >= otp[r].attempts
           /\ otp[r].life = 0 => otp'[r].life = 0
<1>0. TypeOK /\ RowsExist /\ otp[r] \in OtpRow
  BY OtpDomain DEF OtpInv
<1>1. otp[r].attempts \in Nat
  BY <1>0 DEF OtpRow
<1>2. CASE otp' = otp
  BY <1>1, <1>2
<1>3. ASSUME NEW h \in Handlers, CreateCode(h) PROVE r \in DOMAIN otp' /\ otp'[r] = otp[r]
  BY <1>0, <1>3 DEF CreateCode, TypeOK
<1>4. ASSUME NEW h \in Handlers, VerifyMiss(h) \/ VerifyMark(h)
      PROVE  /\ r \in DOMAIN otp' /\ otp'[r].attempts >= otp[r].attempts
             /\ otp'[r].life = otp[r].life
  <2>1. job[h].row \in DOMAIN otp /\ otp[job[h].row] \in OtpRow /\ DOMAIN otp' = DOMAIN otp
    BY <1>0, <1>4, OtpDomain DEF VerifyMiss, VerifyMark, RowsExist
  <2>2. CASE VerifyMiss(h)
    BY <1>0, <1>1, <2>1, <2>2 DEF VerifyMiss, OtpRow
  <2>3. CASE VerifyMark(h)
    BY <1>0, <1>1, <2>1, <2>3 DEF VerifyMark, OtpRow
  <2> QED BY <1>4, <2>2, <2>3
<1>5. CASE Tick
  BY <1>0, <1>1, <1>5 DEF Tick, OtpRow
<1>6. \/ otp' = otp \/ Tick
      \/ \E h \in Handlers : CreateCode(h) \/ VerifyMiss(h) \/ VerifyMark(h)
  BY DEF Next, vars, SendOtp, SendAnswered, VerifyRead, VerifyCall, VerifyAnswered,
         StatementThrows, ReplicaDies, OtherCall, OtherAnswered
<1> QED BY <1>1, <1>2, <1>3, <1>4, <1>5, <1>6

LEMMA MarksCloseStep ==
    ASSUME OtpInv, MarksClose, [Next]_vars
    PROVE  MarksClose'
<1>0. TypeOK /\ RowsExist
  BY DEF OtpInv
<1> DEFINE Closing(j) ==
      j.pc = "mark" => /\ j.status = "FAILED" => otp[j.row].attempts >= MaxAttempts
                       /\ j.status = "EXPIRED" => otp[j.row].life = 0
           Found(j) == j.pc = "mark" => j.row \in DOMAIN otp
<1>1. ASSUME NEW j, Closing(j), Found(j), j.pc = "mark"
      PROVE  /\ j.status = "FAILED" => otp'[j.row].attempts >= MaxAttempts
             /\ j.status = "EXPIRED" => otp'[j.row].life = 0
  <2>1. j.row \in DOMAIN otp
    BY <1>1
  <2>2. otp'[j.row] \in OtpRow /\ otp[j.row] \in OtpRow
    BY <1>0, <2>1, RowsClose, OtpTypeStep, OtpDomain DEF TypeOK
  <2>3. otp'[j.row].attempts \in Nat /\ otp[j.row].attempts \in Nat /\ MaxAttempts \in Nat
    BY <2>2, OtpAssumption DEF OtpRow
  <2> QED BY <1>1, <2>1, <2>3, RowsClose
<1>2. \A h \in Handlers : Closing(job[h]) /\ Found(job[h])
  BY <1>0 DEF MarksClose, RowsExist
<1>3. ASSUME \A h \in Handlers : Closing(job'[h]) /\ Found(job'[h]) PROVE MarksClose'
  BY <1>1, <1>3 DEF MarksClose
<1>4. CASE job' = job
  BY <1>2, <1>3, <1>4
<1>5. ASSUME NEW h \in Handlers, NEW j, Becomes(h, j), Closing(j), Found(j) PROVE MarksClose'
  <2>1. \A g \in Handlers : job'[g] = j \/ job'[g] = job[g]
    BY <1>0, <1>5 DEF Becomes, TypeOK
  <2> HIDE DEF Closing, Found
  <2> QED BY <1>2, <1>3, <1>5, <2>1
<1>6. ASSUME NEW h \in Handlers,
             \/ SendOtp(h) \/ SendAnswered(h) \/ CreateCode(h) \/ VerifyMiss(h)
             \/ VerifyMark(h) \/ StatementThrows(h) \/ OtherCall(h) \/ OtherAnswered(h)
      PROVE  MarksClose'
  <2>1. \E j : (Becomes(h, j) \/ job' = job) /\ j.pc # "mark"
    BY <1>6 DEF SendOtp, SendAnswered, CreateCode, VerifyMiss, VerifyMark,
                StatementThrows, OtherCall, OtherAnswered, Idle
  <2> QED BY <1>4, <1>5, <2>1
<1>7. ASSUME NEW h \in Handlers, VerifyRead(h) PROVE MarksClose'
  <2>1. Len(otp) \in DOMAIN otp
    BY <1>0, <1>7, OtpDomain DEF VerifyRead, TypeOK
  <2>2. \/ otp[Len(otp)].attempts >= MaxAttempts /\ Mark(h, Len(otp), "FAILED")
        \/ otp[Len(otp)].life = 0 /\ Mark(h, Len(otp), "EXPIRED")
        \/ Becomes(h, Try("verify", Len(otp)))
    BY <1>7 DEF VerifyRead
  <2>3. CASE otp[Len(otp)].attempts >= MaxAttempts /\ Mark(h, Len(otp), "FAILED")
    BY <1>5, <2>1, <2>3 DEF Mark
  <2>4. CASE otp[Len(otp)].life = 0 /\ Mark(h, Len(otp), "EXPIRED")
    BY <1>5, <2>1, <2>4 DEF Mark
  <2>5. CASE Becomes(h, Try("verify", Len(otp)))
    BY <1>5, <2>5 DEF Try
  <2> QED BY <2>2, <2>3, <2>4, <2>5
<1>8. ASSUME NEW h \in Handlers, VerifyCall(h) PROVE MarksClose'
  BY <1>5, <1>8 DEF VerifyCall, Try
<1>9. ASSUME NEW h \in Handlers, VerifyAnswered(h) PROVE MarksClose'
  <2>1. job[h].row \in DOMAIN otp
    BY <1>0, <1>9 DEF VerifyAnswered, RowsExist
  <2>2. CASE Mark(h, job[h].row, "VERIFIED")
    BY <1>5, <2>1, <2>2 DEF Mark
  <2>3. CASE Becomes(h, Try("miss", job[h].row))
    BY <1>5, <2>3 DEF Try
  <2> QED BY <1>9, <2>2, <2>3 DEF VerifyAnswered
<1>10. CASE ReplicaDies
  BY <1>10 DEF ReplicaDies, MarksClose, Idle
<1> QED BY <1>4, <1>6, <1>7, <1>8, <1>9, <1>10 DEF Next, Tick, vars

\* Each step keeps the budget of each row.
LEMMA BudgetStep ==
    ASSUME OtpInv, MarksClose, [Next]_vars, NEW r \in Rows, Budget(r)
    PROVE  Budget(r)'
<1>0. /\ TypeOK /\ TypeOK' /\ RowsExist
      /\ asked[r] \in Nat /\ lost[r] \in Nat /\ MaxAttempts \in Nat \ {0}
      /\ r \notin DOMAIN otp' => r \notin DOMAIN otp
      /\ \A q \in DOMAIN otp : otp[q] \in OtpRow /\ otp[q].attempts \in Nat /\ otp[q].life \in Nat
  <2>1. TypeOK /\ TypeOK' /\ RowsExist
    BY OtpTypeStep DEF OtpInv
  <2>2. \A q \in DOMAIN otp : otp[q] \in OtpRow
    BY <2>1, OtpDomain
  <2> QED BY <2>1, <2>2, RowsClose, OtpAssumption DEF TypeOK, OtpRow
\* A step that does not write the row.
<1>a. ASSUME otp' = otp, asked'[r] = asked[r], lost'[r] = lost[r], Tries(r)' = Tries(r), Asks(r)' = Asks(r)
      PROVE  Budget(r)'
  <2>1. Open(r)' => Open(r) /\ otp'[r].attempts >= otp[r].attempts
    BY <1>0, <1>a DEF Open
  <2> QED BY <1>0, <1>a, <2>1, BudgetKept
\* A handler whose work on the row, if any, counts as it did.
<1>b. ASSUME NEW h \in Handlers, NEW j, Becomes(h, j),
             Trying(j, r) <=> Trying(job[h], r), Asking(j, r) <=> Asking(job[h], r)
      PROVE  Tries(r)' = Tries(r) /\ Asks(r)' = Asks(r)
  <2> HIDE DEF Trying, Asking
  <2>1. Tries(r)' = Tries(r)
    <3>1. CASE Trying(j, r)
      <4>1. Tries(r)' = Tries(r) \cup {h}
        BY <1>0, <1>b, <3>1, JobMoves
      <4>2. h \in Tries(r)
        BY <1>b, <3>1 DEF Tries
      <4> QED BY <4>1, <4>2
    <3>2. CASE ~Trying(j, r)
      <4>1. Tries(r)' = Tries(r) \ {h}
        BY <1>0, <1>b, <3>2, JobMoves
      <4>2. h \notin Tries(r)
        BY <1>b, <3>2 DEF Tries
      <4> QED BY <4>1, <4>2
    <3> QED BY <3>1, <3>2
  <2>2. Asks(r)' = Asks(r)
    <3>1. CASE Asking(j, r)
      <4>1. Asks(r)' = Asks(r) \cup {h}
        BY <1>0, <1>b, <3>1, JobMoves
      <4>2. h \in Asks(r)
        BY <1>b, <3>1 DEF Asks
      <4> QED BY <4>1, <4>2
    <3>2. CASE ~Asking(j, r)
      <4>1. Asks(r)' = Asks(r) \ {h}
        BY <1>0, <1>b, <3>2, JobMoves
      <4>2. h \notin Asks(r)
        BY <1>b, <3>2 DEF Asks
      <4> QED BY <4>1, <4>2
    <3> QED BY <3>1, <3>2
  <2> QED BY <2>1, <2>2
<1>1. CASE UNCHANGED <<otp, job, asked, lost>>
  BY <1>a, <1>1 DEF Tries, Asks
<1>2. CASE Tick
  <2>1. Tries(r)' = Tries(r) /\ Asks(r)' = Asks(r) /\ asked' = asked /\ lost' = lost
    BY <1>2 DEF Tick, Tries, Asks
  <2>2. Open(r)' => Open(r) /\ otp'[r].attempts >= otp[r].attempts
    BY <1>0, <1>2 DEF Tick, Open, OtpRow
  <2> QED BY <1>0, <2>1, <2>2, BudgetKept
<1>3. ASSUME NEW h \in Handlers,
             SendOtp(h) \/ SendAnswered(h) \/ OtherCall(h) \/ OtherAnswered(h)
      PROVE  Budget(r)'
  <2>1. /\ otp' = otp /\ asked' = asked /\ lost' = lost
        /\ job' = job \/ \E j : Becomes(h, j) /\ j.pc \in {"idle", "send", "sending", "charging"}
        /\ job[h].pc \in {"idle", "sending", "charging"}
    BY <1>3 DEF SendOtp, SendAnswered, OtherCall, OtherAnswered, Idle
  <2>2. Tries(r)' = Tries(r) /\ Asks(r)' = Asks(r)
    <3>1. CASE job' = job
      BY <3>1 DEF Tries, Asks
    <3>2. ASSUME NEW j, Becomes(h, j), j.pc \in {"idle", "send", "sending", "charging"}
          PROVE  Tries(r)' = Tries(r) /\ Asks(r)' = Asks(r)
      BY <1>b, <2>1, <3>2 DEF Trying, Asking
    <3> QED BY <2>1, <3>1, <3>2
  <2> QED BY <1>a, <2>1, <2>2
<1>4. ASSUME NEW h \in Handlers, CreateCode(h) PROVE Budget(r)'
  <2>1. job[h].pc = "send" /\ Becomes(h, Idle) /\ asked' = asked /\ lost' = lost
    BY <1>4 DEF CreateCode
  <2>2. Tries(r)' = Tries(r) /\ Asks(r)' = Asks(r)
    BY <1>b, <2>1 DEF Trying, Asking, Idle
  <2>3. r \in DOMAIN otp => otp'[r] = otp[r]
    BY <1>0, <1>4 DEF CreateCode, TypeOK
  <2>4. Open(r)' => asked[r] = 0 \/ (Open(r) /\ otp'[r].attempts >= otp[r].attempts)
    BY <1>0, <2>3 DEF Open, Budget
  <2> QED BY <1>0, <2>1, <2>2, <2>4, BudgetKept
<1>5. ASSUME NEW h \in Handlers, VerifyRead(h) PROVE Budget(r)'
  <2>1. /\ job[h].pc = "idle" /\ otp' = otp /\ asked' = asked /\ lost' = lost
        /\ Len(otp) \in DOMAIN otp
    BY <1>0, <1>5, OtpDomain DEF VerifyRead, Idle, TypeOK
  <2>2. \/ \E s \in {"FAILED", "EXPIRED"} : Becomes(h, [pc |-> "mark", row |-> Len(otp), status |-> s])
        \/ Open(Len(otp)) /\ Becomes(h, Try("verify", Len(otp)))
    BY <1>0, <1>5, <2>1 DEF VerifyRead, Mark, Open
  <2>3. ASSUME NEW s \in {"FAILED", "EXPIRED"},
               Becomes(h, [pc |-> "mark", row |-> Len(otp), status |-> s])
        PROVE  Budget(r)'
    <3>1. Tries(r)' = Tries(r) /\ Asks(r)' = Asks(r)
      BY <1>b, <2>1, <2>3 DEF Trying, Asking
    <3> QED BY <1>a, <2>1, <3>1
  <2>4. ASSUME Open(Len(otp)), Becomes(h, Try("verify", Len(otp))),
               r # Len(otp)
        PROVE  Budget(r)'
    <3>1. Tries(r)' = Tries(r) /\ Asks(r)' = Asks(r)
      BY <1>b, <2>1, <2>4 DEF Trying, Asking, Try
    <3> QED BY <1>a, <2>1, <3>1
  <2>5. ASSUME Open(Len(otp)), Becomes(h, Try("verify", Len(otp))),
               r = Len(otp)
        PROVE  Budget(r)'
    <3>1. Asks(r)' = Asks(r)
      <4>1. h \notin Asks(r)
        BY <2>1 DEF Asks, Asking
      <4>2. ~Asking(Try("verify", Len(otp)), r)
        BY DEF Asking, Try
      <4>3. Asks(r)' = Asks(r) \ {h}
        BY <1>0, <2>5, <4>2, JobMoves
      <4> QED BY <4>1, <4>3
    <3>2. asked[r] <= otp[r].attempts + Cardinality(Asks(r)) + lost[r] /\ otp[r].attempts < MaxAttempts
      BY <2>5 DEF Budget, Open
    <3>3. /\ Cardinality(Tries(r)') \in Nat /\ Cardinality(Asks(r)) \in Nat
          /\ Cardinality(Handlers) \in Nat
          /\ Cardinality(Tries(r)') + Cardinality(Asks(r)) <= Cardinality(Handlers)
      BY <3>1, RowCountsNext
    <3>4. (asked[r] + Cardinality(Tries(r)) <= MaxAttempts - 1 + Cardinality(Handlers) + lost[r])'
      <4>1. asked[r] + Cardinality(Tries(r)') <= MaxAttempts - 1 + Cardinality(Handlers) + lost[r]
        <5>1. otp[r].attempts \in Nat
          BY <1>0, <2>1, <2>5
        <5> QED BY <1>0, <3>2, <3>3, <5>1
      <4> QED BY <2>1, <4>1
    <3>5. (Open(r) => asked[r] <= otp[r].attempts + Cardinality(Asks(r)) + lost[r])'
      BY <2>1, <3>1, <3>2
    <3> QED BY <2>1, <2>5, <3>4, <3>5 DEF Budget
  <2> QED BY <2>2, <2>3, <2>4, <2>5
<1>6. ASSUME NEW h \in Handlers, VerifyCall(h) PROVE Budget(r)'
  <2>1. PICK pc \in {"verifying", "miss"} : Becomes(h, Try(pc, job[h].row))
    BY <1>6 DEF VerifyCall
  <2>2. /\ job[h].pc = "verify" /\ otp' = otp /\ lost' = lost
        /\ asked' = asked \/ asked' = [asked EXCEPT ![job[h].row] = @ + 1]
    BY <1>6 DEF VerifyCall
  <2>3. CASE r # job[h].row
    <3>1. Tries(r)' = Tries(r) /\ Asks(r)' = Asks(r)
      BY <1>b, <2>1, <2>2, <2>3 DEF Trying, Asking, Try
    <3>2. asked'[r] = asked[r]
      BY <1>0, <2>2, <2>3 DEF TypeOK
    <3> QED BY <1>a, <2>2, <3>1, <3>2
  <2>4. CASE r = job[h].row
    <3>1. h \in Tries(r) /\ h \notin Asks(r)
      BY <2>2, <2>4 DEF Tries, Asks, Trying, Asking
    <3>2. Tries(r)' = Tries(r) \ {h} /\ Asks(r)' = Asks(r) \cup {h}
      <4>1. ~Trying(Try(pc, job[h].row), r) /\ Asking(Try(pc, job[h].row), r)
        BY <2>4 DEF Trying, Asking, Try
      <4> QED BY <1>0, <2>1, <4>1, JobMoves
    <3>3. /\ Cardinality(Tries(r)') = Cardinality(Tries(r)) - 1
          /\ Cardinality(Asks(r)') = Cardinality(Asks(r)) + 1
      <4>1. IsFiniteSet(Tries(r)) /\ IsFiniteSet(Asks(r))
        BY RowCounts
      <4>2. Cardinality(Tries(r) \ {h}) = Cardinality(Tries(r)) - 1
        BY <3>1, <4>1, FS_RemoveElement
      <4>3. Cardinality(Asks(r) \cup {h}) = Cardinality(Asks(r)) + 1
        BY <3>1, <4>1, FS_AddElement
      <4> QED BY <3>2, <4>2, <4>3
    <3>4. /\ Cardinality(Tries(r)) \in Nat /\ Cardinality(Asks(r)) \in Nat
          /\ Cardinality(Handlers) \in Nat
      BY RowCounts
    <3>5. asked'[r] \in Nat /\ asked'[r] <= asked[r] + 1
      BY <1>0, <2>2, <2>4 DEF TypeOK
    <3>6. (asked[r] + Cardinality(Tries(r)) <= MaxAttempts - 1 + Cardinality(Handlers) + lost[r])'
      BY <1>0, <2>2, <3>3, <3>4, <3>5 DEF Budget
    <3>7. (Open(r) => asked[r] <= otp[r].attempts + Cardinality(Asks(r)) + lost[r])'
      <4> SUFFICES ASSUME Open(r)' PROVE asked'[r] <= otp[r].attempts + Cardinality(Asks(r)') + lost[r]
        BY <2>2
      <4>1. Open(r) /\ otp[r].attempts \in Nat
        BY <1>0, <2>2 DEF Open
      <4> QED BY <1>0, <3>3, <3>4, <3>5, <4>1 DEF Budget
    <3>8. (r \notin DOMAIN otp => asked[r] = 0)'
      BY <1>0, <2>2, <2>4 DEF RowsExist
    <3> QED BY <3>6, <3>7, <3>8 DEF Budget
  <2> QED BY <2>3, <2>4
<1>7. ASSUME NEW h \in Handlers, VerifyAnswered(h) PROVE Budget(r)'
  <2>1. /\ job[h].pc = "verifying" /\ otp' = otp /\ asked' = asked /\ lost' = lost
        /\ \/ Becomes(h, [pc |-> "mark", row |-> job[h].row, status |-> "VERIFIED"])
           \/ Becomes(h, Try("miss", job[h].row))
    BY <1>7 DEF VerifyAnswered, Mark
  <2>2. Tries(r)' = Tries(r) /\ Asks(r)' = Asks(r)
    BY <1>b, <2>1 DEF Trying, Asking, Try
  <2> QED BY <1>a, <2>1, <2>2
<1>8. ASSUME NEW h \in Handlers, VerifyMiss(h) PROVE Budget(r)'
  <2>1. /\ job[h].pc = "miss" /\ job[h].row \in DOMAIN otp /\ DOMAIN otp' = DOMAIN otp
        /\ otp' = [otp EXCEPT ![job[h].row].attempts = @ + 1]
        /\ Becomes(h, Idle) /\ asked' = asked /\ lost' = lost
    BY <1>0, <1>8, OtpDomain DEF VerifyMiss, RowsExist
  <2>2. Tries(r)' = Tries(r) /\ Asks(r)' = Asks(r) \ {h}
    <3>1. h \notin Tries(r)
      BY <2>1 DEF Tries, Trying
    <3>2. ~Trying(Idle, r) /\ ~Asking(Idle, r)
      BY DEF Trying, Asking, Idle
    <3>3. Tries(r)' = Tries(r) \ {h} /\ Asks(r)' = Asks(r) \ {h}
      BY <1>0, <2>1, <3>2, JobMoves
    <3> QED BY <3>1, <3>3
  <2>3. CASE r # job[h].row
    <3>1. h \notin Asks(r)
      BY <2>1, <2>3 DEF Asks, Asking
    <3>2. Open(r)' => Open(r) /\ otp'[r].attempts >= otp[r].attempts
      BY <1>0, <2>1, <2>3 DEF Open
    <3>3. Tries(r)' = Tries(r) /\ Asks(r)' = Asks(r)
      BY <2>2, <3>1
    <3> QED BY <1>0, <2>1, <3>2, <3>3, BudgetKept
  <2>4. CASE r = job[h].row
    <3>1. h \in Asks(r)
      BY <2>1, <2>4 DEF Asks, Asking
    <3>2. Cardinality(Asks(r)') = Cardinality(Asks(r)) - 1 /\ Cardinality(Asks(r)) \in Nat
      BY <2>2, <3>1, RowCounts, FS_RemoveElement
    <3>3. otp'[r] = [otp[r] EXCEPT !.attempts = @ + 1]
      BY <2>1, <2>4
    <3>4. /\ otp'[r].attempts = otp[r].attempts + 1 /\ otp'[r].status = otp[r].status
          /\ otp'[r].life = otp[r].life
      BY <1>0, <2>1, <2>4, <3>3 DEF OtpRow
    <3>5. (Open(r) => asked[r] <= otp[r].attempts + Cardinality(Asks(r)) + lost[r])'
      <4> SUFFICES ASSUME Open(r)' PROVE asked[r] <= otp'[r].attempts + Cardinality(Asks(r)') + lost[r]
        BY <2>1
      <4>1. Open(r)
        BY <1>0, <2>1, <2>4, <3>4 DEF Open
      <4> QED BY <1>0, <2>1, <2>4, <3>2, <3>4, <4>1 DEF Budget
    <3>6. (asked[r] + Cardinality(Tries(r)) <= MaxAttempts - 1 + Cardinality(Handlers) + lost[r])'
      BY <2>1, <2>2 DEF Budget
    <3> QED BY <2>1, <2>4, <3>5, <3>6 DEF Budget
  <2> QED BY <2>3, <2>4
<1>9. ASSUME NEW h \in Handlers, VerifyMark(h) PROVE Budget(r)'
  <2>1. /\ job[h].pc = "mark" /\ job[h].row \in DOMAIN otp /\ DOMAIN otp' = DOMAIN otp
        /\ otp' = [otp EXCEPT ![job[h].row].status = job[h].status]
        /\ Becomes(h, Idle) /\ asked' = asked /\ lost' = lost
    BY <1>0, <1>9, OtpDomain DEF VerifyMark, RowsExist
  <2>2. Tries(r)' = Tries(r) /\ Asks(r)' = Asks(r) \ {h}
    <3>1. h \notin Tries(r)
      BY <2>1 DEF Tries, Trying
    <3>2. ~Trying(Idle, r) /\ ~Asking(Idle, r)
      BY DEF Trying, Asking, Idle
    <3>3. Tries(r)' = Tries(r) \ {h} /\ Asks(r)' = Asks(r) \ {h}
      BY <1>0, <2>1, <3>2, JobMoves
    <3> QED BY <3>1, <3>3
  <2>3. CASE r # job[h].row
    <3>1. h \notin Asks(r)
      BY <2>1, <2>3 DEF Asks, Asking
    <3>2. Open(r)' => Open(r) /\ otp'[r].attempts >= otp[r].attempts
      BY <1>0, <2>1, <2>3 DEF Open
    <3>3. Tries(r)' = Tries(r) /\ Asks(r)' = Asks(r)
      BY <2>2, <3>1
    <3> QED BY <1>0, <2>1, <3>2, <3>3, BudgetKept
  <2>4. CASE r = job[h].row
    <3>1. ~Open(r)'
      <4>1. otp'[r] = [otp[r] EXCEPT !.status = job[h].status]
        BY <2>1, <2>4
      <4>2. /\ otp'[r].attempts = otp[r].attempts /\ otp'[r].status = job[h].status
            /\ otp'[r].life = otp[r].life
        BY <1>0, <2>1, <2>4, <4>1 DEF OtpRow
      <4>3. job[h].status \in {"VERIFIED", "EXPIRED", "FAILED"}
        <5>1. job[h] \in Job
          BY <1>0 DEF TypeOK
        <5> QED BY <2>1, <5>1, JobFields
      <4>4. /\ job[h].status = "FAILED" => otp[r].attempts >= MaxAttempts
            /\ job[h].status = "EXPIRED" => otp[r].life = 0
        BY <2>1, <2>4 DEF MarksClose
      <4> QED BY <1>0, <2>1, <2>4, <4>2, <4>3, <4>4 DEF Open
    <3>2. (asked[r] + Cardinality(Tries(r)) <= MaxAttempts - 1 + Cardinality(Handlers) + lost[r])'
      BY <2>1, <2>2 DEF Budget
    <3> QED BY <2>1, <2>4, <3>1, <3>2 DEF Budget
  <2> QED BY <2>3, <2>4
\* Requests that end early: what each had asked moves from Asks to lost.
<1>c. ASSUME NEW H \in SUBSET Handlers, Ends(H), otp' = otp, asked' = asked,
             Asks(r)' = Asks(r) \ H, Tries(r)' \subseteq Tries(r)
      PROVE  Budget(r)'
  <2>1. lost'[r] = lost[r] + Cardinality(Asks(r) \cap H)
    BY <1>0, <1>c, EndsCounts
  <2>2. IsFiniteSet(Asks(r)) /\ IsFiniteSet(Tries(r))
    BY RowCounts
  <2>3. /\ IsFiniteSet(Asks(r) \cap H) /\ IsFiniteSet(Asks(r) \ H)
        /\ Cardinality(Tries(r)') \in Nat /\ Cardinality(Tries(r)') <= Cardinality(Tries(r))
    <3>1. IsFiniteSet(Tries(r)') /\ Cardinality(Tries(r)') <= Cardinality(Tries(r))
      BY <1>c, <2>2, FS_Subset
    <3> QED BY <2>2, <3>1, FS_Subset, FS_CardinalityType
  <2>4. Cardinality(Asks(r)) = Cardinality(Asks(r) \cap H) + Cardinality(Asks(r) \ H)
    <3>1. Asks(r) = (Asks(r) \cap H) \cup (Asks(r) \ H) /\ (Asks(r) \cap H) \cap (Asks(r) \ H) = {}
      OBVIOUS
    <3> QED BY <2>3, <3>1, FS_Union, FS_EmptySet, FS_CardinalityType
  <2>5. /\ Cardinality(Asks(r) \cap H) \in Nat /\ Cardinality(Asks(r) \ H) \in Nat
        /\ Cardinality(Tries(r)) \in Nat /\ Cardinality(Handlers) \in Nat
    BY <2>3, FS_CardinalityType, RowCounts
  <2>6. (Open(r) => asked[r] <= otp[r].attempts + Cardinality(Asks(r)) + lost[r])'
    <3> SUFFICES ASSUME Open(r)' PROVE asked[r] <= otp[r].attempts + Cardinality(Asks(r)') + lost'[r]
      BY <1>c
    <3>1. Open(r) /\ otp[r].attempts \in Nat
      BY <1>0, <1>c DEF Open
    <3> QED BY <1>0, <1>c, <2>1, <2>4, <2>5, <3>1 DEF Budget
  <2>7. (asked[r] + Cardinality(Tries(r)) <= MaxAttempts - 1 + Cardinality(Handlers) + lost[r])'
    BY <1>0, <1>c, <2>1, <2>3, <2>5 DEF Budget
  <2>8. (r \notin DOMAIN otp => asked[r] = 0)'
    BY <1>c DEF Budget
  <2> QED BY <2>6, <2>7, <2>8 DEF Budget
<1>10. ASSUME NEW h \in Handlers, StatementThrows(h) PROVE Budget(r)'
  <2>1. ~Trying(Idle, r) /\ ~Asking(Idle, r) /\ Becomes(h, Idle)
    BY <1>10 DEF Trying, Asking, Idle, StatementThrows
  <2>2. Tries(r)' = Tries(r) \ {h} /\ Asks(r)' = Asks(r) \ {h}
    BY <1>0, <2>1, JobMoves
  <2> QED BY <1>10, <1>c, <2>2 DEF StatementThrows
<1>11. CASE ReplicaDies
  <2>1. Tries(r)' = {} /\ Asks(r)' = {}
    BY <1>11 DEF ReplicaDies, Tries, Asks, Trying, Asking, Idle
  <2>2. Asks(r)' = Asks(r) \ Handlers
    BY <2>1 DEF Asks
  <2> QED BY <1>11, <1>c, <2>1, <2>2 DEF ReplicaDies
<1> QED BY <1>1, <1>2, <1>3, <1>4, <1>5, <1>6, <1>7, <1>8, <1>9, <1>10, <1>11 DEF Next, vars

GuessInv ==
    /\ OtpInv
    /\ MarksClose
    /\ \A r \in Rows : Budget(r)

LEMMA InitGuessInv == Init => GuessInv
<1> SUFFICES ASSUME Init PROVE GuessInv
  OBVIOUS
<1>1. OtpInv
  BY InitOtpInv
<1>2. MarksClose
  BY DEF Init, MarksClose, Idle
<1>3. ASSUME NEW r \in Rows PROVE Budget(r)
  <2>1. Tries(r) = {} /\ asked[r] = 0 /\ lost[r] = 0 /\ DOMAIN otp = {}
    BY <1>3 DEF Init, Tries, Trying, Idle
  <2>2. Cardinality(Tries(r)) = 0 /\ Cardinality(Handlers) \in Nat
    BY <2>1, FS_EmptySet, RowCounts
  <2> QED BY <2>1, <2>2, OtpAssumption DEF Budget, Open
<1> QED BY <1>1, <1>2, <1>3 DEF GuessInv

\* However many requests run together, the gateway is asked about a code at most
\* MaxAttempts times, once more for each of the other requests, and once more for
\* each request that ended without the UPDATE that counts it.
THEOREM GuessesAreBounded == Spec => []GuessesBounded
<1>1. GuessInv /\ [Next]_vars => GuessInv'
  BY OtpInvStep, MarksCloseStep, BudgetStep DEF GuessInv
<1>2. GuessInv => GuessesBounded
  <2> SUFFICES ASSUME GuessInv, NEW r \in Rows
               PROVE  asked[r] <= MaxAttempts - 1 + Cardinality(Handlers) + lost[r]
    BY DEF GuessesBounded
  <2>1. /\ asked[r] \in Nat /\ lost[r] \in Nat /\ Cardinality(Tries(r)) \in Nat /\ Cardinality(Handlers) \in Nat
        /\ MaxAttempts \in Nat
    BY RowCounts, OtpAssumption DEF GuessInv, OtpInv, TypeOK
  <2> QED BY <2>1 DEF GuessInv, Budget
<1> QED BY <1>1, <1>2, InitGuessInv, PTL DEF Spec
=============================================================================
