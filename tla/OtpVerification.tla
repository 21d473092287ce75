-------------------------- MODULE OtpVerification --------------------------
(***************************************************************************)
(* One-time codes for one reference_ref: the otp_verifications table and   *)
(* the handlers of /otp/send and /otp/verify                               *)
(* (backend/src/services/otpService.js), which call the gateway through    *)
(* the breaker of their replica together with charges and refunds.         *)
(*                                                                         *)
(* otp is the table in the order of created_at; life is expires_at - now   *)
(* in ticks, 0 once the code has expired.  A handler keeps the row it read *)
(* while other handlers work on it; each UPDATE is a statement of its own. *)
(***************************************************************************)
EXTENDS CircuitBreaker, Sequences

CONSTANTS
    MaxAttempts,  \* the 5 of verifyOtp
    Lifetime,     \* the five minutes of a code, in ticks
    MaxCodes,     \* bound: codes ever sent for the reference
    MaxLost       \* bound: requests, on one row, that end before their last UPDATE

ASSUME OtpAssumption ==
    /\ MaxAttempts \in Nat \ {0} /\ Lifetime \in Nat \ {0}
    /\ MaxCodes \in Nat \ {0} /\ MaxLost \in Nat

VARIABLES
    otp,       \* otp_verifications of the reference
    job,       \* what each handler is doing
    asked,     \* history: codes the gateway was asked to verify, by row
    accepted,  \* history: rows whose code the gateway accepted
    lost       \* history: requests that turned to the gateway and ended before
               \* their UPDATE, by row

otpVars == <<otp, job, asked, accepted, lost>>
vars == <<breaker, calling, faulty, otp, job, asked, accepted, lost>>

Rows == 1..MaxCodes
OtpRow == [status : {"PENDING", "VERIFIED", "EXPIRED", "FAILED"}, attempts : Nat, life : 0..Lifetime]
Idle == [pc |-> "idle"]

Job ==
    {Idle}
        \cup [pc : {"send", "sending", "charging"}]
        \cup [pc : {"verify", "verifying", "miss"}, row : Rows]
        \cup [pc : {"mark"}, row : Rows, status : {"VERIFIED", "EXPIRED", "FAILED"}]

Init ==
    /\ BreakerInit
    /\ otp = <<>>
    /\ job = [h \in Handlers |-> Idle]
    /\ asked = [r \in Rows |-> 0]
    /\ accepted = {}
    /\ lost = [r \in Rows |-> 0]

Becomes(h, j) == job' = [job EXCEPT ![h] = j]
CallsOut == {"sending", "verifying", "charging"}
Try(pc, r) == [pc |-> pc, row |-> r]
Mark(h, r, status) == Becomes(h, [pc |-> "mark", row |-> r, status |-> status])

\* At work on row r: its last UPDATE, of the attempts or to VERIFIED, is to come.
Asking(j, r) ==
    \/ j.pc \in {"verifying", "miss"} /\ j.row = r
    \/ j.pc = "mark" /\ j.status = "VERIFIED" /\ j.row = r
Asks(r) == {h \in Handlers : Asking(job[h], r)}

-----------------------------------------------------------------------------
\* sendOtp: the gateway first, the row only once it answered; any answer that
\* is not an error makes a row, a 4xx as well.
SendOtp(h) ==
    /\ job[h] = Idle
    /\ \/ CallStart(h) /\ Becomes(h, [pc |-> "sending"])
       \/ CallRefused(h) /\ UNCHANGED job
    /\ UNCHANGED <<otp, asked, accepted, lost>>

SendAnswered(h) ==
    /\ job[h].pc = "sending"
    /\ \/ (CallOk(h) \/ CallRejected(h)) /\ Becomes(h, [pc |-> "send"])
       \/ CallFailed(h) /\ Becomes(h, Idle)
    /\ UNCHANGED <<otp, asked, accepted, lost>>

CreateCode(h) ==
    /\ job[h].pc = "send"
    /\ Len(otp) < MaxCodes
    /\ otp' = Append(otp, [status |-> "PENDING", attempts |-> 0, life |-> Lifetime])
    /\ Becomes(h, Idle)
    /\ UNCHANGED <<breakerVars, asked, accepted, lost>>

\* Mutant: one attempt too many.
VerifyRead_OffByOne(h) ==
    /\ job[h] = Idle
    /\ otp # <<>>
    /\ LET r == Len(otp) IN
        /\ otp[r].status # "VERIFIED"
        /\ IF otp[r].attempts > MaxAttempts THEN Mark(h, r, "FAILED")
           ELSE IF otp[r].life = 0 THEN Mark(h, r, "EXPIRED")
           ELSE Becomes(h, Try("verify", r))
    /\ UNCHANGED <<breakerVars, otp, asked, accepted, lost>>

\* Mutant: a verified row is tried again.
VerifyRead_Again(h) ==
    /\ job[h] = Idle
    /\ otp # <<>>
    /\ LET r == Len(otp) IN
        IF otp[r].attempts >= MaxAttempts THEN Mark(h, r, "FAILED")
        ELSE IF otp[r].life = 0 THEN Mark(h, r, "EXPIRED")
        ELSE Becomes(h, Try("verify", r))
    /\ UNCHANGED <<breakerVars, otp, asked, accepted, lost>>

\* verifyOtp up to the gateway: the newest row, unless it is verified already
\* (which returns).  EXPIRED and FAILED are written but never asked for: the
\* attempts and the time are.
VerifyRead(h) ==
    /\ job[h] = Idle
    /\ otp # <<>>
    /\ LET r == Len(otp) IN
        /\ otp[r].status # "VERIFIED"
        /\ IF otp[r].attempts >= MaxAttempts THEN Mark(h, r, "FAILED")
           ELSE IF otp[r].life = 0 THEN Mark(h, r, "EXPIRED")
           ELSE Becomes(h, Try("verify", r))
    /\ UNCHANGED <<breakerVars, otp, asked, accepted, lost>>

\* The call, or the refusal of the open circuit, which costs an attempt too.
VerifyCall(h) ==
    /\ job[h].pc = "verify"
    /\ \/ /\ CallStart(h)
          /\ Becomes(h, Try("verifying", job[h].row))
          /\ asked' = [asked EXCEPT ![job[h].row] = @ + 1]
       \/ /\ CallRefused(h)
          /\ Becomes(h, Try("miss", job[h].row))
          /\ UNCHANGED asked
    /\ UNCHANGED <<otp, accepted, lost>>

\* Mutant: the status of the answer is not looked at.
VerifyAnswered_AnyStatus(h) ==
    /\ job[h].pc = "verifying"
    /\ \/ /\ CallOk(h)
          /\ accepted' = accepted \cup {job[h].row}
          /\ Mark(h, job[h].row, "VERIFIED")
       \/ CallRejected(h) /\ UNCHANGED accepted /\ Mark(h, job[h].row, "VERIFIED")
       \/ CallFailed(h) /\ UNCHANGED accepted /\ Becomes(h, Try("miss", job[h].row))
    /\ UNCHANGED <<otp, asked, lost>>

\* A 400 is returned by _request, not thrown; a 5xx, a time-out or a network
\* error is thrown; the code of a 200 may still not be the one that was hashed.
VerifyAnswered(h) ==
    /\ job[h].pc = "verifying"
    /\ \/ /\ CallOk(h)
          /\ accepted' = accepted \cup {job[h].row}
          /\ Mark(h, job[h].row, "VERIFIED")
       \/ /\ CallRejected(h) \/ CallFailed(h) \/ CallOk(h)
          /\ Becomes(h, Try("miss", job[h].row))
          /\ UNCHANGED accepted
    /\ UNCHANGED <<otp, asked, lost>>

\* incrementAttempts: attempts = attempts + 1 in the statement.
VerifyMiss(h) ==
    /\ job[h].pc = "miss"
    /\ otp' = [otp EXCEPT ![job[h].row].attempts = @ + 1]
    /\ Becomes(h, Idle)
    /\ UNCHANGED <<breakerVars, asked, accepted, lost>>

\* updateStatus: by primary key, over whatever status the row has by now.
VerifyMark(h) ==
    /\ job[h].pc = "mark"
    /\ otp' = [otp EXCEPT ![job[h].row].status = job[h].status]
    /\ Becomes(h, Idle)
    /\ UNCHANGED <<breakerVars, asked, accepted, lost>>

\* The requests of H end with no UPDATE: what they asked the gateway stays
\* unknown to the table.
Ends(H) ==
    /\ lost' = [r \in Rows |-> lost[r] + Cardinality(Asks(r) \cap H)]
    /\ \E r \in Rows : lost'[r] <= MaxLost /\ \A q \in Rows \ {r} : lost'[q] = 0

\* The INSERT or the UPDATE throws; the request ends in a 500.
StatementThrows(h) ==
    /\ job[h].pc \in {"send", "miss", "mark"}
    /\ Ends({h})
    /\ Becomes(h, Idle)
    /\ UNCHANGED <<breakerVars, otp, asked, accepted>>

\* The replica dies with all its requests and is started again.
ReplicaDies ==
    /\ Ends(Handlers)
    /\ job' = [h \in Handlers |-> Idle]
    /\ BreakerRestart
    /\ UNCHANGED <<otp, asked, accepted>>

\* A charge, a refund or a health check on the same replica.
OtherCall(h) ==
    /\ job[h] = Idle
    /\ CallStart(h)
    /\ Becomes(h, [pc |-> "charging"])
    /\ UNCHANGED <<otp, asked, accepted, lost>>

OtherAnswered(h) ==
    /\ job[h].pc = "charging"
    /\ CallOk(h) \/ CallRejected(h) \/ CallFailed(h)
    /\ Becomes(h, Idle)
    /\ UNCHANGED <<otp, asked, accepted, lost>>

Tick ==
    /\ BreakerTick
    /\ otp' = [r \in DOMAIN otp |-> [otp[r] EXCEPT !.life = IF @ = 0 THEN 0 ELSE @ - 1]]
    /\ UNCHANGED <<job, asked, accepted, lost>>

Next ==
    \/ \E h \in Handlers :
        \/ SendOtp(h)
        \/ SendAnswered(h)
        \/ CreateCode(h)
        \/ VerifyRead(h)
        \/ VerifyCall(h)
        \/ VerifyAnswered(h)
        \/ VerifyMiss(h)
        \/ VerifyMark(h)
        \/ StatementThrows(h)
        \/ OtherCall(h)
        \/ OtherAnswered(h)
    \/ ReplicaDies
    \/ Tick

Spec == Init /\ [][Next]_vars

-----------------------------------------------------------------------------
\* The variables have their types, and a handler in a call waits for it.
TypeOK ==
    /\ BreakerTypeOK
    /\ otp \in Seq(OtpRow) /\ Len(otp) <= MaxCodes
    /\ job \in [Handlers -> Job]
    /\ asked \in [Rows -> Nat]
    /\ accepted \in SUBSET DOMAIN otp
    /\ lost \in [Rows -> Nat]
    /\ \A h \in Handlers : h \in calling <=> job[h].pc \in CallsOut

\* "Maximum OTP verification attempts (5) exceeded" (otpService.js:49), as far
\* as requests that run together and requests cut off allow: each request may
\* still ask once on the count it read, and one that ends before its UPDATE, by
\* an exception of the table or the death of the replica, is never counted.  The
\* gateway sees at most the 5, one more per other request and one per lost one.
GuessesBounded ==
    \A r \in Rows : asked[r] <= MaxAttempts - 1 + Cardinality(Handlers) + lost[r]

\* A code is VERIFIED only if the gateway accepted it, though a refusal comes
\* back from gatewayClient without an exception (otpService.js:68).
VerifiedWasAccepted ==
    \A r \in DOMAIN otp : otp[r].status = "VERIFIED" => r \in accepted

\* A row that is VERIFIED and that no request is at work on.
QuietlyVerified(r) ==
    /\ r \in DOMAIN otp /\ otp[r].status = "VERIFIED"
    /\ \A h \in Handlers : job[h].pc \in {"verify", "verifying", "miss", "mark"} => job[h].row # r

\* Only a request that read the row before it was verified can undo that, by
\* writing FAILED or EXPIRED over it (otpService.js:80 writes by primary key):
\* once those have ended, verified is for ever, however long its code has expired
\* and however often it is tried again.
VerifiedStays == [][\A r \in Rows : QuietlyVerified(r) => QuietlyVerified(r)']_vars
=============================================================================
