--------------------------- MODULE WebhooksProofs ---------------------------
(***************************************************************************)
(* Proofs about module Webhooks, for every set of charges, replicas and    *)
(* handlers, every number of attempts and every limit.                     *)
(*                                                                         *)
(* That an event acts once is not inductive: a COMMIT keeps it only if the *)
(* event is not recorded yet.  Insert saw to that, and it stays so until   *)
(* the COMMIT because no other transaction has the event meanwhile         *)
(* (OneTransaction, TransactionIsFirst).  The refinement of Callbacks      *)
(* follows: a step that acts is a COMMIT of an event not yet acted on.     *)
(***************************************************************************)
EXTENDS Webhooks, TLAPS

\* The fields of a handler at work.
LEMMA HookFields ==
    ASSUME NEW j \in Hook, j # Idle
    PROVE  /\ j.charge \in Charges /\ j.copy \in Copies /\ j.replica \in Replicas
           /\ j.heard \in BOOLEAN /\ j.pc \in {"begun", "tx", "ok", "bad"}
BY DEF Hook

\* Sends changes one sender.
LEMMA SendsOne ==
    ASSUME sender \in [Charges -> [Copies -> Sender]], NEW c \in Charges, NEW i \in Copies,
           NEW pc \in {"none", "timer", "out", "delivered", "gaveUp", "gone"}, Sends(c, i, pc)
    PROVE  /\ sender' \in [Charges -> [Copies -> Sender]]
           /\ sender'[c][i].pc = pc /\ sender'[c][i].tries = sender[c][i].tries
           /\ \A d \in Charges, j \in Copies : d # c \/ j # i => sender'[d][j] = sender[d][j]
<1>1. sender[c][i] \in Sender
  OBVIOUS
<1>2. /\ [sender[c][i] EXCEPT !.pc = pc] \in Sender
      /\ [sender[c][i] EXCEPT !.pc = pc].pc = pc
      /\ [sender[c][i] EXCEPT !.pc = pc].tries = sender[c][i].tries
  BY <1>1 DEF Sender
<1>3. sender' = [sender EXCEPT ![c][i] = [sender[c][i] EXCEPT !.pc = pc]]
  BY DEF Sends
<1> QED BY <1>2, <1>3

LEMMA SendsDelivered ==
    ASSUME sender \in [Charges -> [Copies -> Sender]], NEW c \in Charges, NEW i \in Copies,
           NEW pc \in {"timer", "delivered", "gaveUp"}, Sends(c, i, pc),
           NEW d \in Charges, NEW j \in Copies, sender'[d][j].pc = "delivered"
    PROVE  sender[d][j].pc = "delivered" \/ (d = c /\ pc = "delivered")
<1>1. CASE d = c /\ j = i
  BY <1>1, SendsOne
<1>2. CASE d # c \/ j # i
  <2>1. sender'[d][j] = sender[d][j]
    BY <1>2, SendsOne
  <2> QED BY <2>1
<1> QED BY <1>1, <1>2

\* What an attempt does to the senders: the one that sends goes on, and no
\* sender that waits for an answer is touched but that one.
LEMMA AttemptSender ==
    ASSUME TypeOK, SentWasDecided,
           NEW c \in Charges, NEW i \in Copies, NEW pc \in {"out", "timer"}, Attempt(c, i, pc)
    PROVE  /\ sender' \in [Charges -> [Copies -> Sender]]
           /\ sender'[c][i].pc = pc /\ sender[c][i].pc = "timer"
           /\ \A d \in Charges, j \in Copies :
                /\ sender[d][j].pc = "out" => sender'[d][j] = sender[d][j]
                /\ d # c => sender'[d][j] = sender[d][j]
                /\ sender'[d][j].pc = "delivered" => sender[d][j].pc = "delivered"
           /\ sender'[c][1].tries = 0 => sender'[c][2].pc = "none"
           /\ verdict[c] # "NONE"
<1> USE WebhooksAssumption
<1> DEFINE turn == [pc |-> pc, tries |-> sender[c][i].tries + 1]
<1>1. /\ sender[c][i].pc = "timer" /\ sender[c][i].tries \in 0..MaxRetries
      /\ sender[c][i].tries < MaxRetries
      /\ sender \in [Charges -> [Copies -> Sender]]
  BY DEF Attempt, TypeOK, Sender
<1>2. turn \in Sender /\ turn.pc = pc /\ turn.tries # 0
  BY <1>1 DEF Sender
<1>3. CASE sender' = [sender EXCEPT ![c][i] = turn]
  BY <1>1, <1>2, <1>3 DEF SentWasDecided, Copies
<1>4. CASE i = 1 /\ sender[c][1].tries = 0
           /\ sender' = [sender EXCEPT ![c] =
                           [j \in Copies |-> IF j = 1 THEN turn ELSE [pc |-> "timer", tries |-> 0]]]
  BY <1>1, <1>2, <1>4 DEF SentWasDecided, Copies, Sender
<1> QED BY <1>3, <1>4 DEF Attempt

-----------------------------------------------------------------------------
(* Who sends what, and who listens to whom. *)

Wired == TypeOK /\ SentWasDecided /\ AnswersTheAttempt

LEMMA InitWired == Init => Wired
BY WebhooksAssumption
   DEF Init, Wired, TypeOK, SentWasDecided, AnswersTheAttempt, Sender, Hook, Idle, Copies

LEMMA NextWired == Wired /\ [Next]_vars => Wired'
<1> SUFFICES ASSUME Wired, [Next]_vars PROVE Wired'
  OBVIOUS
<1> USE WebhooksAssumption
<1>0. TypeOK /\ SentWasDecided /\ AnswersTheAttempt
  BY DEF Wired
<1>t. \A h \in Handlers : hook[h] \in Hook
  BY <1>0 DEF TypeOK
<1>1. ASSUME NEW c \in Charges, NEW v \in Verdicts, Charge(c, v) PROVE Wired'
  <2>1. Sends(c, 1, "timer") /\ 1 \in Copies /\ UNCHANGED <<hook, used, recorded, acts>>
    BY <1>1 DEF Charge, Copies
  <2>2. /\ verdict' \in [Charges -> Verdicts \cup {"NONE"}] /\ verdict'[c] # "NONE"
        /\ \A d \in Charges : d # c => verdict'[d] = verdict[d]
        /\ verdict[c] = "NONE"
    BY <1>0, <1>1 DEF Charge, TypeOK, Verdicts
  <2>3. sender[c][1].pc = "none" /\ sender[c][2].pc = "none"
    BY <1>0, <2>2 DEF SentWasDecided, Copies
  <2>4. /\ sender' \in [Charges -> [Copies -> Sender]]
        /\ sender'[c][1].tries = sender[c][1].tries
        /\ \A d \in Charges, j \in Copies : d # c \/ j # 1 => sender'[d][j] = sender[d][j]
    BY <1>0, <2>1, SendsOne DEF TypeOK
  <2>5. TypeOK'
    BY <1>0, <2>1, <2>2, <2>4 DEF TypeOK
  <2>6. SentWasDecided'
    <3>1. \A d \in Charges, j \in Copies : sender'[d][j].pc # "none" => verdict'[d] # "NONE"
      BY <1>0, <2>2, <2>4 DEF SentWasDecided
    <3>2. \A d \in Charges : sender'[d][1].tries = 0 => sender'[d][2].pc = "none"
      BY <1>0, <2>3, <2>4 DEF SentWasDecided, Copies
    <3>3. \A h \in Handlers : hook'[h] # Idle => verdict'[hook'[h].charge] # "NONE"
      BY <1>0, <1>t, <2>1, <2>2, HookFields DEF SentWasDecided
    <3> QED BY <3>1, <3>2, <3>3 DEF SentWasDecided
  <2>7. AnswersTheAttempt'
    BY <1>0, <1>t, <2>1, <2>3, <2>4, HookFields DEF AnswersTheAttempt
  <2> QED BY <2>5, <2>6, <2>7 DEF Wired
<1>2. ASSUME NEW c \in Charges, NEW i \in Copies, Send(c, i) PROVE Wired'
  <2>1. ASSUME NEW h \in Handlers, NEW r \in Replicas, Arrive(c, i, h, r) PROVE Wired'
    <3> DEFINE new == [pc |-> "begun", charge |-> c, copy |-> i, replica |-> r, heard |-> TRUE]
    <3>1. new \in Hook /\ new # Idle
      BY DEF Hook, Idle
    <3>2. hook' = [hook EXCEPT ![h] = new] /\ Attempt(c, i, "out") /\ verdict' = verdict
          /\ recorded' = recorded /\ acts' = acts
      BY <2>1 DEF Arrive
    <3>3. used' \in [Replicas -> 0..MaxHooks]
      BY <1>0, <2>1 DEF Arrive, TypeOK
    <3>4. \A g \in Handlers : hook'[g] = IF g = h THEN new ELSE hook[g]
      BY <1>0, <3>2 DEF TypeOK
    <3>5. TypeOK'
      BY <1>0, <3>1, <3>2, <3>3, AttemptSender DEF TypeOK
    <3>6. SentWasDecided'
      <4>1. \A d \in Charges, j \in Copies : sender'[d][j].pc # "none" => verdict'[d] # "NONE"
        BY <1>0, <3>2, AttemptSender DEF SentWasDecided
      <4>2. \A d \in Charges : sender'[d][1].tries = 0 => sender'[d][2].pc = "none"
        BY <1>0, <3>2, AttemptSender DEF SentWasDecided, Copies
      <4>3. \A g \in Handlers : hook'[g] # Idle => verdict'[hook'[g].charge] # "NONE"
        BY <1>0, <3>2, <3>4, AttemptSender DEF SentWasDecided
      <4> QED BY <4>1, <4>2, <4>3 DEF SentWasDecided
    <3>7. AnswersTheAttempt'
      <4>1. /\ sender'[c][i].pc = "out" /\ sender[c][i].pc = "timer"
            /\ \A d \in Charges, j \in Copies : sender[d][j].pc = "out" => sender'[d][j].pc = "out"
        BY <1>0, <3>2, AttemptSender
      <4>2. \A g \in Handlers : g # h /\ hook[g] # Idle /\ hook[g].heard =>
              /\ sender[hook[g].charge][hook[g].copy].pc = "out"
              /\ sender'[hook[g].charge][hook[g].copy].pc = "out"
        BY <1>0, <1>t, <4>1, HookFields DEF AnswersTheAttempt
      <4> QED BY <1>0, <3>4, <4>1, <4>2 DEF AnswersTheAttempt
    <3> QED BY <3>5, <3>6, <3>7 DEF Wired
  <2>2. ASSUME Attempt(c, i, "timer"), UNCHANGED <<verdict, hook, used, recorded, acts>>
        PROVE  Wired'
    <3>1. TypeOK'
      BY <1>0, <2>2, AttemptSender DEF TypeOK
    <3>2. SentWasDecided'
      BY <1>0, <2>2, AttemptSender DEF SentWasDecided, Copies
    <3>3. AnswersTheAttempt'
      BY <1>0, <1>t, <2>2, AttemptSender, HookFields DEF AnswersTheAttempt
    <3> QED BY <3>1, <3>2, <3>3 DEF Wired
  <2>3. ASSUME GiveUp(c, i) PROVE Wired'
    <3>1. /\ Sends(c, i, "gaveUp") /\ UNCHANGED <<verdict, hook, used, recorded, acts>>
          /\ sender[c][i].pc = "timer"
      BY <2>3 DEF GiveUp
    <3>2. /\ sender' \in [Charges -> [Copies -> Sender]]
          /\ sender'[c][i].tries = sender[c][i].tries
          /\ \A d \in Charges, j \in Copies : d # c \/ j # i => sender'[d][j] = sender[d][j]
      BY <1>0, <3>1, SendsOne DEF TypeOK
    <3>3. TypeOK'
      BY <1>0, <3>1, <3>2 DEF TypeOK
    <3>4. SentWasDecided'
      <4>1. \A d \in Charges, j \in Copies : sender'[d][j].pc # "none" => verdict'[d] # "NONE"
        BY <1>0, <3>1, <3>2 DEF SentWasDecided
      <4>2. \A d \in Charges : sender'[d][1].tries = 0 => sender'[d][2].pc = "none"
        <5>1. sender[c][1].tries = 0 => i # 2
          BY <1>0, <3>1 DEF SentWasDecided
        <5> QED BY <1>0, <3>2, <5>1 DEF SentWasDecided, Copies
      <4> QED BY <1>0, <3>1, <4>1, <4>2 DEF SentWasDecided
    <3>5. AnswersTheAttempt'
      BY <1>0, <1>t, <3>1, <3>2, HookFields DEF AnswersTheAttempt
    <3> QED BY <3>3, <3>4, <3>5 DEF Wired
  <2> QED BY <1>2, <2>1, <2>2, <2>3 DEF Send, Limited, Unreachable
<1>3. ASSUME NEW h \in Handlers, Insert(h) \/ Commit(h) \/ Rollback(h) PROVE Wired'
  <2>1. hook[h].pc \in {"begun", "tx"} /\ UNCHANGED <<verdict, sender, used>>
    BY <1>3 DEF Insert, Commit, Rollback
  <2>2. hook[h] # Idle /\ hook[h].charge \in Charges
    BY <1>t, <2>1, HookFields DEF Idle
  <2>3. \E pc \in {"tx", "ok", "bad"} : Serves(h, pc)
    BY <1>3 DEF Insert, Commit, Rollback
  <2>4. PICK pc \in {"tx", "ok", "bad"} : Serves(h, pc)
    BY <2>3
  <2>5. /\ hook'[h] \in Hook /\ hook'[h] # Idle /\ hook'[h].charge = hook[h].charge
        /\ hook'[h].copy = hook[h].copy /\ hook'[h].heard = hook[h].heard
        /\ hook' = [hook EXCEPT ![h] = hook'[h]]
    <3>1. hook' = [hook EXCEPT ![h] = [hook[h] EXCEPT !.pc = pc]]
      BY <2>4 DEF Serves
    <3>2. hook'[h] = [hook[h] EXCEPT !.pc = pc]
      BY <1>0, <3>1 DEF TypeOK
    <3>3. LET k == [hook[h] EXCEPT !.pc = pc] IN
            /\ k \in Hook /\ k # Idle /\ k.charge = hook[h].charge
            /\ k.copy = hook[h].copy /\ k.heard = hook[h].heard
      BY <1>t, <2>2 DEF Hook, Idle
    <3> QED BY <3>1, <3>2, <3>3
  <2>6. \A g \in Handlers : g # h => hook'[g] = hook[g]
    BY <1>0, <2>5 DEF TypeOK
  <2>7. recorded' \in SUBSET Charges /\ acts' \in [Charges -> Nat]
    BY <1>0, <1>3, <2>2 DEF Insert, Commit, Rollback, TypeOK
  <2>8. TypeOK'
    BY <1>0, <2>1, <2>5, <2>7 DEF TypeOK
  <2>9. SentWasDecided'
    BY <1>0, <2>1, <2>2, <2>5, <2>6 DEF SentWasDecided
  <2>10. AnswersTheAttempt'
    BY <1>0, <2>1, <2>2, <2>5, <2>6 DEF AnswersTheAttempt
  <2> QED BY <2>8, <2>9, <2>10 DEF Wired
<1>4. ASSUME NEW h \in Handlers, Answer(h) PROVE Wired'
  <2>1. /\ hook[h] # Idle /\ hook' = [hook EXCEPT ![h] = Idle]
        /\ UNCHANGED <<verdict, used, recorded, acts>>
    BY <1>4 DEF Answer, Idle
  <2>2. \A g \in Handlers : hook'[g] = IF g = h THEN Idle ELSE hook[g]
    BY <1>0, <2>1 DEF TypeOK
  <2>3. Idle \in Hook
    BY DEF Hook
  <2>4. hook[h].charge \in Charges /\ hook[h].copy \in Copies
    BY <1>t, <2>1, HookFields
  <2>5. CASE ~hook[h].heard
    <3>1. sender' = sender
      BY <1>4, <2>5 DEF Answer
    <3>2. TypeOK'
      BY <1>0, <2>1, <2>3, <3>1 DEF TypeOK
    <3>3. SentWasDecided' /\ AnswersTheAttempt'
      BY <1>0, <2>1, <2>2, <3>1 DEF SentWasDecided, AnswersTheAttempt
    <3> QED BY <3>2, <3>3 DEF Wired
  <2>6. CASE hook[h].heard
    <3>1. \E pc \in {"delivered", "timer"} : Sends(hook[h].charge, hook[h].copy, pc)
      BY <1>4, <2>6 DEF Answer
    <3>2. PICK pc \in {"delivered", "timer"} : Sends(hook[h].charge, hook[h].copy, pc)
      BY <3>1
    <3>3. sender[hook[h].charge][hook[h].copy].pc = "out"
      BY <1>0, <2>1, <2>6 DEF AnswersTheAttempt
    <3>4. TypeOK'
      BY <1>0, <2>1, <2>3, <2>4, <3>2, SendsOne DEF TypeOK
    <3>5. SentWasDecided'
      BY <1>0, <2>1, <2>2, <2>4, <3>2, <3>3, SendsOne DEF SentWasDecided, TypeOK, Copies
    <3>6. AnswersTheAttempt'
      <4>1. \A d \in Charges, j \in Copies :
              d # hook[h].charge \/ j # hook[h].copy => sender'[d][j] = sender[d][j]
        BY <1>0, <2>4, <3>2, SendsOne DEF TypeOK
      <4> QED BY <1>0, <1>t, <2>1, <2>2, <2>6, <4>1, HookFields DEF AnswersTheAttempt
    <3> QED BY <3>4, <3>5, <3>6 DEF Wired
  <2> QED BY <2>5, <2>6
<1>5. ASSUME NEW h \in Handlers, AnswerLost(h) PROVE Wired'
  <2>1. /\ hook[h] # Idle /\ hook[h].heard
        /\ hook' = [hook EXCEPT ![h] = [hook[h] EXCEPT !.heard = FALSE]]
        /\ Sends(hook[h].charge, hook[h].copy, "timer")
        /\ UNCHANGED <<verdict, used, recorded, acts>>
    BY <1>5 DEF AnswerLost
  <2>2. hook[h].charge \in Charges /\ hook[h].copy \in Copies
    BY <1>t, <2>1, HookFields
  <2>3. LET k == [hook[h] EXCEPT !.heard = FALSE] IN
          k \in Hook /\ k # Idle /\ k.charge = hook[h].charge /\ ~k.heard
    BY <1>t, <2>1 DEF Hook, Idle
  <2>4. /\ hook'[h] = [hook[h] EXCEPT !.heard = FALSE]
        /\ \A g \in Handlers : g # h => hook'[g] = hook[g]
    BY <1>0, <2>1 DEF TypeOK
  <2>5. sender[hook[h].charge][hook[h].copy].pc = "out"
    BY <1>0, <2>1 DEF AnswersTheAttempt
  <2>6. TypeOK'
    BY <1>0, <2>1, <2>2, <2>3, SendsOne DEF TypeOK
  <2>7. SentWasDecided'
    BY <1>0, <2>1, <2>2, <2>3, <2>4, <2>5, SendsOne DEF SentWasDecided, TypeOK, Copies
  <2>8. AnswersTheAttempt'
    BY <1>0, <1>t, <2>1, <2>2, <2>3, <2>4, SendsOne, HookFields DEF AnswersTheAttempt, TypeOK
  <2> QED BY <2>6, <2>7, <2>8 DEF Wired
<1>6. ASSUME NEW r \in Replicas, ReplicaCrash(r) PROVE Wired'
  <2> DEFINE here == {h \in Handlers : hook[h] # Idle /\ hook[h].replica = r}
             cut(c, i) == \E h \in here : hook[h].charge = c /\ hook[h].copy = i /\ hook[h].heard
  <2>1. /\ hook' = [h \in Handlers |-> IF h \in here THEN Idle ELSE hook[h]]
        /\ sender' = [c \in Charges |-> [i \in Copies |->
                        IF cut(c, i) THEN [sender[c][i] EXCEPT !.pc = "timer"] ELSE sender[c][i]]]
        /\ UNCHANGED <<verdict, recorded, acts>>
    BY <1>6 DEF ReplicaCrash
  <2> HIDE DEF here, cut
  <2>2. \A h \in Handlers : hook'[h] = IF h \in here THEN Idle ELSE hook[h]
    BY <2>1
  <2>3. \A c \in Charges, i \in Copies :
          sender'[c][i] = IF cut(c, i) THEN [sender[c][i] EXCEPT !.pc = "timer"] ELSE sender[c][i]
    BY <2>1
  <2>4. \A c \in Charges, i \in Copies : sender[c][i] \in Sender
    BY <1>0 DEF TypeOK
  <2>5. \A c \in Charges, i \in Copies :
          /\ sender'[c][i] \in Sender /\ sender'[c][i].tries = sender[c][i].tries
          /\ ~cut(c, i) => sender'[c][i] = sender[c][i]
    <3> SUFFICES ASSUME NEW c \in Charges, NEW i \in Copies
                 PROVE  /\ sender'[c][i] \in Sender /\ sender'[c][i].tries = sender[c][i].tries
                        /\ ~cut(c, i) => sender'[c][i] = sender[c][i]
      OBVIOUS
    <3>1. CASE cut(c, i)
      <4>1. sender'[c][i] = [sender[c][i] EXCEPT !.pc = "timer"]
        BY <2>3, <3>1
      <4> QED BY <2>4, <3>1, <4>1 DEF Sender
    <3>2. CASE ~cut(c, i)
      BY <2>3, <2>4, <3>2
    <3> QED BY <3>1, <3>2
  <2>6. \A c \in Charges, i \in Copies : cut(c, i) => sender[c][i].pc = "out"
    BY <1>0 DEF AnswersTheAttempt, cut, here
  <2>7. TypeOK'
    <3>1. used' \in [Replicas -> 0..MaxHooks]
      BY <1>0, <1>6 DEF ReplicaCrash, TypeOK
    <3>2. hook' \in [Handlers -> Hook]
      BY <1>t, <2>1 DEF Hook
    <3>3. sender' \in [Charges -> [Copies -> Sender]]
      BY <2>1, <2>5
    <3> QED BY <1>0, <2>1, <3>1, <3>2, <3>3 DEF TypeOK
  <2>8. SentWasDecided'
    BY <1>0, <2>1, <2>2, <2>5, <2>6 DEF SentWasDecided, Copies
  <2>9. \A g \in Handlers : g \notin here /\ hook[g] # Idle /\ hook[g].heard =>
          ~cut(hook[g].charge, hook[g].copy)
    BY <1>0 DEF AnswersTheAttempt, cut, here
  <2>10. AnswersTheAttempt'
    BY <1>0, <1>t, <2>2, <2>5, <2>9, HookFields DEF AnswersTheAttempt
  <2> QED BY <2>7, <2>8, <2>10 DEF Wired
<1>7. CASE GatewayCrash
  <2> DEFINE pcOf(c, i) == IF sender[c][i].pc \in Ended THEN sender[c][i].pc ELSE "gone"
  <2>1. /\ sender' = [c \in Charges |-> [i \in Copies |-> [sender[c][i] EXCEPT !.pc = pcOf(c, i)]]]
        /\ hook' = [h \in Handlers |-> IF hook[h] = Idle THEN Idle
                                        ELSE [hook[h] EXCEPT !.heard = FALSE]]
        /\ UNCHANGED <<verdict, used, recorded, acts>>
    BY <1>7 DEF GatewayCrash
  <2>2. \A c \in Charges, i \in Copies :
          /\ sender'[c][i] \in Sender /\ sender'[c][i].tries = sender[c][i].tries
          /\ sender[c][i].pc = "none" <=> sender'[c][i].pc = "none"
    <3> SUFFICES ASSUME NEW c \in Charges, NEW i \in Copies
                 PROVE  /\ sender'[c][i] \in Sender /\ sender'[c][i].tries = sender[c][i].tries
                        /\ sender[c][i].pc = "none" <=> sender'[c][i].pc = "none"
      OBVIOUS
    <3>1. sender[c][i] \in Sender
      BY <1>0 DEF TypeOK
    <3>2. sender'[c][i] = [sender[c][i] EXCEPT !.pc = pcOf(c, i)]
      BY <2>1
    <3>3. pcOf(c, i) \in {"none", "timer", "out", "delivered", "gaveUp", "gone"}
      BY <3>1 DEF Sender, Ended
    <3>4. pcOf(c, i) = "none" <=> sender[c][i].pc = "none"
      BY <3>1 DEF Sender, Ended
    <3> HIDE DEF pcOf
    <3> QED BY <3>1, <3>2, <3>3, <3>4 DEF Sender
  <2>3. \A h \in Handlers :
          /\ hook'[h] \in Hook
          /\ hook'[h] # Idle => hook[h] # Idle /\ ~hook'[h].heard /\ hook'[h].charge = hook[h].charge
    <3> SUFFICES ASSUME NEW h \in Handlers
                 PROVE  /\ hook'[h] \in Hook
                        /\ hook'[h] # Idle => hook[h] # Idle /\ ~hook'[h].heard
                                                 /\ hook'[h].charge = hook[h].charge
      OBVIOUS
    <3>1. CASE hook[h] = Idle
      BY <1>t, <2>1, <3>1
    <3>2. CASE hook[h] # Idle
      <4>1. hook'[h] = [hook[h] EXCEPT !.heard = FALSE]
        BY <2>1, <3>2
      <4> QED BY <1>t, <3>2, <4>1 DEF Hook, Idle
    <3> QED BY <3>1, <3>2
  <2>4. TypeOK'
    BY <1>0, <2>1, <2>2, <2>3 DEF TypeOK
  <2>5. SentWasDecided'
    <3>1. \A c \in Charges, i \in Copies : sender'[c][i].pc # "none" => verdict'[c] # "NONE"
      BY <1>0, <2>1, <2>2 DEF SentWasDecided
    <3>2. \A c \in Charges : sender'[c][1].tries = 0 => sender'[c][2].pc = "none"
      BY <1>0, <2>2 DEF SentWasDecided, Copies
    <3>3. \A h \in Handlers : hook'[h] # Idle => verdict'[hook'[h].charge] # "NONE"
      BY <1>0, <2>1, <2>3 DEF SentWasDecided
    <3> QED BY <3>1, <3>2, <3>3 DEF SentWasDecided
  <2>6. AnswersTheAttempt'
    BY <2>3 DEF AnswersTheAttempt
  <2> QED BY <2>4, <2>5, <2>6 DEF Wired
<1>8. ASSUME NEW r \in Replicas, WindowResets(r) \/ OtherHook(r) PROVE Wired'
  BY <1>0, <1>8 DEF WindowResets, OtherHook, Wired, TypeOK, SentWasDecided, AnswersTheAttempt
<1>9. CASE UNCHANGED vars
  BY <1>0, <1>9 DEF vars, Wired, TypeOK, SentWasDecided, AnswersTheAttempt
<1> QED
  BY <1>1, <1>2, <1>3, <1>4, <1>5, <1>6, <1>7, <1>8, <1>9 DEF Next

\* The variables keep their types in every reachable state.
THEOREM WebhooksTypeCorrect == Spec => []TypeOK
<1>1. Wired => TypeOK
  BY DEF Wired
<1> QED BY <1>1, InitWired, NextWired, PTL DEF Spec

\* In every reachable state the sender an answer is for is the one that waits
\* for it, and it waits for one answer only.
THEOREM AnswersFindTheirAttempt == Spec => []AnswersTheAttempt
<1>1. Wired => AnswersTheAttempt
  BY DEF Wired
<1> QED BY <1>1, InitWired, NextWired, PTL DEF Spec

-----------------------------------------------------------------------------
(* Once only. *)

\* What the inductive step has to show beyond Wired.
Once == OneTransaction /\ TransactionIsFirst /\ EventActsOnce /\ DeliveredWasRecorded

\* A step that commits nothing, takes no handler into or past its transaction
\* and ends no sender for an unrecorded event keeps all of it.
LEMMA QuietStep ==
    ASSUME Wired, Once, recorded' = recorded, acts' = acts,
           \A h \in Handlers : hook'[h].pc \in {"tx", "ok"} =>
              hook'[h].pc = hook[h].pc /\ hook'[h].charge = hook[h].charge,
           \A c \in Charges, i \in Copies : sender'[c][i].pc = "delivered" => c \in recorded
    PROVE  Once'
BY DEF Once, OneTransaction, TransactionIsFirst, EventActsOnce, DeliveredWasRecorded

LEMMA NextOnce == Wired /\ Once /\ [Next]_vars => Once'
<1> SUFFICES ASSUME Wired, Once, [Next]_vars PROVE Once'
  OBVIOUS
<1>0. /\ TypeOK /\ SentWasDecided /\ AnswersTheAttempt
      /\ OneTransaction /\ TransactionIsFirst /\ EventActsOnce /\ DeliveredWasRecorded
  BY DEF Wired, Once
<1>t. \A h \in Handlers : hook[h] \in Hook
  BY <1>0 DEF TypeOK
<1>d. \A c \in Charges, i \in Copies : sender[c][i].pc = "delivered" => c \in recorded
  BY <1>0 DEF DeliveredWasRecorded
<1>1. ASSUME NEW c \in Charges, NEW v \in Verdicts, Charge(c, v) PROVE Once'
  <2>1. Sends(c, 1, "timer") /\ 1 \in Copies /\ UNCHANGED <<hook, recorded, acts>>
    BY <1>1 DEF Charge, Copies
  <2>2. \A d \in Charges, j \in Copies : sender'[d][j].pc = "delivered" => sender[d][j].pc = "delivered"
    BY <1>0, <2>1, SendsDelivered DEF TypeOK
  <2> QED BY <1>d, <2>1, <2>2, QuietStep
<1>2. ASSUME NEW c \in Charges, NEW i \in Copies, Send(c, i) PROVE Once'
  <2>1. ASSUME NEW pc \in {"out", "timer"}, Attempt(c, i, pc)
        PROVE  \A d \in Charges, j \in Copies :
                 sender'[d][j].pc = "delivered" => sender[d][j].pc = "delivered"
    BY <1>0, <2>1, AttemptSender
  <2>2. ASSUME NEW h \in Handlers, NEW r \in Replicas, Arrive(c, i, h, r) PROVE Once'
    <3>1. Attempt(c, i, "out") /\ UNCHANGED <<recorded, acts>>
      BY <2>2 DEF Arrive
    <3>2. \A g \in Handlers : hook'[g].pc \in {"tx", "ok"} => hook'[g] = hook[g]
      BY <1>0, <2>2 DEF Arrive, TypeOK
    <3> QED BY <1>d, <2>1, <3>1, <3>2, QuietStep
  <2>3. ASSUME Attempt(c, i, "timer"), UNCHANGED <<verdict, hook, used, recorded, acts>> PROVE Once'
    BY <1>d, <2>1, <2>3, QuietStep
  <2>4. ASSUME GiveUp(c, i) PROVE Once'
    <3>1. Sends(c, i, "gaveUp") /\ UNCHANGED <<hook, recorded, acts>>
      BY <2>4 DEF GiveUp
    <3>2. \A d \in Charges, j \in Copies : sender'[d][j].pc = "delivered" => sender[d][j].pc = "delivered"
      BY <1>0, <3>1, SendsDelivered DEF TypeOK
    <3> QED BY <1>d, <3>1, <3>2, QuietStep
  <2> QED BY <1>2, <2>2, <2>3, <2>4 DEF Send, Limited, Unreachable
<1>3. ASSUME NEW h \in Handlers, Insert(h) PROVE Once'
  <2>1. /\ hook[h].pc = "begun" /\ UNCHANGED <<sender, recorded, acts>>
        /\ \A g \in Handlers : hook[g].pc = "tx" => hook[g].charge # hook[h].charge
        /\ hook' = [hook EXCEPT ![h] =
             [hook[h] EXCEPT !.pc = IF hook[h].charge \in recorded THEN "ok" ELSE "tx"]]
    BY <1>3 DEF Insert, Serves
  <2>2. \A g \in Handlers : g # h => hook'[g] = hook[g]
    BY <1>0, <2>1 DEF TypeOK
  <2>3. /\ hook'[h].pc = IF hook[h].charge \in recorded THEN "ok" ELSE "tx"
        /\ hook'[h].charge = hook[h].charge
    <3>1. hook[h] \in Hook /\ hook[h] # Idle
      BY <1>t, <2>1 DEF Idle
    <3>2. hook'[h] = [hook[h] EXCEPT !.pc = IF hook[h].charge \in recorded THEN "ok" ELSE "tx"]
      BY <1>0, <2>1 DEF TypeOK
    <3> QED BY <3>1, <3>2 DEF Hook
  <2>4. OneTransaction'
    BY <1>0, <2>1, <2>2, <2>3 DEF OneTransaction
  <2>5. TransactionIsFirst'
    BY <1>0, <2>1, <2>2, <2>3 DEF TransactionIsFirst
  <2>6. EventActsOnce' /\ DeliveredWasRecorded'
    BY <1>0, <2>1, <2>2, <2>3 DEF EventActsOnce, DeliveredWasRecorded
  <2> QED BY <2>4, <2>5, <2>6 DEF Once
<1>4. ASSUME NEW h \in Handlers, Commit(h) PROVE Once'
  <2>1. /\ hook[h].pc = "tx" /\ sender' = sender
        /\ recorded' = recorded \cup {hook[h].charge}
        /\ acts' = [acts EXCEPT ![hook[h].charge] = @ + 1]
        /\ hook' = [hook EXCEPT ![h] = [hook[h] EXCEPT !.pc = "ok"]]
    BY <1>4 DEF Commit, Serves
  <2>2. \A g \in Handlers : g # h => hook'[g] = hook[g]
    BY <1>0, <2>1 DEF TypeOK
  <2>3. /\ hook'[h].pc = "ok" /\ hook'[h].charge = hook[h].charge
        /\ hook[h].charge \in Charges
    <3>1. hook[h] \in Hook /\ hook[h] # Idle
      BY <1>t, <2>1 DEF Idle
    <3>2. hook'[h] = [hook[h] EXCEPT !.pc = "ok"]
      BY <1>0, <2>1 DEF TypeOK
    <3> QED BY <3>1, <3>2 DEF Hook
  <2>4. OneTransaction'
    BY <1>0, <2>2, <2>3 DEF OneTransaction
  <2>5. TransactionIsFirst'
    BY <1>0, <2>1, <2>2, <2>3 DEF TransactionIsFirst, OneTransaction
  <2>6. EventActsOnce'
    <3>1. hook[h].charge \notin recorded
      BY <1>0, <2>1 DEF TransactionIsFirst
    <3> QED BY <1>0, <2>1, <2>3, <3>1 DEF EventActsOnce, TypeOK
  <2>7. DeliveredWasRecorded'
    BY <1>0, <2>1, <2>2, <2>3 DEF DeliveredWasRecorded
  <2> QED BY <2>4, <2>5, <2>6, <2>7 DEF Once
<1>5. ASSUME NEW h \in Handlers, Rollback(h) PROVE Once'
  <2>1. /\ hook' = [hook EXCEPT ![h] = [hook[h] EXCEPT !.pc = "bad"]]
        /\ UNCHANGED <<sender, recorded, acts>>
        /\ hook[h].pc \in {"begun", "tx"}
    BY <1>5 DEF Rollback, Serves
  <2>2. hook'[h].pc = "bad"
    <3>1. hook[h] \in Hook /\ hook[h] # Idle
      BY <1>t, <2>1 DEF Idle
    <3>2. hook'[h] = [hook[h] EXCEPT !.pc = "bad"]
      BY <1>0, <2>1 DEF TypeOK
    <3> QED BY <3>1, <3>2 DEF Hook
  <2>3. \A g \in Handlers : hook'[g].pc \in {"tx", "ok"} => hook'[g] = hook[g]
    BY <1>0, <2>1, <2>2 DEF TypeOK
  <2> QED BY <1>d, <2>1, <2>3, QuietStep
<1>6. ASSUME NEW h \in Handlers, Answer(h) PROVE Once'
  <2>1. /\ hook[h].pc \in {"ok", "bad"} /\ hook' = [hook EXCEPT ![h] = Idle]
        /\ UNCHANGED <<recorded, acts>>
    BY <1>6 DEF Answer
  <2>2. \A g \in Handlers : hook'[g].pc \in {"tx", "ok"} => hook'[g] = hook[g]
    BY <1>0, <2>1 DEF TypeOK, Idle
  <2>3. hook[h].charge \in Charges /\ hook[h].copy \in Copies
    BY <1>t, <2>1, HookFields DEF Idle
  <2>4. \A c \in Charges, i \in Copies : sender'[c][i].pc = "delivered" => c \in recorded
    <3>1. CASE hook[h].heard /\ hook[h].pc = "ok"
      <4>1. Sends(hook[h].charge, hook[h].copy, "delivered") /\ hook[h].charge \in recorded
        BY <1>0, <1>6, <3>1 DEF Answer, DeliveredWasRecorded
      <4> QED BY <1>0, <1>d, <2>3, <4>1, SendsDelivered DEF TypeOK
    <3>2. CASE hook[h].heard /\ hook[h].pc = "bad"
      <4>1. Sends(hook[h].charge, hook[h].copy, "timer")
        BY <1>6, <3>2 DEF Answer
      <4> QED BY <1>0, <1>d, <2>3, <4>1, SendsDelivered DEF TypeOK
    <3>3. CASE ~hook[h].heard
      BY <1>6, <1>d, <3>3 DEF Answer
    <3> QED BY <2>1, <3>1, <3>2, <3>3
  <2> QED BY <2>1, <2>2, <2>4, QuietStep
<1>7. ASSUME NEW h \in Handlers, AnswerLost(h) PROVE Once'
  <2>1. /\ hook[h] # Idle /\ hook' = [hook EXCEPT ![h] = [hook[h] EXCEPT !.heard = FALSE]]
        /\ Sends(hook[h].charge, hook[h].copy, "timer") /\ UNCHANGED <<recorded, acts>>
    BY <1>7 DEF AnswerLost
  <2>2. hook[h].charge \in Charges /\ hook[h].copy \in Copies
    BY <1>t, <2>1, HookFields
  <2>3. hook'[h].pc = hook[h].pc /\ hook'[h].charge = hook[h].charge
    <3>1. hook'[h] = [hook[h] EXCEPT !.heard = FALSE]
      BY <1>0, <2>1 DEF TypeOK
    <3> QED BY <1>t, <2>1, <3>1 DEF Hook
  <2>4. \A g \in Handlers : g # h => hook'[g] = hook[g]
    BY <1>0, <2>1 DEF TypeOK
  <2>5. \A c \in Charges, i \in Copies : sender'[c][i].pc = "delivered" => sender[c][i].pc = "delivered"
    BY <1>0, <2>1, <2>2, SendsDelivered DEF TypeOK
  <2> QED BY <1>d, <2>1, <2>3, <2>4, <2>5, QuietStep
<1>8. ASSUME NEW r \in Replicas, ReplicaCrash(r) PROVE Once'
  <2>1. \A h \in Handlers : hook'[h] = Idle \/ hook'[h] = hook[h]
    BY <1>8 DEF ReplicaCrash
  <2>2. \A c \in Charges, i \in Copies :
          sender'[c][i] = [sender[c][i] EXCEPT !.pc = "timer"] \/ sender'[c][i] = sender[c][i]
    BY <1>8 DEF ReplicaCrash
  <2>3. \A c \in Charges, i \in Copies :
          sender'[c][i].pc = "delivered" => sender[c][i].pc = "delivered"
    <3> SUFFICES ASSUME NEW c \in Charges, NEW i \in Copies, sender'[c][i].pc = "delivered"
                 PROVE  sender[c][i].pc = "delivered"
      OBVIOUS
    <3>1. sender[c][i] \in Sender
      BY <1>0 DEF TypeOK
    <3>2. [sender[c][i] EXCEPT !.pc = "timer"].pc = "timer"
      BY <3>1 DEF Sender
    <3> QED BY <2>2, <3>2
  <2>4. \A h \in Handlers : hook'[h].pc \in {"tx", "ok"} => hook'[h] = hook[h]
    BY <2>1 DEF Idle
  <2> QED BY <1>8, <1>d, <2>3, <2>4, QuietStep DEF ReplicaCrash
<1>9. CASE GatewayCrash
  <2>1. \A h \in Handlers : hook'[h].pc \in {"tx", "ok"} =>
          hook'[h].pc = hook[h].pc /\ hook'[h].charge = hook[h].charge
    <3> SUFFICES ASSUME NEW h \in Handlers, hook'[h].pc \in {"tx", "ok"}
                 PROVE  hook'[h].pc = hook[h].pc /\ hook'[h].charge = hook[h].charge
      OBVIOUS
    <3>1. hook'[h] = IF hook[h] = Idle THEN Idle ELSE [hook[h] EXCEPT !.heard = FALSE]
      BY <1>9 DEF GatewayCrash
    <3>2. hook[h] # Idle
      BY <3>1 DEF Idle
    <3> QED BY <1>t, <3>1, <3>2 DEF Hook
  <2>2. \A c \in Charges, i \in Copies :
          sender'[c][i].pc = "delivered" => sender[c][i].pc = "delivered"
    <3> SUFFICES ASSUME NEW c \in Charges, NEW i \in Copies, sender[c][i].pc # "delivered"
                 PROVE  sender'[c][i].pc # "delivered"
      OBVIOUS
    <3> DEFINE pc == IF sender[c][i].pc \in Ended THEN sender[c][i].pc ELSE "gone"
    <3>1. sender'[c][i] = [sender[c][i] EXCEPT !.pc = pc]
      BY <1>9 DEF GatewayCrash
    <3>2. sender[c][i] \in Sender
      BY <1>0 DEF TypeOK
    <3>3. sender'[c][i].pc = pc
      BY <3>1, <3>2 DEF Sender
    <3> QED BY <3>3
  <2> QED BY <1>9, <1>d, <2>1, <2>2, QuietStep DEF GatewayCrash
<1>10. ASSUME NEW r \in Replicas, WindowResets(r) \/ OtherHook(r) PROVE Once'
  BY <1>10, <1>d, QuietStep DEF WindowResets, OtherHook
<1>11. CASE UNCHANGED vars
  BY <1>11, <1>d, QuietStep DEF vars
<1> QED
  BY <1>1, <1>2, <1>3, <1>4, <1>5, <1>6, <1>7, <1>8, <1>9, <1>10, <1>11 DEF Next

LEMMA HookInvariant == Spec => [](Wired /\ Once)
<1>1. Init => Once
  BY DEF Init, Once, OneTransaction, TransactionIsFirst, EventActsOnce, DeliveredWasRecorded, Idle
<1> QED BY <1>1, InitWired, NextWired, NextOnce, PTL DEF Spec

\* An event acts at most once, and exactly when it is in payment_events.
THEOREM EventsActOnce == Spec => []EventActsOnce
<1>1. Once => EventActsOnce
  BY DEF Once
<1> QED BY <1>1, HookInvariant, PTL

\* At most one transaction of an event runs at a time.
THEOREM TransactionsExclude == Spec => []OneTransaction
<1>1. Once => OneTransaction
  BY DEF Once
<1> QED BY <1>1, HookInvariant, PTL

\* What the gateway takes for delivered is committed.
THEOREM DeliveredIsCommitted == Spec => []DeliveredWasRecorded
<1>1. Once => DeliveredWasRecorded
  BY DEF Once
<1> QED BY <1>1, HookInvariant, PTL

-----------------------------------------------------------------------------
(* The refinement of Callbacks. *)

LEMMA InitPromise == Init => Promise!Init
BY DEF Init, Promise!Init

\* A step leaves the verdicts and the counts alone, decides a charge or acts on one.
LEMMA NextPromise == Wired /\ Once /\ [Next]_vars => [Promise!Next]_(Promise!callbackVars)
<1> SUFFICES ASSUME Wired, Once, [Next]_vars PROVE [Promise!Next]_(Promise!callbackVars)
  OBVIOUS
<1>0. TypeOK /\ SentWasDecided /\ TransactionIsFirst /\ EventActsOnce
  BY DEF Wired, Once
<1>1. ASSUME NEW c \in Charges, NEW v \in Verdicts, Charge(c, v)
      PROVE  Promise!Next
  <2>1. Promise!Decide(c, v)
    BY <1>1 DEF Charge, Promise!Decide
  <2> QED BY <2>1 DEF Promise!Next, Verdicts
<1>2. ASSUME NEW h \in Handlers, Commit(h)
      PROVE  Promise!Next
  <2>1. hook[h] # Idle /\ hook[h] \in Hook /\ hook[h].pc = "tx"
    BY <1>0, <1>2 DEF Commit, Idle, TypeOK
  <2>c. PICK c \in Charges : c = hook[h].charge
    BY <2>1, HookFields
  <2>2. verdict[c] # "NONE" /\ acts[c] = 0
    BY <1>0, <2>1, <2>c DEF SentWasDecided, TransactionIsFirst, EventActsOnce
  <2>3. acts' = [acts EXCEPT ![c] = 1] /\ verdict' = verdict
    BY <1>2, <2>c, <2>2 DEF Commit
  <2>4. {d \in Charges : acts'[d] > 0} = {d \in Charges : acts[d] > 0} \cup {c}
    BY <1>0, <2>2, <2>3 DEF TypeOK
  <2>5. Promise!Act(c)
    BY <2>2, <2>3, <2>4 DEF Promise!Act
  <2> QED BY <2>5 DEF Promise!Next
<1>3. CASE UNCHANGED <<verdict, acts>>
  BY <1>3 DEF Promise!callbackVars
<1>4. \/ \E c \in Charges, v \in Verdicts : Charge(c, v)
      \/ \E h \in Handlers : Commit(h)
      \/ UNCHANGED <<verdict, acts>>
  BY DEF Next, Send, Arrive, Limited, Unreachable, GiveUp, Insert, Rollback, Answer, AnswerLost,
         ReplicaCrash, WindowResets, OtherHook, GatewayCrash, vars
<1> QED BY <1>1, <1>2, <1>3, <1>4

\* The webhooks keep the promise of Callbacks: one verdict per charge, one
\* action per verdict, in that order.
THEOREM WebhooksKeepCallbacks == Spec => CallbacksAreKept
<1> QED BY InitPromise, NextPromise, HookInvariant, PTL DEF Spec, CallbacksAreKept, Promise!Spec

-----------------------------------------------------------------------------
(* Every sender comes to an end. *)

\* What a step may do to a sender, and what becomes of it.
Turns(s, t) ==
    \/ t = s
    \/ s.pc = "none" /\ t.pc = "timer"
    \/ s.pc = "timer" /\ t.pc \in {"out", "timer"} /\ t.tries = s.tries + 1
    \/ s.pc = "timer" /\ t.pc = "gaveUp"
    \/ s.pc = "out" /\ t.pc \in {"timer", "delivered"} /\ t.tries = s.tries
    \/ s.pc \in {"timer", "out"} /\ t.pc = "gone"

LEMMA AttemptTurns ==
    ASSUME Wired, NEW c \in Charges, NEW i \in Copies, NEW pc \in {"out", "timer"}, Attempt(c, i, pc),
           NEW d \in Charges, NEW j \in Copies
    PROVE  /\ Turns(sender[d][j], sender'[d][j])
           /\ sender'[c][i].pc = pc /\ sender'[c][i].tries = sender[c][i].tries + 1
           /\ d # c \/ j # i => sender'[d][j] = sender[d][j] \/ sender'[d][j].pc = "timer"
<1> DEFINE turn == [pc |-> pc, tries |-> sender[c][i].tries + 1]
<1>0. sender \in [Charges -> [Copies -> Sender]] /\ SentWasDecided /\ sender[c][i].pc = "timer"
  BY DEF Wired, TypeOK, Attempt
<1>1. CASE sender' = [sender EXCEPT ![c][i] = turn]
  <2>1. sender'[c][i] = turn
    BY <1>0, <1>1
  <2>2. CASE d = c /\ j = i
    BY <1>0, <2>1, <2>2 DEF Turns
  <2>3. CASE ~(d = c /\ j = i)
    <3>1. sender'[d][j] = sender[d][j]
      BY <1>0, <1>1, <2>3
    <3> QED BY <2>1, <3>1 DEF Turns
  <2> QED BY <2>2, <2>3
<1>2. CASE i = 1 /\ sender[c][1].tries = 0
           /\ sender' = [sender EXCEPT ![c] =
                           [k \in Copies |-> IF k = 1 THEN turn ELSE [pc |-> "timer", tries |-> 0]]]
  <2>1. sender'[c][1] = turn /\ sender'[c][2] = [pc |-> "timer", tries |-> 0]
    BY <1>0, <1>2 DEF Copies
  <2>2. sender[c][2].pc = "none"
    BY <1>0, <1>2 DEF SentWasDecided
  <2>3. CASE d = c
    BY <1>0, <1>2, <2>1, <2>2, <2>3 DEF Turns, Copies
  <2>4. CASE d # c
    <3>1. sender'[d][j] = sender[d][j]
      BY <1>0, <1>2, <2>4
    <3> QED BY <1>2, <2>1, <3>1 DEF Turns
  <2> QED BY <2>3, <2>4
<1> QED BY <1>1, <1>2 DEF Attempt

LEMMA SendsTurns ==
    ASSUME Wired, NEW c \in Charges, NEW i \in Copies,
           NEW pc \in {"timer", "delivered", "gaveUp"}, Sends(c, i, pc),
           \/ sender[c][i].pc = "none" /\ pc = "timer"
           \/ sender[c][i].pc = "timer" /\ pc = "gaveUp"
           \/ sender[c][i].pc = "out" /\ pc \in {"timer", "delivered"},
           NEW d \in Charges, NEW j \in Copies
    PROVE  Turns(sender[d][j], sender'[d][j])
<1>0. sender \in [Charges -> [Copies -> Sender]]
  BY DEF Wired, TypeOK
<1>1. /\ sender'[c][i].pc = pc /\ sender'[c][i].tries = sender[c][i].tries
      /\ d # c \/ j # i => sender'[d][j] = sender[d][j]
  BY <1>0, SendsOne
<1> QED BY <1>1 DEF Turns

\* A crash or an answer that is lost puts a waiting sender back to its timer.
LEMMA BackToTimer ==
    ASSUME NEW s \in Sender, s.pc = "out"
    PROVE  Turns(s, [s EXCEPT !.pc = "timer"])
BY DEF Turns, Sender

LEMMA NextTurns ==
    ASSUME Wired, [Next]_vars, NEW d \in Charges, NEW j \in Copies
    PROVE  Turns(sender[d][j], sender'[d][j])
<1>0. TypeOK /\ SentWasDecided /\ AnswersTheAttempt
  BY DEF Wired
<1>t. \A h \in Handlers : hook[h] \in Hook
  BY <1>0 DEF TypeOK
<1>1. ASSUME NEW c \in Charges, NEW v \in Verdicts, Charge(c, v)
      PROVE  Turns(sender[d][j], sender'[d][j])
  <2>1. sender[c][1].pc = "none" /\ Sends(c, 1, "timer") /\ 1 \in Copies
    BY <1>0, <1>1 DEF SentWasDecided, Charge, Copies
  <2> QED BY <2>1, SendsTurns
<1>2. ASSUME NEW c \in Charges, NEW i \in Copies, Send(c, i)
      PROVE  Turns(sender[d][j], sender'[d][j])
  <2>1. CASE GiveUp(c, i)
    BY <2>1, SendsTurns DEF GiveUp
  <2>2. CASE \E pc \in {"out", "timer"} : Attempt(c, i, pc)
    BY <2>2, AttemptTurns
  <2> QED BY <1>2, <2>1, <2>2 DEF Send, Arrive, Limited, Unreachable
<1>3. ASSUME NEW h \in Handlers, Answer(h)
      PROVE  Turns(sender[d][j], sender'[d][j])
  <2>1. CASE ~hook[h].heard
    BY <1>3, <2>1 DEF Answer, Turns
  <2>2. CASE hook[h].heard
    <3>1. hook[h] # Idle /\ hook[h].charge \in Charges /\ hook[h].copy \in Copies
      BY <1>t, <1>3, HookFields DEF Answer, Idle
    <3>2. \E pc \in {"timer", "delivered"} : Sends(hook[h].charge, hook[h].copy, pc)
      BY <1>3, <2>2 DEF Answer
    <3>3. sender[hook[h].charge][hook[h].copy].pc = "out"
      BY <1>0, <2>2, <3>1 DEF AnswersTheAttempt
    <3> QED BY <3>1, <3>2, <3>3, SendsTurns
  <2> QED BY <2>1, <2>2
<1>4. ASSUME NEW h \in Handlers, AnswerLost(h)
      PROVE  Turns(sender[d][j], sender'[d][j])
  <2>1. hook[h].charge \in Charges /\ hook[h].copy \in Copies
    BY <1>t, <1>4, HookFields DEF AnswerLost
  <2>2. sender[hook[h].charge][hook[h].copy].pc = "out"
    BY <1>0, <1>4 DEF AnswersTheAttempt, AnswerLost
  <2> QED BY <1>4, <2>1, <2>2, SendsTurns DEF AnswerLost
<1>5. ASSUME NEW r \in Replicas, ReplicaCrash(r)
      PROVE  Turns(sender[d][j], sender'[d][j])
  <2>1. \/ sender'[d][j] = sender[d][j]
        \/ /\ \E h \in Handlers : Awaited(d, j, h)
           /\ sender'[d][j] = [sender[d][j] EXCEPT !.pc = "timer"]
    BY <1>5 DEF ReplicaCrash, Awaited
  <2>2. (\E h \in Handlers : Awaited(d, j, h)) => sender[d][j].pc = "out"
    BY <1>0 DEF AnswersTheAttempt, Awaited
  <2>3. sender[d][j] \in Sender
    BY <1>0 DEF TypeOK
  <2>4. CASE sender'[d][j] = sender[d][j]
    BY <2>4 DEF Turns
  <2> QED BY <2>1, <2>2, <2>3, <2>4, BackToTimer
<1>6. CASE GatewayCrash
  <2> DEFINE pc == IF sender[d][j].pc \in Ended THEN sender[d][j].pc ELSE "gone"
  <2>1. sender'[d][j] = [sender[d][j] EXCEPT !.pc = pc]
    BY <1>6 DEF GatewayCrash
  <2>2. sender[d][j] \in Sender
    BY <1>0 DEF TypeOK
  <2>3. CASE sender[d][j].pc \in Ended
    <3>1. [sender[d][j] EXCEPT !.pc = sender[d][j].pc] = sender[d][j]
      BY <2>2 DEF Sender
    <3> QED BY <2>1, <2>3, <3>1 DEF Turns
  <2>4. CASE sender[d][j].pc \notin Ended
    <3>1. sender'[d][j].pc = "gone"
      BY <2>1, <2>2, <2>4 DEF Sender
    <3>2. sender[d][j].pc \in {"timer", "out"}
      BY <2>2, <2>4 DEF Sender, Ended
    <3> QED BY <3>1, <3>2 DEF Turns
  <2> QED BY <2>3, <2>4
<1>7. CASE UNCHANGED sender
  BY <1>7 DEF Turns
<1> QED
  BY <1>1, <1>2, <1>3, <1>4, <1>5, <1>6, <1>7
     DEF Next, Insert, Commit, Rollback, WindowResets, OtherHook, vars

\* A sender begins to wait for an answer only by a request that has arrived.
LEMMA OutByArrival ==
    ASSUME Wired, [Next]_vars, NEW d \in Charges, NEW j \in Copies,
           sender[d][j].pc = "timer", sender'[d][j].pc = "out"
    PROVE  \E h \in Handlers, r \in Replicas : Arrive(d, j, h, r)
<1>0. TypeOK /\ SentWasDecided /\ AnswersTheAttempt
  BY DEF Wired
<1>t. \A h \in Handlers : hook[h] \in Hook
  BY <1>0 DEF TypeOK
<1>n. ASSUME NEW c \in Charges, NEW i \in Copies, NEW pc \in {"timer", "delivered", "gaveUp"},
             Sends(c, i, pc)
      PROVE  FALSE
  <2>1. sender'[c][i].pc = pc /\ (d # c \/ j # i => sender'[d][j] = sender[d][j])
    BY <1>0, <1>n, SendsOne DEF TypeOK
  <2> QED BY <2>1
<1>1. ASSUME NEW c \in Charges, NEW v \in Verdicts, Charge(c, v) PROVE FALSE
  BY <1>1, <1>n DEF Charge, Copies
<1>2. ASSUME NEW c \in Charges, NEW i \in Copies, Send(c, i)
      PROVE  \E h \in Handlers, r \in Replicas : Arrive(d, j, h, r)
  <2>1. ASSUME GiveUp(c, i) PROVE FALSE
    BY <2>1, <1>n DEF GiveUp
  <2>2. ASSUME Attempt(c, i, "timer") PROVE FALSE
    BY <2>2, AttemptTurns
  <2>3. ASSUME NEW h \in Handlers, NEW r \in Replicas, Arrive(c, i, h, r)
        PROVE  c = d /\ i = j
    <3>1. Attempt(c, i, "out")
      BY <2>3 DEF Arrive
    <3> QED BY <3>1, AttemptTurns
  <2> QED BY <1>2, <2>1, <2>2, <2>3 DEF Send, Limited, Unreachable
<1>3. ASSUME NEW h \in Handlers, Answer(h) PROVE FALSE
  <2>1. hook[h].charge \in Charges /\ hook[h].copy \in Copies
    BY <1>t, <1>3, HookFields DEF Answer, Idle
  <2> QED BY <1>3, <1>n, <2>1 DEF Answer
<1>4. ASSUME NEW h \in Handlers, AnswerLost(h) PROVE FALSE
  <2>1. hook[h].charge \in Charges /\ hook[h].copy \in Copies
    BY <1>t, <1>4, HookFields DEF AnswerLost
  <2> QED BY <1>4, <1>n, <2>1 DEF AnswerLost
<1>5. ASSUME NEW r \in Replicas, ReplicaCrash(r) PROVE FALSE
  <2>1. sender'[d][j] = sender[d][j] \/ sender'[d][j] = [sender[d][j] EXCEPT !.pc = "timer"]
    BY <1>5 DEF ReplicaCrash
  <2>2. sender[d][j] \in Sender
    BY <1>0 DEF TypeOK
  <2> QED BY <2>1, <2>2 DEF Sender
<1>6. ASSUME GatewayCrash PROVE FALSE
  <2> DEFINE pc == IF sender[d][j].pc \in Ended THEN sender[d][j].pc ELSE "gone"
  <2>1. sender'[d][j] = [sender[d][j] EXCEPT !.pc = pc]
    BY <1>6 DEF GatewayCrash
  <2>2. sender[d][j] \in Sender
    BY <1>0 DEF TypeOK
  <2> QED BY <2>1, <2>2 DEF Sender, Ended
<1>7. sender' # sender
  OBVIOUS
<1> QED
  BY <1>1, <1>2, <1>3, <1>4, <1>5, <1>6, <1>7
     DEF Next, Insert, Commit, Rollback, WindowResets, OtherHook, vars

\* How far a request has come.
Further(p, q) ==
    \/ q = p
    \/ p = "begun" /\ q \in {"tx", "ok", "bad"}
    \/ p = "tx" /\ q \in {"ok", "bad"}

\* A request whose sender goes on waiting stays in service, and goes on.
LEMMA AwaitedGoesOn ==
    ASSUME Wired, [Next]_vars, NEW c \in Charges, NEW i \in Copies, NEW h \in Handlers,
           Awaited(c, i, h), sender'[c][i].pc = "out"
    PROVE  Awaited(c, i, h)' /\ Further(hook[h].pc, hook'[h].pc)
<1>0. TypeOK /\ SentWasDecided /\ AnswersTheAttempt
  BY DEF Wired
<1>1. hook \in [Handlers -> Hook] /\ hook[h] \in Hook /\ hook[h] # Idle
  BY <1>0 DEF TypeOK, Awaited
<1>n. ASSUME NEW pc \in {"timer", "delivered"} PROVE ~Sends(c, i, pc)
  BY <1>0, SendsOne DEF TypeOK
<1>2. CASE hook'[h] = hook[h]
  BY <1>2 DEF Awaited, Further
<1>3. ASSUME NEW g \in Handlers, NEW pc \in {"tx", "ok", "bad"}, Serves(g, pc),
             Further(hook[g].pc, pc)
      PROVE  Awaited(c, i, h)' /\ Further(hook[h].pc, hook'[h].pc)
  <2>1. CASE g # h
    BY <1>1, <1>2, <1>3, <2>1 DEF Serves
  <2>2. CASE g = h
    <3>1. hook'[h] = [hook[h] EXCEPT !.pc = pc]
      BY <1>1, <1>3, <2>2 DEF Serves
    <3>2. LET k == [hook[h] EXCEPT !.pc = pc] IN
            /\ k # Idle /\ k.pc = pc /\ k.charge = hook[h].charge
            /\ k.copy = hook[h].copy /\ k.heard = hook[h].heard
      BY <1>1 DEF Hook, Idle
    <3> QED BY <1>3, <2>2, <3>1, <3>2 DEF Awaited
  <2> QED BY <2>1, <2>2
<1>4. ASSUME NEW g \in Handlers, Insert(g) \/ Commit(g) \/ Rollback(g)
      PROVE  \E pc \in {"tx", "ok", "bad"} : Serves(g, pc) /\ Further(hook[g].pc, pc)
  BY <1>4 DEF Insert, Commit, Rollback, Further
<1>5. ASSUME NEW g \in Handlers, Answer(g) \/ AnswerLost(g) PROVE hook'[h] = hook[h]
  <2>1. g # h
    BY <1>5, <1>n DEF Answer, AnswerLost, Awaited
  <2> QED BY <1>1, <1>5, <2>1 DEF Answer, AnswerLost
<1>6. ASSUME NEW r \in Replicas, ReplicaCrash(r) PROVE hook'[h] = hook[h]
  <2>1. CASE hook[h].replica # r
    BY <1>6, <2>1 DEF ReplicaCrash
  <2>2. CASE hook[h].replica = r
    <3>1. sender'[c][i] = [sender[c][i] EXCEPT !.pc = "timer"]
      BY <1>1, <1>6, <2>2 DEF ReplicaCrash, Awaited
    <3>2. sender[c][i] \in Sender
      BY <1>0 DEF TypeOK
    <3> QED BY <3>1, <3>2 DEF Sender
  <2> QED BY <2>1, <2>2
<1>7. ASSUME GatewayCrash PROVE FALSE
  <2>1. sender[c][i].pc = "out" /\ sender[c][i] \in Sender
    BY <1>0 DEF AnswersTheAttempt, Awaited, TypeOK
  <2>2. sender'[c][i] = [sender[c][i] EXCEPT !.pc = "gone"]
    BY <1>7, <2>1 DEF GatewayCrash, Ended
  <2> QED BY <2>1, <2>2 DEF Sender
<1>8. ASSUME NEW d \in Charges, NEW j \in Copies, Send(d, j) PROVE hook'[h] = hook[h]
  BY <1>1, <1>8 DEF Send, Arrive, Limited, Unreachable, GiveUp
<1> QED
  BY <1>2, <1>3, <1>4, <1>5, <1>6, <1>7, <1>8
     DEF Next, Charge, WindowResets, OtherHook, vars

\* Nobody waits for nothing: a sender that waits has its request in service.
Heard ==
    \A c \in Charges, i \in Copies :
        sender[c][i].pc = "out" => \E h \in Handlers : Awaited(c, i, h)

LEMMA NextHeard == Wired /\ Heard /\ [Next]_vars => Heard'
<1> SUFFICES ASSUME Wired, Heard, [Next]_vars, NEW c \in Charges, NEW i \in Copies,
                    sender'[c][i].pc = "out"
             PROVE  \E h \in Handlers : Awaited(c, i, h)'
  BY DEF Heard
<1>1. sender[c][i].pc \in {"timer", "out"}
  BY NextTurns DEF Turns
<1>2. CASE sender[c][i].pc = "out"
  <2>1. PICK h \in Handlers : Awaited(c, i, h)
    BY <1>2 DEF Heard
  <2> QED BY <2>1, AwaitedGoesOn
<1>3. CASE sender[c][i].pc = "timer"
  <2>1. PICK h \in Handlers, r \in Replicas : Arrive(c, i, h, r)
    BY <1>3, OutByArrival
  <2>2. hook'[h] = [pc |-> "begun", charge |-> c, copy |-> i, replica |-> r, heard |-> TRUE]
    BY <2>1 DEF Arrive, Wired, TypeOK
  <2>3. Awaited(c, i, h)'
    BY <2>2 DEF Awaited, Idle
  <2> QED BY <2>3
<1> QED BY <1>1, <1>2, <1>3

LEMMA HeardInvariant == Spec => [](Wired /\ Heard)
<1>1. Init => Heard
  BY DEF Init, Heard
<1> QED BY <1>1, InitWired, NextWired, NextHeard, PTL DEF Spec

\* The request a sender waits for is in one of these stages.
Serving(c, i, stages) == \E h \in Handlers : Awaited(c, i, h) /\ hook[h].pc \in stages

\* Its own step takes it on to the next stage, whatever other requests there are.
LEMMA ServedGoesOn ==
    ASSUME Wired, NEW c \in Charges, NEW i \in Copies, NEW h \in Handlers, Awaited(c, i, h),
           sender'[c][i].pc = "out", [Next]_vars
    PROVE  /\ Served(c, i) => hook'[h].pc # "begun" /\ (hook[h].pc = "tx" => hook'[h].pc # "tx")
           /\ ~Answered(c, i)
<1>0. AnswersTheAttempt /\ hook \in [Handlers -> Hook]
  BY DEF Wired, TypeOK
<1>1. \A g \in Handlers : Awaited(c, i, g) => g = h
  BY <1>0 DEF AnswersTheAttempt, Awaited
<1>2. ASSUME Served(c, i)
      PROVE  hook'[h].pc # "begun" /\ (hook[h].pc = "tx" => hook'[h].pc # "tx")
  <2>1. Insert(h) \/ Commit(h) \/ Rollback(h)
    BY <1>1, <1>2 DEF Served
  <2>2. \E pc \in {"tx", "ok", "bad"} : Serves(h, pc) /\ (hook[h].pc = "tx" => pc # "tx")
    BY <2>1 DEF Insert, Commit, Rollback
  <2>3. PICK pc \in {"tx", "ok", "bad"} : Serves(h, pc) /\ (hook[h].pc = "tx" => pc # "tx")
    BY <2>2
  <2>4. hook[h] \in Hook /\ hook[h] # Idle /\ hook'[h] = [hook[h] EXCEPT !.pc = pc]
    BY <1>0, <2>3 DEF Awaited, Serves
  <2>5. hook'[h].pc = pc
    BY <2>4 DEF Hook
  <2> QED BY <2>3, <2>5
<1>3. ASSUME Answered(c, i) PROVE FALSE
  <2>1. Answer(h)
    BY <1>1, <1>3 DEF Answered
  <2>2. Awaited(c, i, h)'
    BY AwaitedGoesOn
  <2>3. hook'[h] = Idle
    BY <1>0, <2>1 DEF Answer
  <2> QED BY <2>2, <2>3 DEF Awaited
<1> QED BY <1>2, <1>3

\* What the liveness of one sender rests on.
Running(c, i) ==
    [](Wired /\ Heard) /\ [][Next]_vars /\ []CallbacksCanRun /\ SenderFairness(c, i)

WaitEnds(c, i) == [](sender[c][i].pc = "out" => <>(sender[c][i].pc # "out"))

\* A sender does not wait for ever: its request is served and answered.
LEMMA WaitingEnds ==
    ASSUME NEW c \in Charges, NEW i \in Copies
    PROVE  Running(c, i) => WaitEnds(c, i)
<1> DEFINE Out == sender[c][i].pc = "out"
           Begun == Out /\ Serving(c, i, {"begun"})
           InTx == Out /\ Serving(c, i, {"tx"})
           Done == Out /\ Serving(c, i, {"ok", "bad"})
<1>1. Wired /\ Heard /\ Out => Begun \/ InTx \/ Done
  BY HookFields DEF Heard, Wired, TypeOK, Serving, Awaited
<1>2. Wired /\ Begun /\ [Next]_vars => Begun' \/ InTx' \/ Done' \/ ~Out'
  BY AwaitedGoesOn DEF Serving, Further
<1>3. Wired /\ InTx /\ [Next]_vars => InTx' \/ Done' \/ ~Out'
  BY AwaitedGoesOn DEF Serving, Further
<1>4. Wired /\ Done /\ [Next]_vars => Done' \/ ~Out'
  BY AwaitedGoesOn DEF Serving, Further
<1>5. Wired /\ Begun /\ [Next]_vars /\ <<Served(c, i)>>_vars => InTx' \/ Done' \/ ~Out'
  BY AwaitedGoesOn, ServedGoesOn DEF Serving, Further
<1>6. Wired /\ InTx /\ [Next]_vars /\ <<Served(c, i)>>_vars => Done' \/ ~Out'
  BY AwaitedGoesOn, ServedGoesOn DEF Serving, Further
<1>7. Wired /\ Done /\ [Next]_vars /\ <<Answered(c, i)>>_vars => ~Out'
  BY AwaitedGoesOn, ServedGoesOn DEF Serving, Further
<1>8. CallbacksCanRun /\ (Begun \/ InTx) => ENABLED <<Served(c, i)>>_vars
  BY DEF CallbacksCanRun, Serving
<1>9. CallbacksCanRun /\ Done => ENABLED <<Answered(c, i)>>_vars
  BY DEF CallbacksCanRun, Serving
<1> HIDE DEF Out, Begun, InTx, Done
<1>10. Running(c, i) => [](Out => <>~Out)
  BY <1>1, <1>2, <1>3, <1>4, <1>5, <1>6, <1>7, <1>8, <1>9, PTL DEF Running, SenderFairness
<1>11. (Out <=> sender[c][i].pc = "out") /\ (~Out <=> sender[c][i].pc # "out")
  BY DEF Out
<1> QED BY <1>10, <1>11, PTL DEF WaitEnds

\* A sender that has made k attempts.
Tried(c, i, k) == sender[c][i].pc \in {"timer", "out"} /\ sender[c][i].tries >= k

\* ... comes to its end or makes another one.
AnotherOrEnd(c, i, k, next) ==
    [](Tried(c, i, k) => <>(sender[c][i].pc \in Ended \/ Tried(c, i, next)))

LEMMA AttemptsGoOn ==
    ASSUME NEW c \in Charges, NEW i \in Copies, NEW k \in Nat, NEW next, next = k + 1
    PROVE  Running(c, i) => AnotherOrEnd(c, i, k, next)
<1> DEFINE Out == sender[c][i].pc = "out"
           Timer == sender[c][i].pc = "timer"
           AtK == Tried(c, i, k)
           Over == sender[c][i].pc \in Ended
           More == Tried(c, i, next)
<1>0. Wired => sender[c][i] \in Sender
  BY DEF Wired, TypeOK
<1>1. AtK => Timer \/ Out
  BY DEF Tried
<1>2. Wired /\ AtK /\ [Next]_vars => AtK' \/ Over' \/ More'
  <2> SUFFICES ASSUME Wired, AtK, [Next]_vars PROVE AtK' \/ Over' \/ More'
    OBVIOUS
  <2>1. Turns(sender[c][i], sender'[c][i])
    BY NextTurns
  <2>2. sender[c][i].tries \in Nat
    BY <1>0 DEF Sender
  <2> QED BY <2>1, <2>2 DEF Turns, Tried, Ended
<1>3. Wired /\ AtK /\ Timer /\ [Next]_vars => (AtK /\ Timer)' \/ Over' \/ More'
  <2> SUFFICES ASSUME Wired, AtK, Timer, [Next]_vars PROVE (AtK /\ Timer)' \/ Over' \/ More'
    OBVIOUS
  <2>1. Turns(sender[c][i], sender'[c][i])
    BY NextTurns
  <2>2. sender[c][i].tries \in Nat
    BY <1>0 DEF Sender
  <2> QED BY <2>1, <2>2 DEF Turns, Tried, Ended
<1>4. Wired /\ AtK /\ Timer /\ [Next]_vars /\ <<Send(c, i)>>_vars => Over' \/ More'
  <2> SUFFICES ASSUME Wired, AtK, Timer, [Next]_vars, Send(c, i) PROVE Over' \/ More'
    OBVIOUS
  <2>1. sender[c][i].tries \in Nat /\ sender[c][i].tries >= k
    BY <1>0 DEF Sender, Tried
  <2>2. CASE GiveUp(c, i)
    BY <2>2, SendsOne DEF GiveUp, Wired, TypeOK, Ended
  <2>3. CASE \E pc \in {"out", "timer"} : Attempt(c, i, pc)
    BY <2>1, <2>3, AttemptTurns DEF Tried
  <2> QED BY <2>2, <2>3 DEF Send, Arrive, Limited, Unreachable
<1>5. CallbacksCanRun /\ Timer => ENABLED <<Send(c, i)>>_vars
  BY DEF CallbacksCanRun
<1>6. Running(c, i) => WaitEnds(c, i)
  BY WaitingEnds
<1>7. (Out <=> sender[c][i].pc = "out") /\ (~Out <=> sender[c][i].pc # "out")
  OBVIOUS
<1> HIDE DEF Out, Timer, AtK, Over, More
<1>8. Running(c, i) => [](AtK => <>(Over \/ More))
  BY <1>1, <1>2, <1>3, <1>4, <1>5, <1>6, <1>7, PTL DEF Running, SenderFairness, WaitEnds
<1> QED BY <1>8, PTL DEF AtK, Over, More, AnotherOrEnd

\* After the last attempt, of at most eight, there is no other.
LEMMA AttemptsEnd ==
    ASSUME NEW c \in Charges, NEW i \in Copies, MaxRetries \in 1..8
    PROVE  Running(c, i) => []<>(sender[c][i].pc \in Ended)
<1> DEFINE Over == sender[c][i].pc \in Ended
<1>1. Wired => Over \/ Tried(c, i, 0)
  BY DEF Wired, TypeOK, Sender, Tried, Ended
<1>2. Wired => ~Tried(c, i, 9)
  BY DEF Wired, TypeOK, Sender, Tried
<1>3. Running(c, i) =>
        /\ AnotherOrEnd(c, i, 0, 1) /\ AnotherOrEnd(c, i, 1, 2) /\ AnotherOrEnd(c, i, 2, 3)
        /\ AnotherOrEnd(c, i, 3, 4) /\ AnotherOrEnd(c, i, 4, 5) /\ AnotherOrEnd(c, i, 5, 6)
        /\ AnotherOrEnd(c, i, 6, 7) /\ AnotherOrEnd(c, i, 7, 8) /\ AnotherOrEnd(c, i, 8, 9)
  BY AttemptsGoOn
<1> HIDE DEF Over
<1>4. Running(c, i) => []<>Over
  BY <1>1, <1>2, <1>3, PTL DEF Running, AnotherOrEnd, Over
<1> QED BY <1>4, PTL DEF Over

\* With the eight attempts of the code, or fewer, every sender delivers, gives up
\* or dies with its gateway: none waits for ever.
THEOREM EverySenderEnds ==
    ASSUME MaxRetries \in 1..8
    PROVE  FairSpec /\ []CallbacksCanRun => SendersEnd
<1>1. ASSUME NEW c \in Charges, NEW i \in Copies
      PROVE  FairSpec /\ []CallbacksCanRun => []<>(sender[c][i].pc \in Ended)
  <2>1. Fairness => SenderFairness(c, i)
    BY DEF Fairness
  <2>2. Running(c, i) => []<>(sender[c][i].pc \in Ended)
    BY AttemptsEnd
  <2> QED BY <2>1, <2>2, HeardInvariant, PTL DEF FairSpec, Spec, Running
<1> QED BY <1>1 DEF SendersEnd
=============================================================================
