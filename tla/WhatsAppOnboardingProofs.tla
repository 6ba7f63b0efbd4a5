----------------------- MODULE WhatsAppOnboardingProofs -----------------------
(***************************************************************************)
(* Proofs about WhatsAppOnboarding.  However many messages there are, one  *)
(* with an id is handled by one request, and the conversation carries the  *)
(* answers it builds on.  Of a worker who writes one message at a time,    *)
(* with an id, which the provider repeats as it likes, and of messages     *)
(* that are handled one at a time, with an id or without, the conversation *)
(* is never ahead of the users row, and the tier is as told.  Faults and   *)
(* refusals of the gateway are not bounded.                                *)
(***************************************************************************)
EXTENDS MCWhatsAppOnboarding, TLAPS

\* The worker writes one message at a time, with an id, which the provider repeats as
\* it likes; or the server takes one request at a time, and the messages may have none.
OneAtATime ==
    \/ Message \subseteq Identified /\ \A m, n \in Message : m = n
    \/ \A h, g \in Handler : h = g

\* A message with an id is handled once, whatever the provider repeats, and the outcome
\* to tell is known once it is handled.
Busy(h) == pc[h] # "idle"
HandledOnce ==
    /\ \A h \in Handler : Busy(h) => msg[h] \in Message
    /\ \A h \in Handler : Busy(h) /\ msg[h] \in Identified => msg[h] \in seen
    /\ \A h, g \in Handler :
          Busy(h) /\ Busy(g) /\ msg[h] = msg[g] /\ msg[h] \in Identified => h = g
    /\ \A h \in Handler : ~Busy(h) => msg[h] = NoMessage
    /\ \A h \in Handler : pc[h] \notin {"set", "send"} => tell[h] = "none"

\* The answers up to state s are in the users row, and what the next handler will
\* write over is in the data d.
Behind(s, d) ==
    /\ s \in Asking => user
    /\ s = "awaiting_language" => "name" \in profile
    /\ s = "awaiting_preferred_zone" => "target_role" \in profile \cap d
    /\ s \in {"awaiting_verification_option", "awaiting_aadhaar_number",
              "awaiting_aadhaar_consent", "awaiting_aadhaar_otp",
              "awaiting_document_upload", "awaiting_skip_confirm"} =>
          {"target_role", "preferred_zone"} \subseteq profile

\* What a handler has read is what is there, and what it will set fits the row.
HandlersFit ==
    \A h \in Handler :
        /\ pc[h] \in {"state", "handle", "set", "send"} => user
        /\ pc[h] \in {"create", "state", "handle"} => row[h] = profile
        /\ pc[h] \in {"handle", "set"} => Behind(from[h], with[h])
        /\ pc[h] = "handle" => state \in {from[h], "none"}

\* The tier is the one that a handler is about to tell, or was last told.
TierFits ==
    faults = 0 /\ ~refused =>
        /\ \A h \in Handler : tell[h] # "none" => tier = TierOf[tell[h]]
        /\ told # "none" => tier = TierOf[told] \/ \E h \in Handler : tell[h] # "none"

\* The inductive invariant of the conversation, for one message at a time.
IInv ==
    /\ OneAtATime
    /\ TypeOK
    /\ refused \in BOOLEAN
    /\ HandledOnce
    /\ Behind(state, data)
    /\ HandlersFit
    /\ TierFits

-----------------------------------------------------------------------------
(* Deduplication, for any number of messages.                              *)

\* The initial states satisfy TypeOK and HandledOnce.
LEMMA Initial == Init => TypeOK /\ HandledOnce
  <1> SUFFICES ASSUME Init PROVE TypeOK /\ HandledOnce
    OBVIOUS
  <1>1. faults = 0 /\ MaxFaults \in Nat
    BY ConversationAssumption DEF Init
  <1>2. /\ delivery \in [Message -> {"unsent", "sent", "acknowledged"}]
        /\ seen \in SUBSET Message
        /\ user \in BOOLEAN
        /\ profile \in SUBSET Field
        /\ verification \in Active \cup Outcome \cup {"none", "Failed"}
        /\ tier \in {"Low", "Medium", "High"}
        /\ told \in Outcome \cup {"none"}
        /\ state \in State
        /\ data \in SUBSET {"name", "target_role"}
    BY DEF Init, State
  <1>3. /\ pc \in [Handler -> {"idle", "user", "create", "state", "handle", "set", "send"}]
        /\ msg \in [Handler -> Message \cup {NoMessage}]
        /\ row \in [Handler -> SUBSET Field]
        /\ from \in [Handler -> State]
        /\ with \in [Handler -> SUBSET {"name", "target_role"}]
        /\ tell \in [Handler -> Outcome \cup {"none"}]
    BY DEF Init, State
  <1>4. HandledOnce
    BY DEF Init, HandledOnce, Busy
  <1> QED
    BY <1>1, <1>2, <1>3, <1>4 DEF TypeOK

\* Every step preserves them: a delivery gets a handler only if SETNX stored its id.
LEMMA DedupeKeeps == TypeOK /\ HandledOnce /\ [Next]_vars => TypeOK' /\ HandledOnce'
  <1> USE ConversationAssumption DEF webhook, tables, conversation, local
  <1> SUFFICES ASSUME TypeOK, HandledOnce, [Next]_vars PROVE TypeOK' /\ HandledOnce'
    OBVIOUS
  <1>1. ASSUME NEW m \in Message, WriteMessage(m)
        PROVE  TypeOK' /\ HandledOnce'
    <2>1. TypeOK'
      BY <1>1 DEF WriteMessage, TypeOK, State, Asking, Field, Active, Outcome
    <2>2. HandledOnce'
      BY <1>1 DEF WriteMessage, TypeOK, HandledOnce, Busy
    <2> QED
      BY <2>1, <2>2
  <1>2. ASSUME NEW m \in Message, ForgetMessage(m)
        PROVE  TypeOK' /\ HandledOnce'
    <2>1. TypeOK'
      BY <1>2 DEF ForgetMessage, TypeOK, State, Asking, Field, Active, Outcome
    <2>2. HandledOnce'
      BY <1>2 DEF ForgetMessage, TypeOK, HandledOnce, Busy
    <2> QED
      BY <2>1, <2>2
  <1>3. ASSUME NEW m \in Message, NEW h \in Handler, Receive(h, m)
        PROVE  TypeOK' /\ HandledOnce'
    <2>1. TypeOK'
      BY <1>3 DEF Receive, IsNew, DuplicateAnswer, Acknowledge, TypeOK, State, Asking,
         Field, Active, Outcome
    <2>2. HandledOnce'
      BY <1>3 DEF Receive, IsNew, DuplicateAnswer, Acknowledge, TypeOK, HandledOnce,
         Busy
    <2> QED
      BY <2>1, <2>2
  <1>4. ASSUME NEW h \in Handler, GetUser(h)
        PROVE  TypeOK' /\ HandledOnce'
    <2>1. TypeOK'
      BY <1>4 DEF GetUser, TypeOK, State, Asking, Field, Active, Outcome
    <2>2. HandledOnce'
      BY <1>4 DEF GetUser, TypeOK, HandledOnce, Busy
    <2> QED
      BY <2>1, <2>2
  <1>5. ASSUME NEW h \in Handler, CreateUser(h)
        PROVE  TypeOK' /\ HandledOnce'
    <2>1. TypeOK'
      BY <1>5 DEF CreateUser, Reply, TypeOK, State, Asking, Field, Active, Outcome
    <2>2. HandledOnce'
      BY <1>5 DEF CreateUser, Reply, TypeOK, HandledOnce, Busy
    <2> QED
      BY <2>1, <2>2
  <1>6. ASSUME NEW h \in Handler, ReferralCommand(h)
        PROVE  TypeOK' /\ HandledOnce'
    <2>1. TypeOK'
      BY <1>6 DEF ReferralCommand, Reply, TypeOK, State, Asking, Field, Active, Outcome
    <2>2. HandledOnce'
      BY <1>6 DEF ReferralCommand, Reply, TypeOK, HandledOnce, Busy
    <2> QED
      BY <2>1, <2>2
  <1>7. ASSUME NEW h \in Handler, GetState(h)
        PROVE  TypeOK' /\ HandledOnce'
    <2>1. TypeOK'
      BY <1>7 DEF GetState, TypeOK, State, Asking, Field, Active, Outcome
    <2>2. HandledOnce'
      BY <1>7 DEF GetState, TypeOK, HandledOnce, Busy
    <2> QED
      BY <2>1, <2>2
  <1>8. ASSUME NEW h \in Handler, ShowReturningMenu(h)
        PROVE  TypeOK' /\ HandledOnce'
    <2>1. TypeOK'
      BY <1>8 DEF ShowReturningMenu, At, Reply, TypeOK, State, Asking, Field, Active,
         Outcome
    <2>2. HandledOnce'
      BY <1>8 DEF ShowReturningMenu, At, Reply, TypeOK, HandledOnce, Busy
    <2> QED
      BY <2>1, <2>2
  <1>9. ASSUME NEW h \in Handler, AskAgain(h)
        PROVE  TypeOK' /\ HandledOnce'
    <2>1. TypeOK'
      BY <1>9 DEF AskAgain, Reply, TypeOK, State, Asking, Field, Active, Outcome
    <2>2. HandledOnce'
      BY <1>9 DEF AskAgain, Reply, TypeOK, HandledOnce, Busy
    <2> QED
      BY <2>1, <2>2
  <1>10. ASSUME NEW h \in Handler, FillIn(h, "awaiting_name", {"name"}, "awaiting_language")
        PROVE  TypeOK' /\ HandledOnce'
    <2>1. TypeOK'
      BY <1>10 DEF FillIn, At, Updated, Reply, TypeOK, State, Asking, Field, Active,
         Outcome
    <2>2. HandledOnce'
      BY <1>10 DEF FillIn, At, Updated, Reply, TypeOK, HandledOnce, Busy
    <2> QED
      BY <2>1, <2>2
  <1>11. ASSUME NEW h \in Handler, FillIn(h, "awaiting_language", {}, "awaiting_target_role")
        PROVE  TypeOK' /\ HandledOnce'
    <2>1. TypeOK'
      BY <1>11 DEF FillIn, At, Updated, Reply, TypeOK, State, Asking, Field, Active,
         Outcome
    <2>2. HandledOnce'
      BY <1>11 DEF FillIn, At, Updated, Reply, TypeOK, HandledOnce, Busy
    <2> QED
      BY <2>1, <2>2
  <1>12. ASSUME NEW h \in Handler,
        FillIn(h, "awaiting_target_role", {"target_role"}, "awaiting_preferred_zone")
        PROVE  TypeOK' /\ HandledOnce'
    <2>1. TypeOK'
      BY <1>12 DEF FillIn, At, Updated, Reply, TypeOK, State, Asking, Field, Active,
         Outcome
    <2>2. HandledOnce'
      BY <1>12 DEF FillIn, At, Updated, Reply, TypeOK, HandledOnce, Busy
    <2> QED
      BY <2>1, <2>2
  <1>13. ASSUME NEW h \in Handler,
        FillIn(h, "awaiting_preferred_zone", {"preferred_zone"},
               "awaiting_verification_option")
        PROVE  TypeOK' /\ HandledOnce'
    <2>1. TypeOK'
      BY <1>13 DEF FillIn, At, Updated, Reply, TypeOK, State, Asking, Field, Active,
         Outcome
    <2>2. HandledOnce'
      BY <1>13 DEF FillIn, At, Updated, Reply, TypeOK, HandledOnce, Busy
    <2> QED
      BY <2>1, <2>2
  <1>14. ASSUME NEW h \in Handler, HandleMove(h)
        PROVE  TypeOK' /\ HandledOnce'
    <2>1. TypeOK'
      BY <1>14 DEF HandleMove, Move, Reply, TypeOK, State, Asking, Field, Active,
         Outcome
    <2>2. HandledOnce'
      BY <1>14 DEF HandleMove, Move, Reply, TypeOK, HandledOnce, Busy
    <2> QED
      BY <2>1, <2>2
  <1>15. ASSUME NEW h \in Handler, HandleService(h)
        PROVE  TypeOK' /\ HandledOnce'
    <2>1. TypeOK'
      <3>1. /\ delivery' \in [Message -> {"unsent", "sent", "acknowledged"}]
            /\ seen' \in SUBSET Message
            /\ user' \in BOOLEAN
            /\ profile' \in SUBSET Field
            /\ told' \in Outcome \cup {"none"}
            /\ state' \in State
            /\ data' \in SUBSET {"name", "target_role"}
            /\ msg' \in [Handler -> Message \cup {NoMessage}]
            /\ row' \in [Handler -> SUBSET Field]
        BY <1>15 DEF HandleService, At, Reply, TypeOK
      <3>2. /\ verification' \in Active \cup Outcome \cup {"none", "Failed"}
            /\ tier' \in {"Low", "Medium", "High"}
            /\ faults' \in 0..MaxFaults
        BY <1>15 DEF HandleService, At, Reply, TypeOK, Active, Outcome, TierOf
      <3>3. /\ pc' \in [Handler -> {"idle", "user", "create", "state", "handle",
                                 "set", "send"}]
            /\ from' \in [Handler -> State]
            /\ with' \in [Handler -> SUBSET {"name", "target_role"}]
            /\ tell' \in [Handler -> Outcome \cup {"none"}]
        BY <1>15 DEF HandleService, At, Reply, TypeOK, State, Asking, Outcome
      <3> QED
        BY <3>1, <3>2, <3>3 DEF TypeOK
    <2>2. HandledOnce'
      BY <1>15 DEF HandleService, At, Reply, TypeOK, HandledOnce, Busy
    <2> QED
      BY <2>1, <2>2
  <1>16. ASSUME NEW h \in Handler, HandleAadhaarConsent(h)
        PROVE  TypeOK' /\ HandledOnce'
    <2>1. TypeOK'
      BY <1>16 DEF HandleAadhaarConsent, At, Reply, TypeOK, State, Asking, Field,
         Active, Outcome
    <2>2. HandledOnce'
      BY <1>16 DEF HandleAadhaarConsent, At, Reply, TypeOK, HandledOnce, Busy
    <2> QED
      BY <2>1, <2>2
  <1>17. ASSUME NEW h \in Handler, HandleVerification(h)
        PROVE  TypeOK' /\ HandledOnce'
    <2>1. TypeOK'
      <3>1. /\ delivery' \in [Message -> {"unsent", "sent", "acknowledged"}]
            /\ seen' \in SUBSET Message
            /\ user' \in BOOLEAN
            /\ profile' \in SUBSET Field
            /\ told' \in Outcome \cup {"none"}
            /\ state' \in State
            /\ data' \in SUBSET {"name", "target_role"}
            /\ msg' \in [Handler -> Message \cup {NoMessage}]
            /\ row' \in [Handler -> SUBSET Field]
        BY <1>17 DEF HandleVerification, At, Conclude, Reply, TypeOK
      <3>2. /\ verification' \in Active \cup Outcome \cup {"none", "Failed"}
            /\ tier' \in {"Low", "Medium", "High"}
            /\ faults' \in 0..MaxFaults
        BY <1>17 DEF HandleVerification, At, Conclude, Reply, TypeOK, Active, Outcome,
           TierOf
      <3>3. /\ pc' \in [Handler -> {"idle", "user", "create", "state", "handle",
                                 "set", "send"}]
            /\ from' \in [Handler -> State]
            /\ with' \in [Handler -> SUBSET {"name", "target_role"}]
            /\ tell' \in [Handler -> Outcome \cup {"none"}]
        BY <1>17 DEF HandleVerification, At, Conclude, Reply, TypeOK, State, Asking,
           Outcome
      <3> QED
        BY <3>1, <3>2, <3>3 DEF TypeOK
    <2>2. HandledOnce'
      BY <1>17 DEF HandleVerification, At, Conclude, Reply, TypeOK, HandledOnce, Busy
    <2> QED
      BY <2>1, <2>2
  <1>18. ASSUME NEW h \in Handler, HandleNotVerified(h)
        PROVE  TypeOK' /\ HandledOnce'
    <2>1. TypeOK'
      BY <1>18 DEF HandleNotVerified, At, Reply, TypeOK, State, Asking, Field, Active,
         Outcome
    <2>2. HandledOnce'
      BY <1>18 DEF HandleNotVerified, At, Reply, TypeOK, HandledOnce, Busy
    <2> QED
      BY <2>1, <2>2
  <1>19. ASSUME NEW h \in Handler, HandleHalfVerified(h)
        PROVE  TypeOK' /\ HandledOnce'
    <2>1. TypeOK'
      <3>1. /\ delivery' \in [Message -> {"unsent", "sent", "acknowledged"}]
            /\ seen' \in SUBSET Message
            /\ user' \in BOOLEAN
            /\ profile' \in SUBSET Field
            /\ told' \in Outcome \cup {"none"}
            /\ state' \in State
            /\ data' \in SUBSET {"name", "target_role"}
            /\ msg' \in [Handler -> Message \cup {NoMessage}]
            /\ row' \in [Handler -> SUBSET Field]
        BY <1>19 DEF HandleHalfVerified, ConcludePartly, At, Leave, TypeOK, Field
      <3>2. /\ verification' \in Active \cup Outcome \cup {"none", "Failed"}
            /\ tier' \in {"Low", "Medium", "High"}
            /\ faults' \in 0..MaxFaults
        BY <1>19 DEF HandleHalfVerified, ConcludePartly, At, Leave, TypeOK, Active,
           Outcome, TierOf
      <3>3. /\ pc' \in [Handler -> {"idle", "user", "create", "state", "handle",
                                 "set", "send"}]
            /\ from' \in [Handler -> State]
            /\ with' \in [Handler -> SUBSET {"name", "target_role"}]
            /\ tell' \in [Handler -> Outcome \cup {"none"}]
        BY <1>19 DEF HandleHalfVerified, ConcludePartly, At, Leave, TypeOK, State, Asking,
           Outcome
      <3> QED
        BY <3>1, <3>2, <3>3 DEF TypeOK
    <2>2. HandledOnce'
      BY <1>19 DEF HandleHalfVerified, ConcludePartly, At, Leave, TypeOK, HandledOnce,
         Busy
    <2> QED
      BY <2>1, <2>2
  <1>20. ASSUME NEW h \in Handler, SetState(h)
        PROVE  TypeOK' /\ HandledOnce'
    <2>1. TypeOK'
      BY <1>20 DEF SetState, TypeOK, State, Asking, Field, Active, Outcome
    <2>2. HandledOnce'
      BY <1>20 DEF SetState, TypeOK, HandledOnce, Busy
    <2> QED
      BY <2>1, <2>2
  <1>21. ASSUME NEW h \in Handler, SendMessage(h)
        PROVE  TypeOK' /\ HandledOnce'
    <2>1. TypeOK'
      BY <1>21 DEF SendMessage, Acknowledge, Leave, TypeOK, State, Asking, Field,
         Active, Outcome
    <2>2. HandledOnce'
      BY <1>21 DEF SendMessage, Acknowledge, Leave, TypeOK, HandledOnce, Busy
    <2> QED
      BY <2>1, <2>2
  <1>22. ASSUME NEW h \in Handler, Refuse(h)
        PROVE  TypeOK' /\ HandledOnce'
    <2>1. TypeOK'
      BY <1>22 DEF Refuse, At, Leave, TypeOK, State, Asking, Field, Active, Outcome
    <2>2. HandledOnce'
      BY <1>22 DEF Refuse, At, Leave, TypeOK, HandledOnce, Busy
    <2> QED
      BY <2>1, <2>2
  <1>23. ASSUME NEW h \in Handler, HandlerFails(h)
        PROVE  TypeOK' /\ HandledOnce'
    <2>1. TypeOK'
      BY <1>23 DEF HandlerFails, Leave, TypeOK, State, Asking, Field, Active, Outcome
    <2>2. HandledOnce'
      BY <1>23 DEF HandlerFails, Leave, TypeOK, HandledOnce, Busy
    <2> QED
      BY <2>1, <2>2
  <1>24. ASSUME StateExpires
        PROVE  TypeOK' /\ HandledOnce'
    <2>1. TypeOK'
      BY <1>24 DEF StateExpires, TypeOK, State, Asking, Field, Active, Outcome
    <2>2. HandledOnce'
      BY <1>24 DEF StateExpires, TypeOK, HandledOnce, Busy
    <2> QED
      BY <2>1, <2>2
  <1>25. CASE UNCHANGED vars
    BY <1>25 DEF vars, TypeOK, HandledOnce, Busy
  <1>26. ASSUME NEW h \in Handler, Progress(h) PROVE TypeOK' /\ HandledOnce'
    BY <1>26, <1>4, <1>5, <1>6, <1>7, <1>8, <1>9, <1>10, <1>11, <1>12, <1>13, <1>14, <1>15,
         <1>16, <1>17, <1>18, <1>20, <1>21, <1>22
       DEF Progress, HandleProfile
  <1> QED
    BY <1>1, <1>2, <1>3, <1>19, <1>23, <1>24, <1>25, <1>26 DEF Next

\* However often, late or concurrently the provider delivers a message that has an id,
\* one request handles it, for any number of messages, requests and faults (MarkProcessed).
THEOREM DeliveredOnce == Spec => []HandledOnce
  BY Initial, DedupeKeeps, PTL DEF Spec

-----------------------------------------------------------------------------
(* The conversation, for any number of messages at a time: the users row    *)
(* may lose an answer to a request that has read it earlier, but the        *)
(* conversation carries the answers it builds on with the question.         *)

Carries(s, d) ==
    /\ s \in Asking => user
    /\ s = "awaiting_language" => "name" \in d
    /\ s \in {"awaiting_preferred_zone", "awaiting_verification_option",
              "awaiting_aadhaar_number", "awaiting_aadhaar_consent",
              "awaiting_aadhaar_otp", "awaiting_document_upload",
              "awaiting_skip_confirm"} => "target_role" \in d

\* What the conversation asks next, it asks with the answers the next write needs, so
\* an answer that was lost from the row is written again with the one that follows.
AnswersCarried == Carries(state, data)

\* And so does each request, with what it has read and what it is about to set.
RequestsCarry ==
    \A h \in Handler :
        /\ pc[h] \in {"state", "handle", "set", "send"} => user
        /\ pc[h] \in {"handle", "set"} => Carries(from[h], with[h])

\* Every step of every request preserves them.
LEMMA CarryKept ==
  TypeOK /\ AnswersCarried /\ RequestsCarry /\ [Next]_vars
    => AnswersCarried' /\ RequestsCarry'
  <1> USE DEF webhook, tables, conversation, local
  <1> SUFFICES ASSUME TypeOK, AnswersCarried, RequestsCarry, [Next]_vars
               PROVE  AnswersCarried' /\ RequestsCarry'
    OBVIOUS
  <1>1. CASE UNCHANGED <<user, conversation, pc, from, with>>
    BY <1>1 DEF AnswersCarried, RequestsCarry, Carries
  <1>2. CASE \E m \in Message : WriteMessage(m) \/ ForgetMessage(m)
    BY <1>1, <1>2 DEF WriteMessage, ForgetMessage
  <1>3. CASE StateExpires
    BY <1>3 DEF StateExpires, AnswersCarried, RequestsCarry, Carries, Asking
  <1>4. ASSUME NEW m \in Message, NEW h \in Handler, Receive(h, m)
        PROVE  AnswersCarried' /\ RequestsCarry'
    BY <1>4 DEF Receive, TypeOK, AnswersCarried, RequestsCarry, Carries
  <1>5. ASSUME NEW h \in Handler, Leave(h), UNCHANGED <<user, conversation>>
        PROVE  AnswersCarried' /\ RequestsCarry'
    BY <1>5 DEF Leave, TypeOK, AnswersCarried, RequestsCarry, Carries
  <1>6. ASSUME NEW h \in Handler, NEW s \in Asking, NEW d, NEW o, Reply(h, s, d, o),
               user', user => user', Carries(s, d)'
        PROVE  AnswersCarried' /\ RequestsCarry'
    <2>1. UNCHANGED <<state, data>>
      BY <1>6 DEF Reply
    <2>2. AnswersCarried'
      BY <1>6, <2>1 DEF AnswersCarried, Carries
    <2>3. /\ pc' = [pc EXCEPT ![h] = "set"] /\ from' = [from EXCEPT ![h] = s]
          /\ with' = [with EXCEPT ![h] = d]
      BY <1>6 DEF Reply
    <2>4. RequestsCarry'
      BY <1>6, <2>3 DEF TypeOK, RequestsCarry, Carries
    <2> QED
      BY <2>2, <2>4
  <1>7. ASSUME NEW h \in Handler, pc[h] \in {"state", "handle"}
        PROVE  /\ user
               /\ pc[h] = "handle" => Carries(from[h], with[h])
    BY <1>7 DEF RequestsCarry
  <1>8. ASSUME NEW h \in Handler, Progress(h)
        PROVE  AnswersCarried' /\ RequestsCarry'
    <2>1. CASE GetUser(h)
      BY <2>1 DEF GetUser, TypeOK, AnswersCarried, RequestsCarry, Carries
    <2>2. CASE CreateUser(h)
      BY <1>6, <2>2 DEF CreateUser, Carries, Asking
    <2>3. CASE ReferralCommand(h)
      BY <1>6, <1>7, <2>3 DEF ReferralCommand, Carries, Asking
    <2>4. CASE GetState(h)
      BY <2>4 DEF GetState, TypeOK, AnswersCarried, RequestsCarry, Carries
    <2>5. CASE ShowReturningMenu(h)
      BY <1>6, <1>7, <2>5 DEF ShowReturningMenu, At, Carries, Asking
    <2>6. CASE AskAgain(h)
      BY <1>6, <1>7, <2>6 DEF AskAgain, Carries
    <2>7. CASE HandleProfile(h)
      BY <1>6, <1>7, <2>7 DEF HandleProfile, FillIn, At, Carries, Asking
    <2>8. CASE HandleMove(h)
      BY <1>6, <1>7, <2>8 DEF HandleMove, Move, Carries, Asking
    <2>9. CASE HandleService(h)
      BY <1>6, <1>7, <2>9 DEF HandleService, At, Carries, Asking
    <2>10. CASE HandleAadhaarConsent(h)
      BY <1>6, <1>7, <2>10 DEF HandleAadhaarConsent, At, Carries, Asking
    <2>11. CASE HandleVerification(h)
      BY <1>6, <1>7, <2>11 DEF HandleVerification, Conclude, At, Carries, Asking
    <2>12. CASE HandleNotVerified(h)
      BY <1>6, <1>7, <2>12 DEF HandleNotVerified, At, Carries, Asking
    <2>13. CASE SetState(h)
      BY <2>13 DEF SetState, TypeOK, AnswersCarried, RequestsCarry, Carries
    <2>14. CASE SendMessage(h)
      BY <1>5, <2>14 DEF SendMessage
    <2>15. CASE Refuse(h)
      BY <1>5, <2>15 DEF Refuse
    <2> QED
      BY <1>8, <2>1, <2>2, <2>3, <2>4, <2>5, <2>6, <2>7, <2>8, <2>9, <2>10, <2>11,
         <2>12, <2>13, <2>14, <2>15 DEF Progress
  <1>9. ASSUME NEW h \in Handler, HandleHalfVerified(h) \/ HandlerFails(h)
        PROVE  AnswersCarried' /\ RequestsCarry'
    <2>1. CASE Leave(h)
      BY <1>5, <1>9, <2>1 DEF HandleHalfVerified, HandlerFails
    <2>2. CASE At(h, "awaiting_aadhaar_otp") /\ pc' = [pc EXCEPT ![h] = "set"]
               /\ UNCHANGED <<user, conversation, from, with>>
      BY <1>7, <2>2 DEF At, TypeOK, AnswersCarried, RequestsCarry, Carries
    <2> QED
      BY <1>9, <2>1, <2>2 DEF HandleHalfVerified, HandlerFails
  <1>10. CASE UNCHANGED vars
    BY <1>1, <1>10 DEF vars
  <1> QED
    BY <1>2, <1>3, <1>4, <1>8, <1>9, <1>10 DEF Next

\* However many messages the worker writes at a time and whatever fails: there is a
\* users row behind every question, and the question has with it the answers that
\* the next write of the row needs.
THEOREM AnswersStay == Spec => []AnswersCarried
  <1>1. Init => AnswersCarried /\ RequestsCarry
    BY DEF Init, AnswersCarried, RequestsCarry, Carries, Asking
  <1> QED
    BY <1>1, Initial, DedupeKeeps, CarryKept, PTL DEF Spec

-----------------------------------------------------------------------------
(* The conversation, one message at a time.                                *)

\* The initial states satisfy the inductive invariant.
LEMMA ConversationBegins == MCInit /\ OneAtATime => IInv
  <1> SUFFICES ASSUME Init, refused = FALSE, OneAtATime PROVE IInv
    BY DEF MCInit
  <1>1. Behind(state, data) /\ HandlersFit
    BY DEF Init, Behind, HandlersFit, Asking
  <1>2. TierFits
    BY DEF Init, TierFits
  <1> QED
    BY <1>1, <1>2, Initial DEF IInv

\* There is one message, which is handled once, or one request: so one is at work.
LEMMA Alone ==
  ASSUME IInv, NEW h \in Handler, Busy(h)
  PROVE  \A g \in Handler : g # h => pc[g] = "idle"
  <1> SUFFICES ASSUME NEW g \in Handler, Busy(g) PROVE g = h
    BY DEF Busy
  <1>1. msg[h] \in Message /\ msg[g] \in Message
    BY DEF IInv, HandledOnce, TypeOK
  <1> QED
    BY <1>1 DEF IInv, HandledOnce, OneAtATime

\* Every step of the conversation preserves the inductive invariant.
LEMMA ConversationKeeps == IInv /\ [MCNext]_<<vars, refused>> => IInv'
  <1> USE ConversationAssumption DEF webhook, tables, conversation, local
  <1> SUFFICES ASSUME IInv, [MCNext]_<<vars, refused>> PROVE IInv'
    OBVIOUS
  <1> DEFINE Noted ==
        /\ refused' = (refused \/ (verification # "Failed" /\ verification' = "Failed"))
        /\ refused' \in BOOLEAN
  <1> DEFINE Fits == Behind(state, data) /\ HandlersFit /\ TierFits
  <1> USE DEF IInv
  <1>0. OneAtATime' /\ TypeOK' /\ HandledOnce'
    BY DedupeKeeps DEF OneAtATime, MCNext, vars
  <1>1. ASSUME NEW m \in Message, WriteMessage(m), Noted
        PROVE  Fits'
    <2>1. Behind(state, data)'
      BY <1>1 DEF WriteMessage, TypeOK, HandlersFit, Behind, Asking
    <2>2. HandlersFit'
      BY <1>1 DEF WriteMessage, TypeOK, HandledOnce, Busy, HandlersFit, Behind, Asking
    <2>3. TierFits'
      BY <1>1 DEF WriteMessage, TypeOK, HandledOnce, Busy, TierFits, TierOf, Outcome
    <2> QED
      BY <2>1, <2>2, <2>3
  <1>2. ASSUME NEW m \in Message, ForgetMessage(m), Noted
        PROVE  Fits'
    <2>1. Behind(state, data)'
      BY <1>2 DEF ForgetMessage, TypeOK, HandlersFit, Behind, Asking
    <2>2. HandlersFit'
      BY <1>2 DEF ForgetMessage, TypeOK, HandledOnce, Busy, HandlersFit, Behind, Asking
    <2>3. TierFits'
      BY <1>2 DEF ForgetMessage, TypeOK, HandledOnce, Busy, TierFits, TierOf, Outcome
    <2> QED
      BY <2>1, <2>2, <2>3
  <1>3. ASSUME NEW m \in Message, NEW h \in Handler, Receive(h, m), Noted
        PROVE  Fits'
    <2>1. Behind(state, data)'
      BY <1>3 DEF Receive, IsNew, DuplicateAnswer, Acknowledge, TypeOK, HandlersFit,
         Behind, Asking
    <2>2. HandlersFit'
      BY <1>3 DEF Receive, IsNew, DuplicateAnswer, Acknowledge, TypeOK, HandledOnce,
         Busy, HandlersFit, Behind, Asking
    <2>3. TierFits'
      BY <1>3 DEF Receive, IsNew, DuplicateAnswer, Acknowledge, TypeOK, HandledOnce,
         Busy, TierFits, TierOf, Outcome
    <2> QED
      BY <2>1, <2>2, <2>3
  <1>4. ASSUME NEW h \in Handler, GetUser(h), Noted
        PROVE  Fits'
    <2>0. \A g \in Handler : g # h => pc[g] = "idle"
      BY <1>4, Alone DEF GetUser, Busy
    <2>1. Behind(state, data)'
      BY <1>4, <2>0 DEF GetUser, TypeOK, HandlersFit, Behind, Asking
    <2>2. HandlersFit'
      BY <1>4, <2>0 DEF GetUser, TypeOK, HandledOnce, Busy, HandlersFit, Behind, Asking
    <2>3. TierFits'
      BY <1>4, <2>0 DEF GetUser, TypeOK, HandledOnce, Busy, TierFits, TierOf, Outcome
    <2> QED
      BY <2>1, <2>2, <2>3
  <1>5. ASSUME NEW h \in Handler, CreateUser(h), Noted
        PROVE  Fits'
    <2>0. \A g \in Handler : g # h => pc[g] = "idle"
      BY <1>5, Alone DEF CreateUser, Reply, Busy
    <2>1. Behind(state, data)'
      BY <1>5, <2>0 DEF CreateUser, Reply, TypeOK, HandlersFit, Behind, Asking
    <2>2. HandlersFit'
      BY <1>5, <2>0 DEF CreateUser, Reply, TypeOK, HandledOnce, Busy, HandlersFit,
         Behind, Asking
    <2>3. TierFits'
      BY <1>5, <2>0 DEF CreateUser, Reply, TypeOK, HandledOnce, Busy, TierFits, TierOf,
         Outcome
    <2> QED
      BY <2>1, <2>2, <2>3
  <1>6. ASSUME NEW h \in Handler, ReferralCommand(h), Noted
        PROVE  Fits'
    <2>0. \A g \in Handler : g # h => pc[g] = "idle"
      BY <1>6, Alone DEF ReferralCommand, Reply, Busy
    <2>1. Behind(state, data)'
      BY <1>6, <2>0 DEF ReferralCommand, Reply, TypeOK, HandlersFit, Behind, Asking
    <2>2. HandlersFit'
      BY <1>6, <2>0 DEF ReferralCommand, Reply, TypeOK, HandledOnce, Busy, HandlersFit,
         Behind, Asking
    <2>3. TierFits'
      BY <1>6, <2>0 DEF ReferralCommand, Reply, TypeOK, HandledOnce, Busy, TierFits,
         TierOf, Outcome
    <2> QED
      BY <2>1, <2>2, <2>3
  <1>7. ASSUME NEW h \in Handler, GetState(h), Noted
        PROVE  Fits'
    <2>0. \A g \in Handler : g # h => pc[g] = "idle"
      BY <1>7, Alone DEF GetState, Busy
    <2>1. Behind(state, data)'
      BY <1>7, <2>0 DEF GetState, TypeOK, HandlersFit, Behind, Asking
    <2>2. HandlersFit'
      BY <1>7, <2>0 DEF GetState, TypeOK, HandledOnce, Busy, HandlersFit, Behind, Asking
    <2>3. TierFits'
      BY <1>7, <2>0 DEF GetState, TypeOK, HandledOnce, Busy, TierFits, TierOf, Outcome
    <2> QED
      BY <2>1, <2>2, <2>3
  <1>8. ASSUME NEW h \in Handler, ShowReturningMenu(h), Noted
        PROVE  Fits'
    <2>0. \A g \in Handler : g # h => pc[g] = "idle"
      BY <1>8, Alone DEF ShowReturningMenu, At, Reply, Busy
    <2>1. Behind(state, data)'
      BY <1>8, <2>0 DEF ShowReturningMenu, At, Reply, TypeOK, HandlersFit, Behind,
         Asking
    <2>2. HandlersFit'
      BY <1>8, <2>0 DEF ShowReturningMenu, At, Reply, TypeOK, HandledOnce, Busy,
         HandlersFit, Behind, Asking
    <2>3. TierFits'
      BY <1>8, <2>0 DEF ShowReturningMenu, At, Reply, TypeOK, HandledOnce, Busy,
         TierFits, TierOf, Outcome
    <2> QED
      BY <2>1, <2>2, <2>3
  <1>9. ASSUME NEW h \in Handler, AskAgain(h), Noted
        PROVE  Fits'
    <2>0. \A g \in Handler : g # h => pc[g] = "idle"
      BY <1>9, Alone DEF AskAgain, Reply, Busy
    <2>1. Behind(state, data)'
      BY <1>9, <2>0 DEF AskAgain, Reply, TypeOK, HandlersFit, Behind, Asking
    <2>2. HandlersFit'
      BY <1>9, <2>0 DEF AskAgain, Reply, TypeOK, HandledOnce, Busy, HandlersFit, Behind,
         Asking
    <2>3. TierFits'
      BY <1>9, <2>0 DEF AskAgain, Reply, TypeOK, HandledOnce, Busy, TierFits, TierOf,
         Outcome
    <2> QED
      BY <2>1, <2>2, <2>3
  <1>10. ASSUME NEW h \in Handler, FillIn(h, "awaiting_name", {"name"}, "awaiting_language"),
        Noted
        PROVE  Fits'
    <2>0. \A g \in Handler : g # h => pc[g] = "idle"
      BY <1>10, Alone DEF FillIn, At, Updated, Reply, Busy
    <2>1. Behind(state, data)'
      BY <1>10, <2>0 DEF FillIn, At, Updated, Reply, TypeOK, HandlersFit, Behind, Asking
    <2>2. HandlersFit'
      BY <1>10, <2>0 DEF FillIn, At, Updated, Reply, TypeOK, HandledOnce, Busy,
         HandlersFit, Behind, Asking
    <2>3. TierFits'
      BY <1>10, <2>0 DEF FillIn, At, Updated, Reply, TypeOK, HandledOnce, Busy,
         TierFits, TierOf, Outcome
    <2> QED
      BY <2>1, <2>2, <2>3
  <1>11. ASSUME NEW h \in Handler, FillIn(h, "awaiting_language", {}, "awaiting_target_role"),
        Noted
        PROVE  Fits'
    <2>0. \A g \in Handler : g # h => pc[g] = "idle"
      BY <1>11, Alone DEF FillIn, At, Updated, Reply, Busy
    <2>1. Behind(state, data)'
      BY <1>11, <2>0 DEF FillIn, At, Updated, Reply, TypeOK, HandlersFit, Behind, Asking
    <2>2. HandlersFit'
      BY <1>11, <2>0 DEF FillIn, At, Updated, Reply, TypeOK, HandledOnce, Busy,
         HandlersFit, Behind, Asking
    <2>3. TierFits'
      BY <1>11, <2>0 DEF FillIn, At, Updated, Reply, TypeOK, HandledOnce, Busy,
         TierFits, TierOf, Outcome
    <2> QED
      BY <2>1, <2>2, <2>3
  <1>12. ASSUME NEW h \in Handler,
        FillIn(h, "awaiting_target_role", {"target_role"}, "awaiting_preferred_zone"),
        Noted
        PROVE  Fits'
    <2>0. \A g \in Handler : g # h => pc[g] = "idle"
      BY <1>12, Alone DEF FillIn, At, Updated, Reply, Busy
    <2>1. Behind(state, data)'
      BY <1>12, <2>0 DEF FillIn, At, Updated, Reply, TypeOK, HandlersFit, Behind, Asking
    <2>2. HandlersFit'
      BY <1>12, <2>0 DEF FillIn, At, Updated, Reply, TypeOK, HandledOnce, Busy,
         HandlersFit, Behind, Asking
    <2>3. TierFits'
      BY <1>12, <2>0 DEF FillIn, At, Updated, Reply, TypeOK, HandledOnce, Busy,
         TierFits, TierOf, Outcome
    <2> QED
      BY <2>1, <2>2, <2>3
  <1>13. ASSUME NEW h \in Handler,
        FillIn(h, "awaiting_preferred_zone", {"preferred_zone"},
               "awaiting_verification_option"),
        Noted
        PROVE  Fits'
    <2>0. \A g \in Handler : g # h => pc[g] = "idle"
      BY <1>13, Alone DEF FillIn, At, Updated, Reply, Busy
    <2>1. Behind(state, data)'
      BY <1>13, <2>0 DEF FillIn, At, Updated, Reply, TypeOK, HandlersFit, Behind, Asking
    <2>2. HandlersFit'
      BY <1>13, <2>0 DEF FillIn, At, Updated, Reply, TypeOK, HandledOnce, Busy,
         HandlersFit, Behind, Asking
    <2>3. TierFits'
      BY <1>13, <2>0 DEF FillIn, At, Updated, Reply, TypeOK, HandledOnce, Busy,
         TierFits, TierOf, Outcome
    <2> QED
      BY <2>1, <2>2, <2>3
  <1>14. ASSUME NEW h \in Handler, HandleMove(h), Noted
        PROVE  Fits'
    <2>0. \A g \in Handler : g # h => pc[g] = "idle"
      BY <1>14, Alone DEF HandleMove, Move, Reply, Busy
    <2>1. Behind(state, data)'
      BY <1>14, <2>0 DEF HandleMove, Move, Reply, TypeOK, HandlersFit, Behind, Asking
    <2>2. HandlersFit'
      BY <1>14, <2>0 DEF HandleMove, Move, Reply, TypeOK, HandledOnce, Busy,
         HandlersFit, Behind, Asking
    <2>3. TierFits'
      BY <1>14, <2>0 DEF HandleMove, Move, Reply, TypeOK, HandledOnce, Busy, TierFits,
         TierOf, Outcome
    <2> QED
      BY <2>1, <2>2, <2>3
  <1>15. ASSUME NEW h \in Handler, HandleService(h), Noted
        PROVE  Fits'
    <2>0. \A g \in Handler : g # h => pc[g] = "idle"
      BY <1>15, Alone DEF HandleService, At, Reply, Busy
    <2>1. Behind(state, data)'
      BY <1>15, <2>0 DEF HandleService, At, Reply, TypeOK, HandlersFit, Behind, Asking
    <2>2. HandlersFit'
      BY <1>15, <2>0 DEF HandleService, At, Reply, TypeOK, HandledOnce, Busy,
         HandlersFit, Behind, Asking
    <2>3. TierFits'
      BY <1>15, <2>0 DEF HandleService, At, Reply, TypeOK, HandledOnce, Busy, TierFits,
         TierOf, Outcome
    <2> QED
      BY <2>1, <2>2, <2>3
  <1>16. ASSUME NEW h \in Handler, HandleAadhaarConsent(h), Noted
        PROVE  Fits'
    <2>0. \A g \in Handler : g # h => pc[g] = "idle"
      BY <1>16, Alone DEF HandleAadhaarConsent, At, Reply, Busy
    <2>1. Behind(state, data)'
      BY <1>16, <2>0 DEF HandleAadhaarConsent, At, Reply, TypeOK, HandlersFit, Behind,
         Asking
    <2>2. HandlersFit'
      BY <1>16, <2>0 DEF HandleAadhaarConsent, At, Reply, TypeOK, HandledOnce, Busy,
         HandlersFit, Behind, Asking
    <2>3. TierFits'
      BY <1>16, <2>0 DEF HandleAadhaarConsent, At, Reply, TypeOK, HandledOnce, Busy,
         TierFits, TierOf, Outcome
    <2> QED
      BY <2>1, <2>2, <2>3
  <1>17. ASSUME NEW h \in Handler, HandleVerification(h), Noted
        PROVE  Fits'
    <2>0. \A g \in Handler : g # h => pc[g] = "idle"
      BY <1>17, Alone DEF HandleVerification, At, Conclude, Reply, Busy
    <2>1. Behind(state, data)'
      BY <1>17, <2>0 DEF HandleVerification, At, Conclude, Reply, TypeOK, HandlersFit,
         Behind, Asking
    <2>2. HandlersFit'
      BY <1>17, <2>0 DEF HandleVerification, At, Conclude, Reply, TypeOK, HandledOnce,
         Busy, HandlersFit, Behind, Asking
    <2>3. TierFits'
      BY <1>17, <2>0 DEF HandleVerification, At, Conclude, Reply, TypeOK, HandledOnce,
         Busy, TierFits, TierOf, Outcome
    <2> QED
      BY <2>1, <2>2, <2>3
  <1>18. ASSUME NEW h \in Handler, HandleNotVerified(h), Noted
        PROVE  Fits'
    <2>0. \A g \in Handler : g # h => pc[g] = "idle"
      BY <1>18, Alone DEF HandleNotVerified, At, Reply, Busy
    <2>1. Behind(state, data)'
      BY <1>18, <2>0 DEF HandleNotVerified, At, Reply, TypeOK, HandlersFit, Behind,
         Asking
    <2>2. HandlersFit'
      BY <1>18, <2>0 DEF HandleNotVerified, At, Reply, TypeOK, HandledOnce, Busy,
         HandlersFit, Behind, Asking
    <2>3. TierFits'
      BY <1>18, <2>0 DEF HandleNotVerified, At, Reply, TypeOK, HandledOnce, Busy,
         TierFits, TierOf, Outcome
    <2> QED
      BY <2>1, <2>2, <2>3
  <1>19. ASSUME NEW h \in Handler, HandleHalfVerified(h), Noted
        PROVE  Fits'
    <2>0. \A g \in Handler : g # h => pc[g] = "idle"
      BY <1>19, Alone DEF HandleHalfVerified, ConcludePartly, At, Leave, Busy
    <2>1. Behind(state, data)'
      BY <1>19, <2>0 DEF HandleHalfVerified, ConcludePartly, At, Leave, TypeOK,
         HandlersFit, Behind, Asking
    <2>2. HandlersFit'
      BY <1>19, <2>0 DEF HandleHalfVerified, ConcludePartly, At, Leave, TypeOK,
         HandledOnce, Busy, HandlersFit, Behind, Asking
    <2>3. TierFits'
      BY <1>19, <2>0 DEF HandleHalfVerified, ConcludePartly, At, Leave, TypeOK,
         HandledOnce, Busy, TierFits, TierOf, Outcome
    <2> QED
      BY <2>1, <2>2, <2>3
  <1>20. ASSUME NEW h \in Handler, SetState(h), Noted
        PROVE  Fits'
    <2>0. \A g \in Handler : g # h => pc[g] = "idle"
      BY <1>20, Alone DEF SetState, Busy
    <2>1. Behind(state, data)'
      BY <1>20, <2>0 DEF SetState, TypeOK, HandlersFit, Behind, Asking
    <2>2. HandlersFit'
      BY <1>20, <2>0 DEF SetState, TypeOK, HandledOnce, Busy, HandlersFit, Behind,
         Asking
    <2>3. TierFits'
      BY <1>20, <2>0 DEF SetState, TypeOK, HandledOnce, Busy, TierFits, TierOf, Outcome
    <2> QED
      BY <2>1, <2>2, <2>3
  <1>21. ASSUME NEW h \in Handler, SendMessage(h), Noted
        PROVE  Fits'
    <2>0. \A g \in Handler : g # h => pc[g] = "idle"
      BY <1>21, Alone DEF SendMessage, Acknowledge, Leave, Busy
    <2>1. Behind(state, data)'
      BY <1>21, <2>0 DEF SendMessage, Acknowledge, Leave, TypeOK, HandlersFit, Behind,
         Asking
    <2>2. HandlersFit'
      BY <1>21, <2>0 DEF SendMessage, Acknowledge, Leave, TypeOK, HandledOnce, Busy,
         HandlersFit, Behind, Asking
    <2>3. TierFits'
      BY <1>21, <2>0 DEF SendMessage, Acknowledge, Leave, TypeOK, HandledOnce, Busy,
         TierFits, TierOf, Outcome
    <2> QED
      BY <2>1, <2>2, <2>3
  <1>22. ASSUME NEW h \in Handler, Refuse(h), Noted
        PROVE  Fits'
    <2>0. \A g \in Handler : g # h => pc[g] = "idle"
      BY <1>22, Alone DEF Refuse, At, Leave, Busy
    <2>1. Behind(state, data)'
      BY <1>22, <2>0 DEF Refuse, At, Leave, TypeOK, HandlersFit, Behind, Asking
    <2>2. HandlersFit'
      BY <1>22, <2>0 DEF Refuse, At, Leave, TypeOK, HandledOnce, Busy, HandlersFit,
         Behind, Asking
    <2>3. TierFits'
      BY <1>22, <2>0 DEF Refuse, At, Leave, TypeOK, HandledOnce, Busy, TierFits, TierOf,
         Outcome
    <2> QED
      BY <2>1, <2>2, <2>3
  <1>23. ASSUME NEW h \in Handler, HandlerFails(h), Noted
        PROVE  Fits'
    <2>0. \A g \in Handler : g # h => pc[g] = "idle"
      BY <1>23, Alone DEF HandlerFails, Leave, Busy
    <2>1. Behind(state, data)'
      BY <1>23, <2>0 DEF HandlerFails, Leave, TypeOK, HandlersFit, Behind, Asking
    <2>2. HandlersFit'
      BY <1>23, <2>0 DEF HandlerFails, Leave, TypeOK, HandledOnce, Busy, HandlersFit,
         Behind, Asking
    <2>3. TierFits'
      BY <1>23, <2>0 DEF HandlerFails, Leave, TypeOK, HandledOnce, Busy, TierFits,
         TierOf, Outcome
    <2> QED
      BY <2>1, <2>2, <2>3
  <1>24. ASSUME StateExpires, Noted
        PROVE  Fits'
    <2>1. Behind(state, data)'
      BY <1>24 DEF StateExpires, TypeOK, HandlersFit, Behind, Asking
    <2>2. HandlersFit'
      BY <1>24 DEF StateExpires, TypeOK, HandledOnce, Busy, HandlersFit, Behind, Asking
    <2>3. TierFits'
      BY <1>24 DEF StateExpires, TypeOK, HandledOnce, Busy, TierFits, TierOf, Outcome
    <2> QED
      BY <2>1, <2>2, <2>3
  <1>25. ASSUME UNCHANGED <<vars, refused>> PROVE Fits'
    BY <1>25 DEF vars, TypeOK, Behind, HandlersFit, TierFits
  <1>26. ASSUME MCNext PROVE Fits' /\ Noted
    <2>1. Noted
      BY <1>26 DEF MCNext
    <2>2. ASSUME NEW h \in Handler, Progress(h) PROVE Fits'
      BY <2>1, <2>2, <1>4, <1>5, <1>6, <1>7, <1>8, <1>9, <1>10, <1>11, <1>12, <1>13, <1>14, <1>15,
         <1>16, <1>17, <1>18, <1>20, <1>21, <1>22
         DEF Progress, HandleProfile
    <2> QED
      BY <1>26, <2>1, <2>2, <1>1, <1>2, <1>3, <1>19, <1>23, <1>24 DEF MCNext, Next
  <1>27. refused' \in BOOLEAN
    BY <1>26 DEF vars
  <1> QED
    BY <1>0, <1>25, <1>26, <1>27

\* ConversationBehindProfile for any number of concurrent deliveries, faults and
\* refusals, as long as the worker writes one message at a time and it has an id, or the
\* requests come one at a time: whatever dies between the tables and Redis, an answer is in the users row before the next question is the
\* state.
THEOREM BehindProfile == MCSpec /\ OneAtATime => []ConversationBehindProfile
  <1>1. IInv => ConversationBehindProfile
    BY DEF IInv, Behind, ConversationBehindProfile
  <1> QED
    BY <1>1, ConversationBegins, ConversationKeeps, PTL DEF MCSpec

\* TierAsToldUnlessRefused, likewise: with nothing failed and no message in progress,
\* the tier in the row is the one the bot last told the worker.
THEOREM TierTold == MCSpec /\ OneAtATime => []TierAsToldUnlessRefused
  <1>1. IInv => TierAsToldUnlessRefused
    BY DEF IInv, HandledOnce, Busy, TierFits, TierAsToldUnlessRefused, TierAsTold
  <1> QED
    BY <1>1, ConversationBegins, ConversationKeeps, PTL DEF MCSpec
===============================================================================
