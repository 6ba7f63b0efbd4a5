-------------------------- MODULE WhatsAppOnboarding --------------------------
(***************************************************************************)
(* The conversation of one worker with the WhatsApp bot: the webhook       *)
(* (internal/handler/whatsapp.go) that receives the provider's deliveries, *)
(* the deduplication of message ids, the conversation state in Redis and   *)
(* the users row (internal/service/whatsapp_bot.go, whatsapp_dedupe.go,    *)
(* conversation_state.go).                                                 *)
(*                                                                         *)
(* A Handler is one request to the webhook: it runs the steps of           *)
(* HandleIncomingMessage, each a call of Redis, PostgreSQL or the provider,*)
(* and other requests run between them.  What the text of a message says   *)
(* is a choice among the replies the state knows.  A call of the identity  *)
(* service is one step on the worker's latest verification:                *)
(* IdentityVerification models what is inside it.                          *)
(***************************************************************************)
EXTENDS Integers

CONSTANTS Message,         \* messages the provider has not forgotten
          Identified,      \* those whose payload has an id
          Handler,         \* concurrent requests to the webhook
          NoMessage,       \* an idle handler
          GatewayRefuses,  \* the Aadhaar gateway may answer "not verified"
          MaxFaults        \* bound: calls that fail or die half-way

ASSUME ConversationAssumption ==
    /\ Identified \subseteq Message
    /\ NoMessage \notin Message
    /\ GatewayRefuses \in BOOLEAN
    /\ MaxFaults \in Nat

VARIABLES delivery,        \* delivery[m]: the provider's view of message m
          seen,            \* message ids stored in Redis (wa_msg:)
          user,            \* the worker has a users row
          profile,         \* the columns of that row the worker has filled in
          verification,    \* status of the latest verification row, or "none"
          tier,            \* users.verification_tier
          told,            \* the outcome the worker was last told of
          state,           \* the conversation state, "none" if the key is missing
          data,            \* what of the profile is in the state's data
          pc,              \* pc[h]: the next step of handler h
          msg,             \* msg[h]: the message it handles
          row,             \* row[h]: the profile it has read
          from,            \* from[h]: the state it has read, then the one it sets
          with,            \* with[h]: the data that goes with it
          tell,            \* tell[h]: the outcome its reply tells
          faults           \* faults so far

webhook == <<delivery, seen>>
tables == <<user, profile, verification, tier>>
conversation == <<state, data>>
local == <<msg, row, from, with, tell>>
vars == <<webhook, tables, told, conversation, pc, local, faults>>

Asking ==                  \* the states in which a reply is waited for
    {"awaiting_name", "awaiting_language", "awaiting_target_role",
     "awaiting_preferred_zone", "awaiting_verification_option",
     "awaiting_aadhaar_number", "awaiting_aadhaar_consent", "awaiting_aadhaar_otp",
     "awaiting_document_upload", "awaiting_skip_confirm", "returning_menu",
     "awaiting_status_otp", "awaiting_job_id"}
State == Asking \cup {"none"}
Field == {"name", "target_role", "preferred_zone"}
Active == {"OTP_Sent", "Document_Uploaded"}
Outcome == {"Verified", "Document_Uploaded", "Skipped"}

TypeOK ==
    /\ delivery \in [Message -> {"unsent", "sent", "acknowledged"}]
    /\ seen \in SUBSET Message
    /\ user \in BOOLEAN
    /\ profile \in SUBSET Field
    /\ verification \in Active \cup Outcome \cup {"none", "Failed"}
    /\ tier \in {"Low", "Medium", "High"}
    /\ told \in Outcome \cup {"none"}
    /\ state \in State
    /\ data \in SUBSET {"name", "target_role"}
    /\ pc \in [Handler -> {"idle", "user", "create", "state", "handle", "set", "send"}]
    /\ msg \in [Handler -> Message \cup {NoMessage}]
    /\ row \in [Handler -> SUBSET Field]
    /\ from \in [Handler -> State]
    /\ with \in [Handler -> SUBSET {"name", "target_role"}]
    /\ tell \in [Handler -> Outcome \cup {"none"}]
    /\ faults \in 0..MaxFaults

Init ==
    /\ delivery = [m \in Message |-> "unsent"]
    /\ seen = {}
    /\ user = FALSE
    /\ profile = {}
    /\ verification = "none"
    /\ tier = "High"
    /\ told = "none"
    /\ state = "none"
    /\ data = {}
    /\ pc = [h \in Handler |-> "idle"]
    /\ msg = [h \in Handler |-> NoMessage]
    /\ row = [h \in Handler |-> {}]
    /\ from = [h \in Handler |-> "none"]
    /\ with = [h \in Handler |-> {}]
    /\ tell = [h \in Handler |-> "none"]
    /\ faults = 0

-----------------------------------------------------------------------------
(* The provider.                                                           *)

\* The worker writes a message.
WriteMessage(m) ==
    /\ delivery[m] = "unsent"
    /\ delivery' = [delivery EXCEPT ![m] = "sent"]
    /\ UNCHANGED <<seen, tables, told, conversation, pc, local, faults>>

\* The provider delivers m no more: its slot is free for another message.
ForgetMessage(m) ==
    /\ delivery[m] = "acknowledged"
    /\ \A h \in Handler : msg[h] # m
    /\ delivery' = [delivery EXCEPT ![m] = "unsent"]
    /\ seen' = seen \ {m}
    /\ UNCHANGED <<tables, told, conversation, pc, local, faults>>

-----------------------------------------------------------------------------
(* ReceiveWebhook.                                                         *)

Leave(h) ==
    /\ pc' = [pc EXCEPT ![h] = "idle"]
    /\ msg' = [msg EXCEPT ![h] = NoMessage]
    /\ row' = [row EXCEPT ![h] = {}]
    /\ from' = [from EXCEPT ![h] = "none"]
    /\ with' = [with EXCEPT ![h] = {}]
    /\ tell' = [tell EXCEPT ![h] = "none"]

\* Response 200.
Acknowledge(m) == delivery' = [delivery EXCEPT ![m] = "acknowledged"]

\* MarkProcessed: SETNX stores the key of a message that has an id.  One without is
\* new each time it is delivered.
IsNew(m) == m \notin seen

\* Mutant: a duplicate is answered with an error.
DuplicateRefused(m) == UNCHANGED delivery

DuplicateAnswer(m) == Acknowledge(m)

\* Any delivery of m, the first or another one, before the earlier ones are
\* answered or after.  A duplicate is acknowledged at once.
Receive(h, m) ==
    /\ pc[h] = "idle"
    /\ delivery[m] \in {"sent", "acknowledged"}
    /\ IF IsNew(m)
       THEN /\ seen' = seen \cup ({m} \cap Identified)
            /\ pc' = [pc EXCEPT ![h] = "user"]
            /\ msg' = [msg EXCEPT ![h] = m]
            /\ UNCHANGED delivery
       ELSE /\ DuplicateAnswer(m)
            /\ UNCHANGED <<seen, pc, msg>>
    /\ UNCHANGED <<tables, told, conversation, row, from, with, tell, faults>>

-----------------------------------------------------------------------------
(* HandleIncomingMessage.                                                  *)

\* What a handler of a state returns to replyAndSetState: the state and data to
\* store, and the outcome to tell.
Reply(h, s, d, t) ==
    /\ from' = [from EXCEPT ![h] = s]
    /\ with' = [with EXCEPT ![h] = d]
    /\ tell' = [tell EXCEPT ![h] = t]
    /\ pc' = [pc EXCEPT ![h] = "set"]
    /\ UNCHANGED <<webhook, told, conversation, msg, row, faults>>

GetUser(h) ==
    /\ pc[h] = "user"
    /\ row' = [row EXCEPT ![h] = profile]
    /\ pc' = [pc EXCEPT ![h] = IF user THEN "state" ELSE "create"]
    /\ UNCHANGED <<webhook, tables, told, conversation, msg, from, with, tell, faults>>

\* startNewUserFlow.  RegisterReferral and its failure: ReferralCashback.
CreateUser(h) ==
    /\ pc[h] = "create"
    /\ ~user
    /\ user' = TRUE
    /\ Reply(h, "awaiting_name", {}, "none")
    /\ UNCHANGED <<profile, verification, tier>>

\* The word "referral", in any state.
ReferralCommand(h) ==
    /\ pc[h] = "state"
    /\ Reply(h, "returning_menu", {}, "none")
    /\ UNCHANGED tables

GetState(h) ==
    /\ pc[h] = "state"
    /\ from' = [from EXCEPT ![h] = state]
    /\ with' = [with EXCEPT ![h] = data]
    /\ pc' = [pc EXCEPT ![h] = "handle"]
    /\ UNCHANGED <<webhook, tables, told, conversation, msg, row, tell, faults>>

At(h, s) == pc[h] = "handle" /\ from[h] = s

\* No state: showReturningMenu.
ShowReturningMenu(h) ==
    /\ At(h, "none")
    /\ Reply(h, "returning_menu", {}, "none")
    /\ UNCHANGED tables

\* A text the state does not understand: the same question again.
AskAgain(h) ==
    /\ pc[h] = "handle" /\ from[h] \in Asking \ {"awaiting_skip_confirm"}
    /\ Reply(h, from[h], with[h], "none")
    /\ UNCHANGED tables

\* Mutant: the row is written without the fields the data carries.
UpdatedOnlyAnswer(h, fields) == fields

\* UpdateUserProfile writes every column: what h has read and the data fill the
\* ones the worker was not asked for (fallbackName).
Updated(h, fields) ==
    LET kept == IF from[h] = "awaiting_preferred_zone"
                THEN row[h] \ {"target_role"} ELSE row[h]
        carried == IF from[h] = "awaiting_name" THEN {} ELSE
                   IF from[h] = "awaiting_preferred_zone" THEN with[h]
                   ELSE with[h] \cap {"name"}
    IN  kept \cup carried \cup fields

\* handleName, handleLanguage, handleTargetRole, handlePreferredZone
FillIn(h, s, fields, next) ==
    /\ At(h, s)
    /\ profile' = Updated(h, fields)
    /\ Reply(h, next, with[h] \cup (fields \ {"preferred_zone"}), "none")
    /\ UNCHANGED <<user, verification, tier>>

HandleProfile(h) ==
    \/ FillIn(h, "awaiting_name", {"name"}, "awaiting_language")
    \/ FillIn(h, "awaiting_language", {}, "awaiting_target_role")
    \/ FillIn(h, "awaiting_target_role", {"target_role"}, "awaiting_preferred_zone")
    \/ FillIn(h, "awaiting_preferred_zone", {"preferred_zone"},
              "awaiting_verification_option")

\* The replies that only lead to another question.
Move == {<<"awaiting_verification_option", "awaiting_aadhaar_number">>,
         <<"awaiting_verification_option", "awaiting_document_upload">>,
         <<"awaiting_verification_option", "awaiting_skip_confirm">>,
         <<"awaiting_aadhaar_number", "awaiting_aadhaar_consent">>,
         <<"awaiting_skip_confirm", "awaiting_verification_option">>,
         <<"returning_menu", "awaiting_target_role">>,
         <<"returning_menu", "awaiting_job_id">>}

HandleMove(h) ==
    /\ pc[h] = "handle"
    /\ \E move \in Move : /\ from[h] = move[1]
                          /\ Reply(h, move[2], with[h], "none")
    /\ UNCHANGED tables

\* Status OTPs and applications succeed (StatusOTP, JobApplications).
HandleService(h) ==
    /\ \/ At(h, "returning_menu") /\ Reply(h, "awaiting_status_otp", with[h], "none")
       \/ At(h, "awaiting_status_otp") /\ Reply(h, "returning_menu", with[h], "none")
       \/ At(h, "awaiting_job_id") /\ Reply(h, "returning_menu", with[h], "none")
    /\ UNCHANGED tables

-----------------------------------------------------------------------------
(* Verification.                                                           *)

\* StartAadhaarOTP inserts a row unless another one is active.
HandleAadhaarConsent(h) ==
    /\ At(h, "awaiting_aadhaar_consent")
    /\ verification \notin Active
    /\ verification' = "OTP_Sent"
    /\ Reply(h, "awaiting_aadhaar_otp", with[h], "none")
    /\ UNCHANGED <<user, profile, tier>>

TierOf == [Verified |-> "Low", Document_Uploaded |-> "Medium", Skipped |-> "High"]

\* Mutant: the tier is left to a later review.
OutcomeUnrated(h, o) ==
    /\ verification' = o
    /\ Reply(h, "returning_menu", with[h], o)
    /\ UNCHANGED <<user, profile, tier>>

\* The row, then the tier, then the reply that tells it.
Conclude(h, o) ==
    /\ verification' = o
    /\ tier' = TierOf[o]
    /\ Reply(h, "returning_menu", with[h], o)
    /\ UNCHANGED <<user, profile>>

HandleVerification(h) ==
    \/ At(h, "awaiting_aadhaar_otp") /\ verification = "OTP_Sent" /\ Conclude(h, "Verified")
    \/ At(h, "awaiting_document_upload") /\ Conclude(h, "Document_Uploaded")
    \/ At(h, "awaiting_skip_confirm") /\ Conclude(h, "Skipped")

\* The gateway answers "not verified": MarkFailed, and no error for the bot.
HandleNotVerified(h) ==
    /\ GatewayRefuses
    /\ At(h, "awaiting_aadhaar_otp")
    /\ verification = "OTP_Sent"
    /\ verification' = "Failed"
    /\ Reply(h, "returning_menu", with[h], "Verified")
    /\ UNCHANGED <<user, profile, tier>>

ConcludePartly(o) ==
    /\ verification' = o
    /\ tier' \in {tier, TierOf[o]}

\* The row is written, the tier perhaps, and then a call fails: an error, which
\* the bot reports as an invalid OTP, and not at all after an upload or a skip.
HandleHalfVerified(h) ==
    /\ faults < MaxFaults
    /\ faults' = faults + 1
    /\ \/ /\ At(h, "awaiting_aadhaar_otp") /\ verification = "OTP_Sent"
          /\ ConcludePartly("Verified")
          /\ pc' = [pc EXCEPT ![h] = "set"]
          /\ UNCHANGED local
       \/ At(h, "awaiting_document_upload") /\ ConcludePartly("Document_Uploaded") /\ Leave(h)
       \/ At(h, "awaiting_skip_confirm") /\ ConcludePartly("Skipped") /\ Leave(h)
    /\ UNCHANGED <<webhook, user, profile, told, conversation>>

-----------------------------------------------------------------------------
(* replyAndSetState and the end of the request.                            *)

SetState(h) ==
    /\ pc[h] = "set"
    /\ state' = from[h]
    /\ data' = with[h]
    /\ pc' = [pc EXCEPT ![h] = "send"]
    /\ UNCHANGED <<webhook, tables, told, local, faults>>

SendMessage(h) ==
    /\ pc[h] = "send"
    /\ told' = IF tell[h] = "none" THEN told ELSE tell[h]
    /\ Acknowledge(msg[h])
    /\ Leave(h)
    /\ UNCHANGED <<seen, tables, conversation, faults>>

\* An error without any fault: another request has created the user, a
\* verification is active, the OTP rate is used up, the worker has applied.  The
\* response is an error and nothing is sent.
Refuse(h) ==
    /\ \/ pc[h] = "create" /\ user
       \/ At(h, "awaiting_aadhaar_consent") /\ verification \in Active
       \/ At(h, "returning_menu")
       \/ At(h, "awaiting_job_id")
    /\ Leave(h)
    /\ UNCHANGED <<webhook, tables, told, conversation, faults>>

\* A call fails or the process dies: an error response, or none.
HandlerFails(h) ==
    /\ pc[h] # "idle"
    /\ faults < MaxFaults
    /\ faults' = faults + 1
    /\ Leave(h)
    /\ UNCHANGED <<webhook, tables, told, conversation>>

\* The state's 24 hours are over.
StateExpires ==
    /\ state # "none"
    /\ state' = "none"
    /\ data' = {}
    /\ UNCHANGED <<webhook, tables, told, pc, local, faults>>

Progress(h) ==
    \/ GetUser(h) \/ CreateUser(h) \/ ReferralCommand(h) \/ GetState(h)
    \/ ShowReturningMenu(h) \/ AskAgain(h) \/ HandleProfile(h) \/ HandleMove(h)
    \/ HandleService(h) \/ HandleAadhaarConsent(h) \/ HandleVerification(h)
    \/ HandleNotVerified(h) \/ SetState(h) \/ SendMessage(h) \/ Refuse(h)

Next ==
    \/ \E m \in Message : WriteMessage(m) \/ ForgetMessage(m)
    \/ \E m \in Message, h \in Handler : Receive(h, m)
    \/ \E h \in Handler : Progress(h) \/ HandleHalfVerified(h) \/ HandlerFails(h)
    \/ StateExpires

Spec == Init /\ [][Next]_vars

\* Every request is executed, and the provider repeats a delivery that was not
\* acknowledged; Handler bounds the requests at a time, not the server.
Fairness ==
    /\ \A h \in Handler : WF_vars(Progress(h))
    /\ \A m \in Identified :
          SF_vars(delivery[m] = "sent" /\ \E h \in Handler : Receive(h, m))

-----------------------------------------------------------------------------
(* Properties.                                                             *)

\* Whatever dies between the database and Redis, the conversation is never ahead
\* of the profile: each answer is in the users row before the next question is
\* the state.  However often and however concurrently a message is delivered, one
\* handler gets it (SETNX, whatsapp_dedupe.go:37-43), so this is true of a worker
\* who writes one message at a time, if it has an id; two at a time, or two
\* deliveries of one without an id (whatsapp.go:57), can leave an older row.
ConversationBehindProfile ==
    /\ state \in Asking => user
    /\ state = "awaiting_language" => "name" \in profile
    /\ state = "awaiting_preferred_zone" => "target_role" \in profile
    /\ state \in {"awaiting_verification_option", "awaiting_aadhaar_number",
                  "awaiting_aadhaar_consent", "awaiting_aadhaar_otp",
                  "awaiting_document_upload", "awaiting_skip_confirm"} =>
          {"target_role", "preferred_zone"} \subseteq profile

\* whatsapp_bot.go:446: "Aadhaar OTP verified. Your risk tier is now Low."  With
\* nothing failed and no message in progress, the worker's tier is the one the
\* bot last told.  Not so when the gateway answers "not verified": that is no
\* error, and handleAadhaarOTP looks at the error only (whatsapp_bot.go:282).
TierAsTold ==
    faults = 0 /\ (\A h \in Handler : pc[h] = "idle") /\ told # "none" =>
        tier = TierOf[told]

\* A message that cannot be handled does not come back for ever: every message with
\* an id is acknowledged, at the latest as a duplicate.
EveryMessageIsAcknowledged ==
    \A m \in Identified : delivery[m] = "sent" ~> delivery[m] = "acknowledged"
===============================================================================
