------------------------- MODULE IdentityVerification -------------------------
(***************************************************************************)
(* Identity verification of one worker (internal/service/                  *)
(* identity_verification.go and internal/repository/                       *)
(* identity_verification_postgres.go): the verification rows of the worker *)
(* and the risk tier in the users row.  Rows of different workers share    *)
(* nothing.                                                                *)
(*                                                                         *)
(* A call reads the latest row, then writes by its id, then writes the     *)
(* tier, each in a statement of its own.  The constraints of the table     *)
(* (000001_init_schema.up.sql:95-137) are guards of the writes: a write    *)
(* that breaks one is an error and changes nothing.                        *)
(***************************************************************************)
EXTENDS Integers

CONSTANTS MaxRows,       \* bound: rows inserted in a behaviour
          Caller,        \* concurrent calls, from the API or the bot
          NoRow,         \* no row
          MaxFaults      \* bound: calls that fail or die half-way

Row == 1..MaxRows        \* rows in the order of created_at

VARIABLES method,        \* method[i]: how row i verifies the worker
          status,        \* status[i]: the status of row i, "Absent" before INSERT
          tier,          \* users.verification_tier
          pc,            \* pc[c]: where call c is
          target,        \* target[c]: the row c has read and will write
          result,        \* result[c]: the tier c writes after its row
          faults         \* faults so far

rows == <<method, status>>
calls == <<pc, target, result>>
vars == <<rows, tier, calls, faults>>

Method == {"Aadhaar_OTP", "Document_Upload", "Skipped"}
Active == {"OTP_Sent", "Document_Uploaded"}    \* no code writes "Pending"
Outcome == {"Verified", "Document_Uploaded", "Skipped"}

TypeOK ==
    /\ method \in [Row -> Method \cup {"none"}]
    /\ status \in [Row -> {"Absent", "Failed"} \cup Active \cup Outcome]
    /\ tier \in {"Low", "Medium", "High"}
    /\ pc \in [Caller -> {"idle", "verify", "upload", "skip", "tier", "onboard"}]
    /\ target \in [Caller -> Row \cup {NoRow}]
    /\ result \in [Caller -> {"Low", "Medium", "High"}]
    /\ faults \in 0..MaxFaults

Init ==
    /\ method = [i \in Row |-> "none"]
    /\ status = [i \in Row |-> "Absent"]
    /\ tier = "High"
    /\ pc = [c \in Caller |-> "idle"]
    /\ target = [c \in Caller |-> NoRow]
    /\ result = [c \in Caller |-> "High"]
    /\ faults = 0

-----------------------------------------------------------------------------
(* The table.                                                              *)

Inserted == {i \in Row : status[i] # "Absent"}

\* Mutant: the oldest row.
OldestRow(S) == IF S = {} THEN NoRow ELSE CHOOSE i \in S : \A j \in S : i <= j

\* ORDER BY created_at DESC LIMIT 1
LatestOf(S) == IF S = {} THEN NoRow ELSE CHOOSE i \in S : \A j \in S : j <= i

Latest == LatestOf(Inserted)

\* Mutant: a schema without worker_identity_skipped_check.
SkippedCheckDropped(m, s) == TRUE

\* worker_identity_skipped_check
SkippedCheck(m, s) == m = "Skipped" => s = "Skipped"

\* idx_worker_identity_one_active_per_user, for row i with status s
OneActivePerUser(i, s) ==
    s \in Active => \A j \in Row \ {i} : status[j] \notin Active

Put(i, m, s) ==
    /\ SkippedCheck(m, s)
    /\ OneActivePerUser(i, s)
    /\ method' = [method EXCEPT ![i] = m]
    /\ status' = [status EXCEPT ![i] = s]

Insert(m, s) ==
    \E i \in Row : /\ status[i] = "Absent"
                   /\ \A j \in Row : j < i => status[j] # "Absent"
                   /\ Put(i, m, s)

\* What a call reads before it writes: the row it will write over, NoRow when it
\* will insert (isActiveVerificationStatus).
TargetOf(i) == IF i # NoRow /\ status[i] \in Active THEN i ELSE NoRow

-----------------------------------------------------------------------------
(* The calls.                                                              *)

\* Consent and gateway answer given, StartAadhaarOTP is one INSERT.  An error of
\* the unique index changes nothing.
StartAadhaarOTP(c) ==
    /\ pc[c] = "idle"
    /\ Insert("Aadhaar_OTP", "OTP_Sent")
    /\ UNCHANGED <<tier, calls, faults>>

Read(c, i, at) ==
    /\ pc' = [pc EXCEPT ![c] = at]
    /\ target' = [target EXCEPT ![c] = i]
    /\ UNCHANGED <<rows, tier, result, faults>>

VerifyAadhaarOTP(c) ==
    /\ pc[c] = "idle"
    /\ Latest # NoRow
    /\ method[Latest] = "Aadhaar_OTP" /\ status[Latest] = "OTP_Sent"
    /\ Read(c, Latest, "verify")

UploadDocument(c) ==
    /\ pc[c] = "idle"
    /\ Read(c, TargetOf(Latest), "upload")

Skip(c) ==
    /\ pc[c] = "idle"
    /\ Read(c, TargetOf(Latest), "skip")

\* The row is written and not used again.
Written(c, t) ==
    /\ result' = [result EXCEPT ![c] = t]
    /\ target' = [target EXCEPT ![c] = NoRow]
    /\ pc' = [pc EXCEPT ![c] = "tier"]
    /\ UNCHANGED <<tier, faults>>

\* The gateway says yes: the row is written by its id, whatever it is now.
MarkVerified(c) ==
    /\ pc[c] = "verify"
    /\ Put(target[c], method[target[c]], "Verified")
    /\ Written(c, "Low")

\* The gateway says no: the call returns the failed row and no error.
MarkFailed(c) ==
    /\ pc[c] = "verify"
    /\ Put(target[c], method[target[c]], "Failed")
    /\ pc' = [pc EXCEPT ![c] = "idle"]
    /\ target' = [target EXCEPT ![c] = NoRow]
    /\ UNCHANGED <<tier, result, faults>>

MarkDocumentUploaded(c) ==
    /\ pc[c] = "upload"
    /\ IF target[c] = NoRow
       THEN Insert("Document_Upload", "Document_Uploaded")
       ELSE Put(target[c], "Document_Upload", "Document_Uploaded")
    /\ Written(c, "Medium")

MarkSkipped(c) ==
    /\ pc[c] = "skip"
    /\ IF target[c] = NoRow
       THEN Insert("Skipped", "Skipped")
       ELSE Put(target[c], "Skipped", "Skipped")
    /\ Written(c, "High")

\* Mutant: a worker rated Low keeps that tier.
UpdateTierUnlessLow(c) ==
    /\ pc[c] = "tier"
    /\ tier' = IF tier = "Low" THEN tier ELSE result[c]
    /\ result' = [result EXCEPT ![c] = "High"]
    /\ pc' = [pc EXCEPT ![c] = "onboard"]
    /\ UNCHANGED <<rows, target, faults>>

\* Mutant: the call ends here, and the referral service never hears of the outcome.
UpdateTierOnly(c) ==
    /\ pc[c] = "tier"
    /\ tier' = result[c]
    /\ result' = [result EXCEPT ![c] = "High"]
    /\ pc' = [pc EXCEPT ![c] = "idle"]
    /\ UNCHANGED <<rows, target, faults>>

UpdateUserVerificationTier(c) ==
    /\ pc[c] = "tier"
    /\ tier' = result[c]
    /\ result' = [result EXCEPT ![c] = "High"]
    /\ pc' = [pc EXCEPT ![c] = "onboard"]
    /\ UNCHANGED <<rows, target, faults>>

Leave(c) ==
    /\ pc' = [pc EXCEPT ![c] = "idle"]
    /\ target' = [target EXCEPT ![c] = NoRow]
    /\ result' = [result EXCEPT ![c] = "High"]

\* CompleteOnboarding of the referral service has answered (WorkerVerification).
CompleteOnboarding(c) ==
    /\ pc[c] = "onboard"
    /\ Leave(c)
    /\ UNCHANGED <<rows, tier, faults>>

\* The gateway or a constraint refuses the write: an error, nothing changed.
WriteRefused(c) ==
    /\ pc[c] \in {"verify", "upload", "skip"}
    /\ Leave(c)
    /\ UNCHANGED <<rows, tier, faults>>

\* A later statement fails, or the process dies: the row stays written.
CallFails(c) ==
    /\ pc[c] \in {"tier", "onboard"}
    /\ faults < MaxFaults
    /\ faults' = faults + 1
    /\ Leave(c)
    /\ UNCHANGED <<rows, tier>>

Next ==
    \E c \in Caller :
        \/ StartAadhaarOTP(c) \/ VerifyAadhaarOTP(c) \/ UploadDocument(c) \/ Skip(c)
        \/ MarkVerified(c) \/ MarkFailed(c) \/ MarkDocumentUploaded(c) \/ MarkSkipped(c)
        \/ UpdateUserVerificationTier(c) \/ CompleteOnboarding(c)
        \/ WriteRefused(c) \/ CallFails(c)

Spec == Init /\ [][Next]_vars

-----------------------------------------------------------------------------
(* Properties.                                                             *)

\* A skipped verification is never recorded as verified or failed by a call that
\* read the row while its OTP was pending: the table's check refuses the write.
SkippedIsFinalForOTP ==
    [][\A i \in Row :
          status[i] = "Skipped" => status'[i] \in {"Skipped", "Document_Uploaded"}]_vars

\* If a verification is under way it is the latest: the row the calls read is the
\* row the unique index protects.  True of calls that come one after the other;
\* two at a time can leave an active row behind a later skipped one, and then
\* every later upload and start runs into the index.
ActiveIsLatest ==
    \A i \in Row : status[i] \in Active => i = Latest

OutcomeTier == [Verified |-> "Low", Document_Uploaded |-> "Medium", Skipped |-> "High"]
LastOutcome == LatestOf({i \in Row : status[i] \in Outcome})

\* README.md:216-220: "Verification outcomes map to worker risk tiers".  With no
\* call in progress the worker's tier is the one of the last outcome.  True of
\* calls that come one after the other and do not fail after their row is
\* written; two at a time can write their rows in one order and the tier in the
\* other.
TierMatchesOutcome ==
    (\A c \in Caller : pc[c] = "idle") /\ LastOutcome # NoRow =>
        tier = OutcomeTier[status[LastOutcome]]
===============================================================================
