----------------------------- MODULE Configuration -----------------------------
(***************************************************************************)
(* What the environment of a process may say (internal/config/config.go)   *)
(* and which of it the builders of cmd/api/main.go can use.  A value is    *)
(* here only whether it is there; `base` stands for all the values whose   *)
(* check has no other consequence than its own error.                      *)
(***************************************************************************)

Environment == {"local", "development", "staging", "production"}

Config == [env : Environment,
           base : BOOLEAN,      \* DATABASE_URL, REDIS_ADDR, JWT_SECRET, the integers ...
           strong : BOOLEAN,    \* what only staging and production ask for
           meta : BOOLEAN,      \* WHATSAPP_PROVIDER=meta, else mock
           token : BOOLEAN,     \* WHATSAPP_ACCESS_TOKEN and _PHONE_NUMBER_ID
           remote : BOOLEAN,    \* OBJECT_STORAGE_PROVIDER=linode or s3, else local
           bucket : BOOLEAN,    \* OBJECT_STORAGE_BUCKET
           keys : BOOLEAN,      \* region, access key and secret of the store
           upload : BOOLEAN]    \* DOCUMENT_UPLOAD_ENABLED

\* IsDevelopment; the others are checked more strictly.
Lenient(c) == c.env \in {"local", "development"}

\* Mutant: the keys of the object store are not asked for.
StoreCheckedForBucket(c) == c.upload => c.bucket

StoreChecked(c) == c.upload => c.bucket /\ (c.remote => c.keys)

\* Load and Validate
Accepted(c) ==
    /\ c.base
    /\ Lenient(c) \/ (c.strong /\ (c.meta => c.token) /\ StoreChecked(c))

\* NewMetaWhatsAppSender, NewLinodeObjectStore
SenderBuilds(c) == c.meta => c.token
StoreBuilds(c) == c.remote => c.bucket /\ c.keys

\* buildWhatsAppSender, buildObjectStore
Builds(c) == SenderBuilds(c) /\ StoreBuilds(c)
===============================================================================
