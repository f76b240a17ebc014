----------------------------- MODULE Credentials -----------------------------
(***************************************************************************)
(* The provider's credential in the person's configuration folder, and the *)
(* processes that sign in, sign out and use it at the same time            *)
(* (runtime/credential_store, auth.rs, auth/protocol.rs,                   *)
(* oauth_credential.rs).                                                   *)
(*                                                                         *)
(* The provider (external) may retire a refresh token when it answers with *)
(* the next one, so a token presented twice, or an answer that is not      *)
(* kept, signs the person out.                                             *)
(***************************************************************************)
EXTENDS Naturals, FiniteSets

CONSTANTS
  Procs,
  Nobody,
  Window,       \* REFRESH_WINDOW_MILLISECONDS
  Lifetimes,    \* what expires_in may be
  MaxExpiry,    \* MAX_OAUTH_EXPIRY_SECONDS
  MaxTime,
  MaxTokens,    \* how many tokens the provider issues
  Mishaps       \* how many crashes, lost answers and failed writes

VARIABLES
  disk,      \* credentials.json as processes see it
  durable,   \* and as a power loss leaves it
  lock,      \* credentials.lock
  stages,    \* the staged files, by the process id in their name
  proc,
  clock,
  tokens,    \* the provider: how many it issued, and which refresh tokens it accepts
  promised,  \* the document the last call reported stored, and those published since
  mishaps

vars == <<disk, durable, lock, stages, proc, clock, tokens, promised, mishaps>>

None == [refresh |-> 0, expires |-> 0, account |-> Nobody]
Accounts == {"one", "two"}
Idle == [at |-> "idle", kind |-> "none", now |-> 0, held |-> None, new |-> None, answer |-> "none"]

Go(p, at) == proc' = [proc EXCEPT ![p].at = at]
ReturnWith(p, answer, record) == proc' = [proc EXCEPT ![p] = [Idle EXCEPT !.answer = answer, !.new = record, !.now = proc[p].now]]
Return(p, answer) == ReturnWith(p, answer, None)

\* needs_refresh.
needs_refresh(record, now) == record.expires <= now + Window

\* The id token's claims: malformed, or an account (account_routing_from_id_token, jwt_payload, base64url_decode).
IdTokens == {"malformed"} \cup Accounts

\* expiration_from_duration and bounded_positive_seconds, and the expiry in an access token.
Expiration(now, lifetime) == [ok |-> lifetime > 0 /\ lifetime <= MaxExpiry, at |-> now + lifetime]

\* The answers to a refresh (RefreshTokenSource): each field may be missing, and
\* the expiry may come in expires_in or in the access token.
Replies == [access : BOOLEAN, lifetime : Lifetimes, rotates : BOOLEAN, id : {"absent"} \cup IdTokens]

\* Mutant: an id token of another account is taken over.
parse_refresh_token_body_any(prior, reply, token, now) ==
  LET expires == Expiration(now, reply.lifetime) IN
  [ok |-> reply.access /\ expires.ok /\ reply.id # "malformed",
   record |-> [refresh |-> IF reply.rotates THEN token ELSE prior.refresh, expires |-> expires.at,
               account |-> IF reply.id = "absent" THEN prior.account ELSE reply.id]]

\* parse_refresh_token_body: the prior record with what the answer replaces, for the same account.
parse_refresh_token_body(prior, reply, token, now) ==
  LET expires == Expiration(now, reply.lifetime) IN
  [ok |-> reply.access /\ expires.ok /\ reply.id \in {"absent", prior.account},
   record |-> [prior EXCEPT !.refresh = IF reply.rotates THEN token ELSE @, !.expires = expires.at]]

\* A login has its authorization (Login): the tokens it was given, parsed with every field required.
parse_token_body(token, now, lifetime, account) ==
  [ok |-> Expiration(now, lifetime).ok, record |-> [refresh |-> token, expires |-> now + lifetime, account |-> account]]

Issued == [tokens EXCEPT !.issued = @ + 1, !.live = @ \cup {tokens.issued + 1}]

Login(p) ==
  /\ proc[p].at = "idle" /\ tokens.issued < MaxTokens
  /\ \E lifetime \in Lifetimes :
       LET parsed == parse_token_body(tokens.issued + 1, clock, lifetime, "two") IN
       proc' = [proc EXCEPT ![p] = [Idle EXCEPT !.at = IF parsed.ok THEN "open" ELSE "idle", !.kind = "login",
                                                !.new = IF parsed.ok THEN parsed.record ELSE None,
                                                !.answer = IF parsed.ok THEN "none" ELSE "failed", !.now = clock]]
  /\ tokens' = Issued
  /\ UNCHANGED <<disk, durable, lock, stages, clock, promised, mishaps>>

Logout(p) ==
  /\ proc[p].at = "idle"
  /\ proc' = [proc EXCEPT ![p] = [Idle EXCEPT !.at = "open", !.kind = "logout", !.now = clock]]
  /\ UNCHANGED <<disk, durable, lock, stages, clock, tokens, promised, mishaps>>

\* resolve_with_clock before the lock: a credential that is good for longer is returned at once.
Resolve(p) ==
  /\ proc[p].at = "idle"
  /\ LET call == [Idle EXCEPT !.kind = "resolve", !.now = clock] IN
     proc' = [proc EXCEPT ![p] =
       IF disk = None THEN [call EXCEPT !.answer = "authentication_required"]
       ELSE IF ~needs_refresh(disk, clock) THEN [call EXCEPT !.answer = "resolved", !.new = disk]
       ELSE [call EXCEPT !.at = "open", !.held = disk]]
  /\ UNCHANGED <<disk, durable, lock, stages, clock, tokens, promised, mishaps>>

\* open_protected_parent: the private folder, made and synced when it is missing, or refused.
OpenParent(p) ==
  /\ proc[p].at = "open"
  /\ \/ Go(p, "lock") /\ UNCHANGED mishaps
     \/ mishaps > 0 /\ mishaps' = mishaps - 1 /\ Return(p, "failed")
  /\ UNCHANGED <<disk, durable, lock, stages, clock, tokens, promised>>

\* ProtectedStateLock::acquire: tried again until the deadline.
Locked(p) == lock = Nobody /\ lock' = p
Busy == lock # Nobody

\* StoreLock::acquire_anchored: the lock, or busy once the deadline is past.
Acquire(p) ==
  /\ proc[p].at = "lock"
  /\ \/ Locked(p) /\ Go(p, "recover")
     \/ Busy /\ Return(p, "busy") /\ UNCHANGED lock
  /\ UNCHANGED <<disk, durable, stages, clock, tokens, promised, mishaps>>

\* recover_abandoned_stages_anchored: every staged file of this store, whoever made it.
Recover(p) ==
  /\ proc[p].at = "recover"
  /\ stages' = {}
  /\ Go(p, "read")
  /\ UNCHANGED <<disk, durable, lock, clock, tokens, promised, mishaps>>

\* Mutant: the credential read before the lock was taken is the one that is refreshed.
Read_stale(p) ==
  /\ proc[p].at = "read"
  /\ proc' = [proc EXCEPT ![p].at = IF proc[p].kind = "resolve" THEN "refresh" ELSE "stage",
                          ![p].held = IF proc[p].kind = "resolve" THEN @ ELSE disk]
  /\ durable' = disk
  /\ UNCHANGED <<disk, lock, stages, clock, tokens, promised, mishaps>>

\* read_anchored_and_finalize: what is read is synced before it is used. A
\* login or a logout goes on to put its document there; a credential that
\* another process refreshed meanwhile is returned, one that was removed is missed.
Read(p) ==
  /\ proc[p].at = "read"
  /\ IF proc[p].kind = "resolve" /\ (disk = None \/ ~needs_refresh(disk, proc[p].now))
     THEN /\ IF disk = None THEN Return(p, "authentication_required") ELSE ReturnWith(p, "resolved", disk)
          /\ promised' = [document |-> disk, since |-> {}]
          /\ lock' = Nobody
     ELSE /\ proc' = [proc EXCEPT ![p].at = IF proc[p].kind = "resolve" THEN "refresh" ELSE "stage", ![p].held = disk]
          /\ UNCHANGED <<promised, lock>>
  /\ durable' = disk
  /\ UNCHANGED <<disk, stages, clock, tokens, mishaps>>

\* The provider answers a refresh: with the next token it retires this one, and
\* it knows no other. It may refuse, or its answer may be lost.
Answers(p, reply) ==
  LET token == proc[p].held.refresh IN
  /\ token \in tokens.live
  /\ reply.rotates => tokens.issued < MaxTokens
  /\ tokens' = IF reply.rotates THEN [issued |-> tokens.issued + 1, live |-> (tokens.live \ {token}) \cup {tokens.issued + 1}]
               ELSE tokens

\* refresh_credential under the lock; a credential that cannot be taken over ends the call.
Refresh(p) ==
  /\ proc[p].at = "refresh"
  /\ \/ \E reply \in Replies :
          LET parsed == parse_refresh_token_body(proc[p].held, reply, tokens.issued + 1, proc[p].now) IN
          /\ Answers(p, reply)
          /\ IF parsed.ok
             THEN /\ proc' = [proc EXCEPT ![p].at = "stage", ![p].new = parsed.record]
                  /\ UNCHANGED <<lock, mishaps>>
             ELSE /\ mishaps > 0 /\ mishaps' = mishaps - 1
                  /\ Return(p, "failed") /\ lock' = Nobody
     \/ /\ mishaps > 0 /\ mishaps' = mishaps - 1
        /\ Return(p, "failed") /\ lock' = Nobody
        /\ \/ UNCHANGED tokens
           \/ \E reply \in Replies : Answers(p, reply)
     \/ /\ proc[p].held.refresh \notin tokens.live
        /\ Return(p, "refused") /\ lock' = Nobody
        /\ UNCHANGED <<tokens, mishaps>>
  /\ UNCHANGED <<disk, durable, stages, clock, promised>>

Document(p) == IF proc[p].kind = "logout" THEN None ELSE proc[p].new

\* private_create_new_anchored_file, written and synced: a name that is taken
\* is an error, and whatever fails removes the name.
Stage(p) ==
  /\ proc[p].at = "stage"
  /\ \/ p \notin stages /\ stages' = stages \cup {p} /\ Go(p, "rename") /\ UNCHANGED <<lock, mishaps>>
     \/ /\ p \in stages \/ mishaps > 0
        /\ mishaps' = IF p \in stages THEN mishaps ELSE mishaps - 1
        /\ stages' = stages \ {p} /\ Return(p, "failed") /\ lock' = Nobody
  /\ UNCHANGED <<disk, durable, clock, tokens, promised>>

Rename(p) ==
  /\ proc[p].at = "rename"
  /\ IF p \in stages
     THEN /\ disk' = Document(p) /\ stages' = stages \ {p} /\ Go(p, "finalize")
          /\ promised' = [promised EXCEPT !.since = @ \cup {Document(p)}]
          /\ UNCHANGED lock
     ELSE Return(p, "failed") /\ lock' = Nobody /\ UNCHANGED <<disk, stages, promised>>
  /\ UNCHANGED <<durable, clock, tokens, mishaps>>

Answered(p) ==
  CASE proc[p].kind = "login" -> "stored"
    [] proc[p].kind = "logout" -> IF proc[p].held = None THEN "nothing" ELSE "removed"
    [] proc[p].kind = "resolve" -> "resolved"

\* Mutant: the directory is not synced after the rename.
Finalize_unsynced(p) ==
  /\ proc[p].at = "finalize"
  /\ ReturnWith(p, Answered(p), Document(p))
  /\ promised' = [document |-> Document(p), since |-> {}]
  /\ lock' = Nobody
  /\ UNCHANGED <<disk, durable, stages, clock, tokens, mishaps>>

\* The published file is verified and its directory synced; a failure there is
\* a PublishedCredentialFinalizationFailure.
Finalize(p) ==
  /\ proc[p].at = "finalize"
  /\ \/ /\ durable' = disk /\ promised' = [document |-> Document(p), since |-> {}]
        /\ ReturnWith(p, Answered(p), Document(p))
        /\ UNCHANGED mishaps
     \/ /\ mishaps > 0 /\ mishaps' = mishaps - 1
        /\ Return(p, "published") /\ UNCHANGED <<durable, promised>>
  /\ lock' = Nobody
  /\ UNCHANGED <<disk, stages, clock, tokens>>

\* A process ends at any point: the lock goes with it, its staged file stays.
Crash(p) ==
  /\ proc[p].at # "idle" /\ mishaps > 0
  /\ mishaps' = mishaps - 1
  /\ proc' = [proc EXCEPT ![p] = Idle]
  /\ lock' = IF lock = p THEN Nobody ELSE lock
  /\ UNCHANGED <<disk, durable, stages, clock, tokens, promised>>

\* Power is lost: the folder is as it was last synced, or as it was about to be.
PowerLoss ==
  /\ mishaps > 0 /\ mishaps' = mishaps - 1
  /\ disk' \in {disk, durable} /\ durable' = disk'
  /\ stages' \in {{}, stages}
  /\ lock' = Nobody /\ proc' = [p \in Procs |-> Idle]
  /\ UNCHANGED <<clock, tokens, promised>>

Tick == clock < MaxTime /\ clock' = clock + 1 /\ UNCHANGED <<disk, durable, lock, stages, proc, tokens, promised, mishaps>>

Init ==
  /\ disk \in {None, [refresh |-> 1, expires |-> Window + 1, account |-> "one"]}
  /\ durable = disk /\ lock = Nobody /\ stages = {}
  /\ proc = [p \in Procs |-> Idle] /\ clock = 0
  /\ tokens = [issued |-> 1, live |-> {1}]
  /\ promised = [document |-> disk, since |-> {}]
  /\ mishaps = Mishaps

Step(p) ==
  \/ Login(p) \/ Logout(p) \/ Resolve(p) \/ OpenParent(p) \/ Acquire(p) \/ Recover(p) \/ Read(p) \/ Refresh(p)
  \/ Stage(p) \/ Rename(p) \/ Finalize(p) \/ Crash(p)

Next == (\E p \in Procs : Step(p)) \/ PowerLoss \/ Tick

Spec == Init /\ [][Next]_vars

------------------------------------------------------------------------------
Untroubled == mishaps = Mishaps

\* Processes that use the credential at once do not sign the person out: while
\* nothing failed, no refresh is ever refused, for the store's token is the one
\* the provider knows and only one process presents it.
NeverSignedOut ==
  Untroubled =>
    /\ \A p \in Procs : proc[p].answer # "refused"
    /\ disk = None \/ disk.refresh \in tokens.live \/ \E p \in Procs : proc[p].at \in {"stage", "rename"} /\ proc[p].held = disk

\* A refresh replaces only the credential it refreshed: no login and no logout
\* that happened while it was under way is undone, and the account stays.
RefreshInPlace ==
  \A p \in Procs : proc[p].kind = "resolve" /\ proc[p].at \in {"refresh", "stage", "rename"} =>
    /\ disk = proc[p].held
    /\ proc[p].at # "refresh" => proc[p].new.account = disk.account

\* What a call reported is what a power loss leaves, or a document published
\* since: a stored login, a logout and a token in use are never lost again.
ReportedIsDurable == durable \in {promised.document} \cup promised.since

\* A resolved credential has not expired when it is asked for, whether it was
\* read, refreshed, or refreshed by another process while this one waited.
ResolvedUsable ==
  \A p \in Procs : proc[p].answer = "resolved" => proc[p].new.expires > proc[p].now /\ proc[p].new # None
=============================================================================
