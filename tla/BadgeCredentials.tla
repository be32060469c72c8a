--------------------------- MODULE BadgeCredentials ---------------------------
(***************************************************************************)
(* Publication of badge credentials: the signed revocation list of a group *)
(* and the signed export of one award that carries a salted hash of its    *)
(* owner's e-mail address.  Signing is slow, so both are kept in memory    *)
(* caches shared by concurrent requests, and misses wait for a lock, while *)
(* awards are revoked, the owner changes address and the server restarts   *)
(* with another signing key.                                               *)
(***************************************************************************)
EXTENDS Integers, FiniteSets

CONSTANTS
    Bits,        \* entries of the status list; Own is the exported award's
    Own,
    Requests,    \* concurrent requests
    Emails,
    Keys,        \* signing keys of successive configurations
    MaxBindings  \* bound: identities bound to the award

ASSUME BadgeCredentialsAssumption == Own \in Bits /\ MaxBindings \in Nat

VARIABLES
    revoked,      \* database: the revoked bits of the list
    email,        \* database: the owner's address
    binding,      \* database: identity of the award, salt 0 for none
    keys,         \* configuration: signing and retained verification keys
    statusCache,  \* at most one representation: the bits it covers
    exportCache,  \* signed exports by the salt of their key
    signer,       \* holders of the two signing locks, 0 for none
    request       \* requests in flight

credentialVars == <<revoked, email, binding, keys, statusCache, exportCache, signer, request>>

NoIdentity == [salt |-> 0, email |-> CHOOSE e \in Emails : TRUE]
NoExport == [identity |-> NoIdentity, key |-> CHOOSE k \in Keys : TRUE]
IdleRequest == [pc |-> "idle", read |-> {}, since |-> {}, list |-> {}, identity |-> NoIdentity, export |-> NoExport]

Becomes(r, rec) == request' = [request EXCEPT ![r] = rec]
StepTo(r, pc) == request' = [request EXCEPT ![r].pc = pc]

-----------------------------------------------------------------------------
(* The status list *)

\* GET /badges/status-lists: the state is read before the cache is asked.
StatusList(r) ==
    /\ request[r].pc = "idle"
    /\ Becomes(r, [IdleRequest EXCEPT !.pc = "list", !.read = revoked, !.since = revoked])
    /\ UNCHANGED <<revoked, email, binding, keys, statusCache, exportCache, signer>>

StatusCacheGet_Any(bits) == statusCache   \* mutant: the representation is found by the list alone

\* Only a representation of exactly this state.
StatusCacheGet(bits) == {c \in statusCache : c = bits}

ServeList(r, list) == Becomes(r, [request[r] EXCEPT !.pc = "served", !.list = list])

LookUpList(r) ==
    /\ request[r].pc = "list"
    /\ IF StatusCacheGet(request[r].read) # {}
       THEN \E c \in StatusCacheGet(request[r].read) : ServeList(r, c)
       ELSE StepTo(r, "lock-list")
    /\ UNCHANGED <<revoked, email, binding, keys, statusCache, exportCache, signer>>

\* A miss waits for the lock and looks again.
LockList(r) ==
    /\ request[r].pc = "lock-list" /\ signer.list = 0
    /\ IF StatusCacheGet(request[r].read) # {}
       THEN UNCHANGED signer /\ \E c \in StatusCacheGet(request[r].read) : ServeList(r, c)
       ELSE signer' = [signer EXCEPT !.list = r] /\ StepTo(r, "sign-list")
    /\ UNCHANGED <<revoked, email, binding, keys, statusCache, exportCache>>

SignList(r) ==
    /\ request[r].pc = "sign-list"
    /\ statusCache' = {request[r].read}
    /\ signer' = [signer EXCEPT !.list = 0]
    /\ ServeList(r, request[r].read)
    /\ UNCHANGED <<revoked, email, binding, keys, exportCache>>

-----------------------------------------------------------------------------
(* Exports *)

\* The owner's download: the award is read first, the identity bound after.
Export(r) ==
    /\ request[r].pc = "idle"
    /\ Own \notin revoked
    /\ Becomes(r, [IdleRequest EXCEPT !.pc = "bind"])
    /\ UNCHANGED <<revoked, email, binding, keys, statusCache, exportCache, signer>>

\* The public JSON representation, which carries no identity.
Credential(r) ==
    /\ request[r].pc = "idle"
    /\ Becomes(r, [IdleRequest EXCEPT !.pc = "export"])
    /\ UNCHANGED <<revoked, email, binding, keys, statusCache, exportCache, signer>>

\* refresh_user_badge_identity: a new salt when the binding is missing or the
\* address changed; an error when the award was revoked in the meantime.
RefreshUserBadgeIdentity(r) ==
    LET stale == binding.salt = 0 \/ binding.email # email
        new == [salt |-> binding.salt + 1, email |-> email]
    IN /\ request[r].pc = "bind"
       /\ stale => binding.salt < MaxBindings
       /\ IF Own \in revoked THEN Becomes(r, IdleRequest) /\ UNCHANGED binding
          ELSE /\ binding' = IF stale THEN new ELSE binding
               /\ Becomes(r, [request[r] EXCEPT !.pc = "export", !.identity = binding'])
       /\ UNCHANGED <<revoked, email, keys, statusCache, exportCache, signer>>

ExportKey_AwardOnly(identity) == 0   \* mutant: rebinding finds the earlier export

\* The award and the salt of its identity.
ExportKey(identity) == identity.salt

\* The newest representation of a key replaces the one before.
ExportCacheInsert(cache, entry) == {c \in cache : c.slot # entry.slot} \cup {entry}

ExportCacheGet(identity) == {c \in exportCache : c.slot = ExportKey(identity)}

Deliver(r, export) == Becomes(r, [request[r] EXCEPT !.pc = "delivered", !.export = export])

LookUpExport(r) ==
    /\ request[r].pc = "export"
    /\ IF ExportCacheGet(request[r].identity) # {}
       THEN \E c \in ExportCacheGet(request[r].identity) : Deliver(r, c.export)
       ELSE StepTo(r, "lock-export")
    /\ UNCHANGED <<revoked, email, binding, keys, statusCache, exportCache, signer>>

\* The wait for the lock ends after two seconds with "busy".
LockExport(r) ==
    /\ request[r].pc = "lock-export"
    /\ \/ /\ signer.export = 0
          /\ IF ExportCacheGet(request[r].identity) # {}
             THEN UNCHANGED signer /\ \E c \in ExportCacheGet(request[r].identity) : Deliver(r, c.export)
             ELSE signer' = [signer EXCEPT !.export = r] /\ StepTo(r, "sign-export")
       \/ signer.export # 0 /\ Becomes(r, IdleRequest) /\ UNCHANGED signer
    /\ UNCHANGED <<revoked, email, binding, keys, statusCache, exportCache>>

SignExport(r) ==
    LET export == [identity |-> request[r].identity, key |-> keys.signing] IN
    /\ request[r].pc = "sign-export"
    /\ exportCache' = ExportCacheInsert(exportCache, [slot |-> ExportKey(request[r].identity), export |-> export])
    /\ signer' = [signer EXCEPT !.export = 0]
    /\ Deliver(r, export)
    /\ UNCHANGED <<revoked, email, binding, keys, statusCache>>

\* The answer reached its client.
Answered(r) ==
    /\ request[r].pc \in {"served", "delivered"}
    /\ Becomes(r, IdleRequest)
    /\ UNCHANGED <<revoked, email, binding, keys, statusCache, exportCache, signer>>

-----------------------------------------------------------------------------
(* What changes meanwhile *)

Revoke(b) ==
    /\ b \notin revoked
    /\ revoked' = revoked \cup {b}
    /\ UNCHANGED <<email, binding, keys, statusCache, exportCache, signer, request>>

ChangeEmail(e) ==
    /\ e # email
    /\ email' = e
    /\ UNCHANGED <<revoked, binding, keys, statusCache, exportCache, signer, request>>

\* Least recently used entries go first; here any may.
Evict ==
    /\ \/ statusCache # {} /\ statusCache' = {} /\ UNCHANGED exportCache
       \/ exportCache # {} /\ (\E c \in exportCache : exportCache' = exportCache \ {c}) /\ UNCHANGED statusCache
    /\ UNCHANGED <<revoked, email, binding, keys, signer, request>>

\* The active key is published with the retained ones.
VerificationKeys(signing, retained) == retained \cup {signing}

\* A restart with another configuration; requests in flight die with it.
Restart(signing, retained) ==
    /\ signing # keys.signing
    /\ keys' = [signing |-> signing, known |-> VerificationKeys(signing, retained)]
    /\ statusCache' = {} /\ exportCache' = {} /\ signer' = [list |-> 0, export |-> 0]
    /\ request' = [r \in Requests |-> IdleRequest]
    /\ UNCHANGED <<revoked, email, binding>>

-----------------------------------------------------------------------------

CredentialInit ==
    /\ revoked = {}
    /\ email = NoIdentity.email
    /\ binding = NoIdentity
    /\ keys = [signing |-> NoExport.key, known |-> VerificationKeys(NoExport.key, {})]
    /\ statusCache = {} /\ exportCache = {} /\ signer = [list |-> 0, export |-> 0]
    /\ request = [r \in Requests |-> IdleRequest]

ListStep == \E r \in Requests : StatusList(r) \/ LookUpList(r) \/ LockList(r) \/ SignList(r)

ExportStep ==
    \E r \in Requests :
        Export(r) \/ Credential(r) \/ RefreshUserBadgeIdentity(r) \/ LookUpExport(r) \/ LockExport(r) \/ SignExport(r)

CredentialNext ==
    \/ ListStep \/ ExportStep
    \/ \E r \in Requests : Answered(r)
    \/ \E b \in Bits : Revoke(b)
    \/ \E e \in Emails : ChangeEmail(e)
    \/ Evict
    \/ \E signing \in Keys, retained \in SUBSET Keys : Restart(signing, retained)

CredentialSpec == CredentialInit /\ [][CredentialNext]_credentialVars

-----------------------------------------------------------------------------
(* Properties *)

\* verify_submission of an export: its key must be known; it is reported as
\* superseded when the award is bound to another identity by then.
Accepts(export) == export.key \in keys.known
Superseded(export) == export.identity.salt # 0 /\ export.identity # binding

\* A served list covers every revocation that was committed when its request
\* came in, although requests that read older states may still fill the cache.
ServedListIsFresh == \A r \in Requests : request[r].pc = "served" => request[r].since \subseteq request[r].list

\* A download verifies: it is signed by a published key, and it is superseded
\* only by a later binding, never because the cache answered with another one.
\* A public credential carries no identity.
DownloadVerifies ==
    \A r \in Requests : request[r].pc = "delivered" =>
        /\ Accepts(request[r].export)
        /\ request[r].identity \in {binding, NoIdentity} => ~Superseded(request[r].export)
        /\ request[r].identity = NoIdentity => request[r].export.identity = NoIdentity
=============================================================================
