------------------------------ MODULE Accounts ------------------------------
(***************************************************************************)
(* Users, passkeys, invites, sessions and OIDC sign-in (internal/auth,     *)
(* internal/oidc, the account handlers of internal/server and the tables of*)
(* internal/store).  A request is a process: each database statement that  *)
(* another request could come before is a step, and the pending ceremonies *)
(* are in memory, lost when Veery dies.                                    *)
(*                                                                         *)
(* Abstractions.                                                           *)
(*  - WebAuthn and the provider are verdicts: a finish whose check fails is*)
(*    a ceremony that lapses.  auth.Manager.ceremonies and                 *)
(*    oidc.Manager.flows are one table.                                    *)
(*  - A random id is named when its row is inserted.  Passkeys and sessions*)
(*    are counted as none or some per user.                                *)
(*  - Time only shows as invites, ceremonies and sessions that expire.     *)
(*  - Database calls fail on their constraints only.                       *)
(***************************************************************************)
EXTENDS Naturals, FiniteSets

CONSTANTS
    None,
    Users, Invites, Idents,     \* user ids, invite tokens, OIDC identities
    Empty,                      \* the empty user id
    Ceremonies, Requests,       \* ceremony ids, requests in flight
    Creations,                  \* the ceremonies the library lets a creation finish
    HasAdminGroups              \* whether admin groups are configured

ASSUME AccountsAssumption ==
    /\ HasAdminGroups \in BOOLEAN
    /\ {"enroll", "recover", "device"} \subseteq Creations
    /\ Creations \subseteq {"enroll", "recover", "device", "login"}
    /\ None \notin Users \cup Invites \cup Idents \cup Creations /\ Empty \in Users

VARIABLES
    users, admins,  \* table users: the rows, and those with is_admin
    keyed,          \* users with a row in credentials
    sessions,       \* users with a row in sessions
    link,           \* table oidc_identities, by (issuer, subject)
    invite,         \* table invites
    up,             \* whether the server is running
    cer,            \* Manager.ceremonies and Manager.flows
    req,            \* the requests: program counter and locals
    deleted,        \* history: users that were deleted
    returned,       \* history: those created anew since, by a second-device ceremony of
                    \* theirs that was finished as a registration
    enrolled,       \* history: how many passkeys each invite brought in (up to 2)
    hist            \* history: an admin existed; removals overlapped; an invite was
                    \* withdrawn or ran out since the start, before the first user

tables == <<users, admins, keyed, sessions, link, invite>>
memory == <<up, cer>>
past   == <<deleted, returned, enrolled, hist>>
vars   == <<tables, memory, req, past>>

Ceremony == [kind : {"enroll", "recover", "device", "login", "oidc"},
             user : Users \cup {None}, admin : BOOLEAN]
InviteRow == [st : {"none", "open", "spent"},
              admin : BOOLEAN, forUser : Users \cup {None}]

Idle == [pc |-> "idle", user |-> None, kind |-> None, inv |-> None, idn |-> None, admin |-> FALSE]

Init ==
    /\ users = {} /\ admins = {} /\ keyed = {} /\ sessions = {}
    /\ link = [x \in Idents |-> None]
    /\ invite = [i \in Invites |-> [st |-> "none", admin |-> FALSE, forUser |-> None]]
    /\ up = FALSE
    /\ cer = [c \in Ceremonies |-> None]
    /\ req = [r \in Requests |-> Idle]
    /\ deleted = {} /\ returned = {}
    /\ enrolled = [i \in Invites |-> 0]
    /\ hist = [admin |-> FALSE, overlap |-> FALSE, withdrawn |-> FALSE]

(***************************************************************************)
(* Invites and the start of the process                                    *)
(***************************************************************************)
\* An invite that was used, revoked or has expired: nothing reads its row again.
Spent == [st |-> "spent", admin |-> FALSE, forUser |-> None]

\* NewInvite and CreateInvite.
NewInvite(i, forUser, admin) ==
    /\ invite[i].st = "none"
    /\ invite' = [invite EXCEPT ![i] = [st |-> "open", admin |-> admin, forUser |-> forUser]]

\* Mutant: a first invite is only made for a database without any.
StartOnce ==
    /\ ~up /\ up' = TRUE
    /\ IF users = {} /\ \A i \in Invites : invite[i].st = "none"
       THEN \E i \in Invites : NewInvite(i, None, TRUE)
       ELSE UNCHANGED invite
    /\ hist' = [hist EXCEPT !.withdrawn = FALSE]
    /\ UNCHANGED <<users, admins, keyed, sessions, link, cer, req, deleted, returned, enrolled>>

\* main: Bootstrap, then serve.
Start ==
    /\ ~up /\ up' = TRUE
    /\ IF users = {} THEN \E i \in Invites : NewInvite(i, None, TRUE) ELSE UNCHANGED invite
    /\ hist' = [hist EXCEPT !.withdrawn = FALSE]
    /\ UNCHANGED <<users, admins, keyed, sessions, link, cer, req, deleted, returned, enrolled>>

\* `veery invite' on the host, with the server running or not.
InviteCLI(i, admin) ==
    /\ NewInvite(i, None, admin)
    /\ UNCHANGED <<users, admins, keyed, sessions, link, memory, req, past>>

\* requireAdmin.
RequireAdmin == up /\ sessions \cap admins # {}

\* handleCreateInvite, and handleResetUser for a user that exists.
CreateInvite(i, forUser, admin) ==
    /\ RequireAdmin
    /\ forUser # None => forUser \in users \ {Empty} /\ admin = (forUser \in admins)
    /\ NewInvite(i, forUser, admin)
    /\ UNCHANGED <<users, admins, keyed, sessions, link, memory, req, past>>

Withdraw(i) ==
    /\ invite[i].st = "open"
    /\ invite' = [invite EXCEPT ![i] = Spent]
    /\ hist' = [hist EXCEPT !.withdrawn = @ \/ users = {}]
    /\ UNCHANGED <<users, admins, keyed, sessions, link, memory, req, deleted, returned, enrolled>>

\* handleRevokeInvite.
RevokeInvite(i) == RequireAdmin /\ Withdraw(i)

\* 24 hours pass (InviteTTL).
ExpireInvite(i) == Withdraw(i)

(***************************************************************************)
(* Ceremonies: begin and take                                              *)
(***************************************************************************)
Put(c, kind, user, admin) ==
    /\ up /\ cer[c] = None
    /\ cer' = [cer EXCEPT ![c] = [kind |-> kind, user |-> user, admin |-> admin]]
    /\ UNCHANGED <<tables, up, req, past>>

\* BeginRegistration, and beginRecoveryRegistration for an invite bound to a user.
BeginRegistration(c, i) ==
    /\ invite[i].st = "open"
    /\ IF invite[i].forUser = None
       THEN Put(c, "enroll", None, invite[i].admin)
       ELSE invite[i].forUser \in users
            /\ Put(c, "recover", invite[i].forUser, invite[i].forUser \in admins)

\* handleAddDeviceBegin, behind requireAuth.
BeginAddDevice(c, u) == u \in sessions /\ Put(c, "device", u, FALSE)

\* BeginLogin, whose ceremony has no user id, and Start of an OIDC flow.
BeginLogin(c) == Put(c, "login", Empty, FALSE)
BeginOIDC(c) == Put(c, "oidc", None, FALSE)

\* A ceremony expires, or its finish does not pass the check.
Lapse(c) ==
    /\ cer[c] # None
    /\ cer' = [cer EXCEPT ![c] = None]
    /\ UNCHANGED <<tables, up, req, past>>

\* take and takeFlow: at most one request gets the ceremony.
Take(r, c, kinds, next) ==
    /\ req[r].pc = "idle" /\ cer[c] # None /\ cer[c].kind \in kinds
    /\ cer' = [cer EXCEPT ![c] = None]
    /\ req' = [req EXCEPT ![r] = next]
    /\ UNCHANGED <<tables, up>>

\* What is left to do for a user: the passkey an invite is for, and the session.
Store(r, u) == [Idle EXCEPT !.pc = "credential", !.user = u, !.inv = req[r].inv]
SignIn(u) == [Idle EXCEPT !.pc = "session", !.user = u]

\* FinishRegistration up to the consuming of the invite, for a ceremony of any kind. It
\* and the invite's token come from two cookies, and neither says which the other was
\* begun with: the user id and the admin flag are the ceremony's, whatever the invite.
FinishRegistration(r, c, i) ==
    /\ invite[i].st # "none"
    /\ Take(r, c, Creations,
            [Idle EXCEPT !.pc = "consume", !.user = cer[c].user, !.inv = i,
                         !.kind = cer[c].kind, !.admin = cer[c].admin])
    /\ UNCHANGED past

\* handleAddDeviceFinish: the session's user must be the ceremony's.
FinishAddDevice(r, c) ==
    /\ cer[c] # None /\ cer[c].user \in sessions
    /\ Take(r, c, Creations, [Idle EXCEPT !.pc = "credential", !.user = cer[c].user])
    /\ UNCHANGED past

\* FinishLogin with a passkey of user u; the library refuses a ceremony that was begun
\* for a user it names.
FinishLogin(r, c, u) ==
    /\ u \in keyed
    /\ Take(r, c, {"login"}, SignIn(u))
    /\ UNCHANGED past

\* Finish of an OIDC flow: who the provider says it is, and in an admin group or not.
FinishOIDC(r, c, x, group) ==
    /\ group => HasAdminGroups
    /\ Take(r, c, {"oidc"}, [Idle EXCEPT !.pc = "resolve", !.idn = x, !.admin = group])
    /\ UNCHANGED past

(***************************************************************************)
(* The statements of a request                                             *)
(***************************************************************************)
Go(r, from, next) == req[r].pc = from /\ req' = [req EXCEPT ![r] = next]
To(r, pc) == [req[r] EXCEPT !.pc = pc]

\* A recovery adds a passkey to a user that is there (ceremony.existingUser).
Existing(r) == req[r].kind = "recover"

\* Mutant: the invite was looked at when the ceremony began.
ConsumeInviteBlind(r) ==
    /\ invite' = [invite EXCEPT ![req[r].inv] = Spent]
    /\ Go(r, "consume", IF Existing(r) THEN Store(r, req[r].user) ELSE To(r, "create"))
    /\ UNCHANGED <<users, admins, keyed, sessions, link, memory, past>>

\* ConsumeInvite: used if it is still open, and only then is the account touched.
ConsumeInvite(r) ==
    /\ IF invite[req[r].inv].st = "open"
       THEN /\ Go(r, "consume", IF Existing(r) THEN Store(r, req[r].user) ELSE To(r, "create"))
            /\ invite' = [invite EXCEPT ![req[r].inv] = Spent]
       ELSE Go(r, "consume", Idle) /\ UNCHANGED invite
    /\ UNCHANGED <<users, admins, keyed, sessions, link, memory, past>>

\* CreateUser, for an invite or for a first sign-in from the provider: a random id, or the
\* one a ceremony that was begun for something else has. An id that exists is refused.
CreateUser(r) ==
    /\ \/ \E u \in IF req[r].user = None THEN Users \ (users \cup deleted \cup {Empty})
                   ELSE {req[r].user} \ users :
            /\ users' = users \cup {u}
            /\ admins' = IF req[r].admin THEN admins \cup {u} ELSE admins
            /\ Go(r, "create", IF req[r].inv # None THEN Store(r, u)
                               ELSE [req[r] EXCEPT !.user = u, !.pc = "link"])
            /\ hist' = [hist EXCEPT !.admin = @ \/ req[r].admin, !.withdrawn = FALSE]
            /\ returned' = returned \cup {d \in deleted \cap {u} : req[r].kind = "device"}
       \/ /\ req[r].user \in users /\ Go(r, "create", Idle)
          /\ UNCHANGED <<users, admins, hist, returned>>
    /\ UNCHANGED <<keyed, sessions, link, invite, memory, deleted, enrolled>>

\* Mutant: a recovery invite whose user is missing puts the user back.
AddCredentialUpsert(r) ==
    /\ users' = users \cup {req[r].user}
    /\ keyed' = keyed \cup {req[r].user}
    /\ Go(r, "credential", IF req[r].inv = None THEN Idle ELSE SignIn(req[r].user))
    /\ UNCHANGED <<admins, sessions, link, invite, memory, past>>

\* AddCredential: the row must have its user.
AddCredential(r) ==
    /\ IF req[r].user \in users
       THEN /\ keyed' = keyed \cup {req[r].user}
            /\ enrolled' = [i \in Invites |->
                    IF i = req[r].inv /\ enrolled[i] < 2 THEN enrolled[i] + 1 ELSE enrolled[i]]
            /\ Go(r, "credential", IF req[r].inv = None THEN Idle ELSE SignIn(req[r].user))
       ELSE Go(r, "credential", Idle) /\ UNCHANGED <<keyed, enrolled>>
    /\ UNCHANGED <<users, admins, sessions, link, invite, memory, deleted, returned, hist>>

\* issueSession.
IssueSession(r) ==
    /\ Go(r, "session", Idle)
    /\ sessions' = sessions \cup ({req[r].user} \cap users)
    /\ UNCHANGED <<users, admins, keyed, link, invite, memory, past>>

\* handleLogout of a user's last session, or its end after 30 days (SessionUser).
EndSession(u) ==
    /\ u \in sessions
    /\ sessions' = sessions \ {u}
    /\ UNCHANGED <<users, admins, keyed, link, invite, memory, req, past>>

(***************************************************************************)
(* resolveOIDCUser and syncOIDCAdmin                                       *)
(***************************************************************************)
\* Between a removal's look at the admins and its write.
Removing(q) == req[q].pc \in {"count", "delete", "demote?", "demote"}
NoteOverlap(r) ==
    hist' = [hist EXCEPT !.overlap = @ \/ \E q \in Requests \ {r} : Removing(q)]

\* The identity is looked up, and its user read.
Resolve(r) ==
    LET u == link[req[r].idn]
        sync == HasAdminGroups /\ (u \in admins) # req[r].admin
    IN  /\ Go(r, "resolve",
              IF u = None THEN To(r, "first?")
              ELSE [SignIn(u) EXCEPT
                      !.pc = CASE ~sync -> "session" [] req[r].admin -> "promote"
                               [] OTHER -> "demote?"])
        /\ IF u # None /\ sync /\ ~req[r].admin THEN NoteOverlap(r) ELSE UNCHANGED hist
        /\ UNCHANGED <<tables, memory, deleted, returned, enrolled>>

\* syncOIDCAdmin counts the admins before it takes the flag away.
CountForDemotion(r) ==
    /\ Go(r, "demote?", To(r, IF Cardinality(admins) <= 1 THEN "session" ELSE "demote"))
    /\ UNCHANGED <<tables, memory, past>>

\* SetUserAdmin; a user that is gone is only logged.
SetUserAdmin(r) ==
    /\ \/ Go(r, "promote", To(r, "session")) /\ admins' = admins \cup ({req[r].user} \cap users)
       \/ Go(r, "demote", To(r, "session")) /\ admins' = admins \ {req[r].user}
    /\ hist' = [hist EXCEPT !.admin = @ \/ admins' # {}]
    /\ UNCHANGED <<users, keyed, sessions, link, invite, memory, deleted, returned, enrolled>>

\* The first user of an instance is an admin.
CountUsers(r) ==
    /\ Go(r, "first?", [To(r, "create") EXCEPT !.admin = @ \/ users = {}])
    /\ UNCHANGED <<tables, memory, past>>

\* LinkOIDCIdentity: one row per identity.
LinkIdentity(r) ==
    /\ IF link[req[r].idn] = None /\ req[r].user \in users
       THEN Go(r, "link", SignIn(req[r].user)) /\ link' = [link EXCEPT ![req[r].idn] = req[r].user]
       ELSE Go(r, "link", Idle) /\ UNCHANGED link
    /\ UNCHANGED <<users, admins, keyed, sessions, invite, memory, past>>

(***************************************************************************)
(* handleDeleteUser                                                        *)
(***************************************************************************)
\* GetUser of the target, whom the path names (so not by the empty id); only for an
\* admin are the admins counted.
GetTarget(r, u) ==
    /\ RequireAdmin /\ u \in users \ {Empty}
    /\ Go(r, "idle", [Idle EXCEPT !.pc = IF u \in admins THEN "count" ELSE "delete", !.user = u])
    /\ NoteOverlap(r)
    /\ UNCHANGED <<tables, memory, deleted, returned, enrolled>>

\* Mutant: the count is compared one too low.
CountForDeletionOff(r) ==
    /\ Go(r, "count", IF Cardinality(admins) < 1 THEN Idle ELSE To(r, "delete"))
    /\ UNCHANGED <<tables, memory, past>>

CountForDeletion(r) ==
    /\ Go(r, "count", IF Cardinality(admins) <= 1 THEN Idle ELSE To(r, "delete"))
    /\ UNCHANGED <<tables, memory, past>>

\* DeleteUser, with the rows that cascade.
DeleteUser(r) ==
    LET u == req[r].user IN
    /\ Go(r, "delete", Idle)
    /\ users' = users \ {u} /\ admins' = admins \ {u}
    /\ keyed' = keyed \ {u} /\ sessions' = sessions \ {u}
    /\ link' = [x \in Idents |-> IF link[x] = u THEN None ELSE link[x]]
    /\ invite' = [i \in Invites |-> IF invite[i].forUser = u THEN Spent ELSE invite[i]]
    /\ deleted' = deleted \cup {u} /\ returned' = returned \ {u}
    /\ UNCHANGED <<memory, enrolled, hist>>

(***************************************************************************)
(* The process                                                             *)
(***************************************************************************)
\* Requests and ceremonies are in memory.
Crash ==
    /\ up /\ up' = FALSE
    /\ cer' = [c \in Ceremonies |-> None]
    /\ req' = [r \in Requests |-> Idle]
    /\ UNCHANGED <<tables, past>>

Begin(c) ==
    \/ \E i \in Invites : BeginRegistration(c, i)
    \/ \E u \in Users : BeginAddDevice(c, u)
    \/ BeginLogin(c) \/ BeginOIDC(c) \/ Lapse(c)

Finish(r, c) ==
    \/ \E i \in Invites : FinishRegistration(r, c, i)
    \/ FinishAddDevice(r, c)
    \/ \E u \in Users : FinishLogin(r, c, u)
    \/ \E x \in Idents, group \in BOOLEAN : FinishOIDC(r, c, x, group)

Statement(r) ==
    \/ req[r].inv # None /\ ConsumeInvite(r)
    \/ CreateUser(r) \/ AddCredential(r) \/ IssueSession(r)
    \/ req[r].idn # None /\ (Resolve(r) \/ LinkIdentity(r))
    \/ CountForDemotion(r) \/ SetUserAdmin(r) \/ CountUsers(r)
    \/ CountForDeletion(r) \/ DeleteUser(r)

Admin(i) ==
    \/ \E admin \in BOOLEAN : InviteCLI(i, admin)
    \/ \E u \in Users \cup {None}, admin \in BOOLEAN : CreateInvite(i, u, admin)
    \/ RevokeInvite(i) \/ ExpireInvite(i)

Next ==
    \/ Start \/ Crash
    \/ \E i \in Invites : Admin(i)
    \/ \E c \in Ceremonies : Begin(c)
    \/ \E r \in Requests, c \in Ceremonies : Finish(r, c)
    \/ \E r \in Requests : Statement(r) \/ \E u \in Users : GetTarget(r, u)
    \/ \E u \in Users : EndSession(u)

Spec == Init /\ [][Next]_vars

(***************************************************************************)
(* Properties                                                              *)
(***************************************************************************)
Pcs == {"idle", "consume", "create", "credential", "session", "resolve", "first?", "promote",
        "demote?", "demote", "link", "count", "delete"}
Request == [pc : Pcs, user : Users \cup {None}, kind : Creations \cup {None}, inv : Invites \cup {None},
            idn : Idents \cup {None}, admin : BOOLEAN]

\* Every variable stays in its set; admins, passkeys, sessions and identities belong
\* to users that exist (the foreign keys), and no ceremony or request outlives the
\* process.
TypeOK ==
    /\ users \subseteq Users /\ admins \subseteq users /\ deleted \subseteq Users /\ returned \subseteq deleted
    /\ keyed \subseteq users /\ sessions \subseteq users
    /\ link \in [Idents -> users \cup {None}]
    /\ invite \in [Invites -> InviteRow]
    /\ up \in BOOLEAN
    /\ cer \in [Ceremonies -> Ceremony \cup {None}]
    /\ req \in [Requests -> Request]
    /\ \A c \in Ceremonies : cer[c] # None => up
    /\ \A r \in Requests : req[r].pc # "idle" => up
    /\ enrolled \in [Invites -> 0 .. 2]
    /\ hist \in [admin : BOOLEAN, overlap : BOOLEAN, withdrawn : BOOLEAN]

\* An invite link enrolls one passkey, however many ceremonies were begun, with it or
\* another, and however often a finish is sent (ConsumeInvite, take). Whose passkey it is
\* is the ceremony's affair: see FinishRegistration.
InviteOnce == \A i \in Invites : enrolled[i] <= 1

\* The provider's groups and the account page cannot take away the last admin
\* (handleDeleteUser, syncOIDCAdmin), as long as no two removals are between the
\* count and the write at once.
AdminRemains == (hist.admin /\ ~hist.overlap) => admins # {}

\* The same without the proviso, as the code states it. This FAILS.
AdminAlways == hist.admin => admins # {}

\* A deleted user comes back in one way only: a second-device ceremony of theirs, begun
\* while they existed, is finished as a registration, with an open invite
\* (FinishRegistration). Nothing else that was under way brings them back, not a
\* recovery link, a second device finished as one, or a sign-in.
DeletedStaysDeleted == deleted \cap users \subseteq returned

\* The same without the proviso. This FAILS.
DeletedForGood == deleted \cap users = {}

\* A running instance that has no user offers a way in: a first registration that
\* a crash cut short after it used its invite is made up for at the next start
\* (Bootstrap), unless the invite was revoked, expired, or is being redeemed.
EntryOffered ==
    (up /\ users = {} /\ ~hist.withdrawn /\ ~hist.overlap
        /\ \A r \in Requests : req[r].pc # "create")
    => \E i \in Invites : invite[i].st = "open" /\ invite[i].admin /\ invite[i].forUser = None

(***************************************************************************)
(* The inductive invariants behind the properties (AccountsProofs).        *)
(***************************************************************************)
\* A request that has used up an invite and has yet to store its passkey.
Redeeming(r, i) == req[r].inv = i /\ req[r].pc \in {"create", "credential"}

\* An invite is redeemed by one request, after it was spent and before a passkey came of it.
RedeemInv ==
    \A i \in Invites :
        /\ enrolled[i] <= 1
        /\ \A r \in Requests : Redeeming(r, i) => invite[i].st = "spent" /\ enrolled[i] = 0
        /\ \A q, r \in Requests : Redeeming(q, i) /\ Redeeming(r, i) => q = r
        /\ invite[i].st # "spent" => enrolled[i] = 0

\* While removals have not overlapped there is one at a time, and what it has
\* counted still holds: another admin is there when it writes.
AdminInv ==
    ~hist.overlap =>
        /\ \A q, r \in Requests : Removing(q) /\ Removing(r) => q = r
        /\ \A r \in Requests : req[r].pc \in {"delete", "demote"} => admins \ {req[r].user} # {}
        /\ hist.admin => admins # {}

\* Only a registration holds an invite, only one whose ceremony was for a user that
\* existed, or for none, creates a user by an id it has, and a deletion has its target.
BoundInv ==
    /\ \A c \in Ceremonies : cer[c] # None /\ cer[c].user \notin {None, Empty} =>
         cer[c].kind \in {"recover", "device"}
    /\ \A r \in Requests :
         /\ req[r].pc = "consume" => req[r].inv # None
         /\ req[r].inv # None => req[r].pc \in {"consume", "create", "credential"}
         /\ req[r].pc \in {"consume", "create"} /\ req[r].user \notin {None, Empty} =>
              req[r].kind \in {"recover", "device"}
         /\ req[r].pc = "create" => ~Existing(r)
         /\ req[r].pc \in {"resolve", "first?"} => req[r].user = None /\ req[r].kind = None
         /\ req[r].pc \in {"count", "delete"} => req[r].user \in Users \ {Empty}
    /\ Empty \notin deleted

\* Before the first user there is nobody to recover. (A database that had users has
\* one, unless removals overlapped.)
FirstInv ==
    users = {} /\ ~hist.overlap =>
        /\ \A i \in Invites : invite[i].st = "open" => invite[i].forUser = None
        /\ \A c \in Ceremonies : cer[c] # None => cer[c].kind # "recover"
        /\ \A r \in Requests : req[r].pc = "consume" => ~Existing(r)

\* The conjunction that every step preserves.
AccountsInv ==
    TypeOK /\ DeletedStaysDeleted /\ RedeemInv /\ AdminInv /\ BoundInv /\ FirstInv /\ EntryOffered
=============================================================================
